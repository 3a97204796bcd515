CONSTANTS
  Programs <- MCPrograms
  MaxDepth = 6
  MaxRounds = 6
  FirstCap = 2
  Rounds = 6
  Corner = "output"
INIT Init
NEXT Next
INVARIANT SameOutput
CHECK_DEADLOCK FALSE
