CONSTANTS
  Programs <- MCPrograms
  MaxDepth = 6
  MaxRounds = 6
  FirstCap = 2
  Rounds = 6
  Corner = "none"
INIT Init
NEXT Next
INVARIANTS CheckedRunsRight CheckedCompiles NothingStale SameOutput
CHECK_DEADLOCK FALSE
