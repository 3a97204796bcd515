SPECIFICATION FairSpec
CONSTANTS
  Tasks = {0, 1}
  Lines = {1}
  MaxDepth = 1
  MaxHits = 2
  Unbounded = Unbounded
  MayDie = TRUE
CHECK_DEADLOCK FALSE
INVARIANTS Agreement ShownIsTrue
PROPERTIES Ends
