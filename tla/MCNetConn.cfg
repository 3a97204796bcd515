SPECIFICATION FairSpec
CONSTANTS
  Tasks = {1, 2}
  MaxConns = 2
  MaxBytes = 2
  NewlineAt = {2}
  MaxCalls = 2
  Asked = {2}
  Stale = FALSE
CHECK_DEADLOCK FALSE
INVARIANTS NothingLost ShortMeansEnd SendsWhole
PROPERTIES SlotIsFree Returns
