SPECIFICATION Spec
CONSTANTS
  Tasks = {0}
  Lines = {1, 2}
  MaxDepth = 3
  MaxHits = Unbounded
  Unbounded = Unbounded
  MayDie = FALSE
CHECK_DEADLOCK FALSE
PROPERTIES IsDebugger
