SPECIFICATION Spec
CONSTANTS
  Tasks = {1, 2}
  MaxConns = 2
  MaxBytes = 1
  NewlineAt = {2}
  MaxCalls = 3
  Asked = {1}
  Stale = TRUE
CHECK_DEADLOCK FALSE
INVARIANTS OwnBytes
