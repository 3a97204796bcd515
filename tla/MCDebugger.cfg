SPECIFICATION Spec
CONSTANTS
  Lines = {1, 2, 3}
  StdLines = {3}
  MaxDepth = 3
CHECK_DEADLOCK FALSE
PROPERTIES NextStaysOut OutHasReturned NothingMissed
