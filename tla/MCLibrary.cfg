SPECIFICATION Spec
CONSTANTS
  MaxSteps = 150
  MaxGroups = 3
  MaxRanges = 2
  MaxSrc = 3
  MaxText = 3
  MaxJson = 4
  MaxDigits = 2
  Bits = 4
  Chunk = 2
  MaxStream = 6
  MaxSort = 6
  KeyLists <- MCKeyLists
  Counts = {0, 3}
  Lengths = {0, 1, 2, 3, 4}
  Streams <- MCStreams
  Dicts = {a, b}
  Keys = {k1, k2, k3}
  Values = {v1, v2}
  HashRange = {0, 1}
  FirstCap = 1
  FirstSlots = 2
  MaxLen = 3
  MaxArrays = 2
  Sizes = {1, 2}
  Offsets = {1}
  Guard = 1
  Chunk0 = 3
  MaxBlocks = 3
  MaxPointers = 3
  MaxArenas = 2
  Jobs <- MCJobs
CHECK_DEADLOCK FALSE
INVARIANTS SameAnswer MatchIsMeaning NothingRepeated LinesWhole JsonAgrees SortedStably DictsAgree ProbingEnds NoUseAfterFree BlocksApart
