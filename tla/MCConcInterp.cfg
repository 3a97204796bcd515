SPECIFICATION FairSpec
CONSTANTS
  main = main  a = a  b = b  c1 = c1
  Tasks = {main, a, b}
  Main = main
  Chans = {c1}
  Cap <- OneBounded
  Values = {v1}
  NoVal = NoVal
  MaxOps = 2
INVARIANTS NoLostWakeup DeadlockSound SomeoneAwake CleanExit
PROPERTIES ImplementsConcSpec Terminates
