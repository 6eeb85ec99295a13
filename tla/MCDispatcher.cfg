SPECIFICATION Spec
CONSTANTS
  Finders = {f1, f2}
  Objects = {p1, p2, o1, o2, o3}
  Plugins = {p1, p2}
  NoObject = NoObject
  IDs <- MCIDs
  BitsPerChunk = 2
  HintMaximums = {3, 4}
  Word = 16
  MaxBirths = 3
INVARIANTS NoUseAfterFree DispatcherInv
PROPERTIES NeverResurrected ReuseOnlyWhenExhausted OperationsFinish
