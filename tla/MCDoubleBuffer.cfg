SPECIFICATION Spec
CONSTANTS
  Readers = {r1, r2}
  Setters = {s1, s2}
  MaxSets = 3
  NoSetter = NoSetter
INVARIANTS ReferenceStable
PROPERTIES OldReadersGone AccessesFinish ImplementsRegister
