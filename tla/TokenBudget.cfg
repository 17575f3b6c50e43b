SPECIFICATION Spec
CONSTANTS
  Workstreams = {w1, w2, w3}
  Ids = {i1, i2, i3, i4}
  Messages = {m1, m2, m3}
  Needs = {2, 3}
  Usages = {1, 3}
  RunTotal = 6
  ChildTotal = 4
  StopAt = 4
  MaxRestarts = 2
  None = None
SYMMETRY Sym
INVARIANTS
  TypeOK
  ConsumedIsDurable
  Accounted
  EndedHoldsNothing
PROPERTIES
  StopIsFinal
  GrantsWithinCeiling
CHECK_DEADLOCK FALSE
