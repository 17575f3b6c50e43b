SPECIFICATION FairSpec
CONSTANTS
  t1 = t1  t2 = t2  t3 = t3  p1 = p1  p2 = p2  p3 = p3
  Tasks = {t1, t2, t3}
  Clearers = {t3}
  Procs = {p1, p2, p3}
  ProcOf <- Apart
  MaxCrashes = 1
  None = None
INVARIANTS
  ExclusiveUnlessRaced
PROPERTIES
  LogIsAtomic
  EveryCallEnds
CHECK_DEADLOCK FALSE
