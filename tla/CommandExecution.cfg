SPECIFICATION FairSpec
CONSTANTS
  Executors = {e1, e2}
  Recoverers = {r1, r2}
  Cancellers = {c1}
  NeedsVerification = TRUE
  MaxCrashes = 1
  None = None
INVARIANTS
  OneAgent
  SingleFlight
  CompletedWasDecided
PROPERTIES
  ExecutionEnds
CHECK_DEADLOCK FALSE
