CONSTANTS
  MAX_TRANSIENT_RETRIES = 1
  MaxRuns = 2
SPECIFICATION Spec
CHECK_DEADLOCK FALSE
INVARIANTS
  RestrictedShowsNothing
PROPERTIES
  RefusalStands
  EndReported
  CancelEnds
