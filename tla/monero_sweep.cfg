CONSTANTS
  NumNodes = 3
  SWEEP_MAX_ATTEMPTS = 3
  MAX_RING_RETRIES = 2
  NotifyAttempts = 2
  MaxCalls = 2
SPECIFICATION Spec
CHECK_DEADLOCK FALSE
INVARIANTS
  TypeOK
  SweptMeansSpent
  OnlySoundSigned
PROPERTIES
  CallEnds
