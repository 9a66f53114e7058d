CONSTANTS
  MaxTries = 2
  MaxRetries = 1
  MaxAttempt = 2
SPECIFICATION Spec
INVARIANTS
  SwapsAccounted
