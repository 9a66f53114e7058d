CONSTANTS
  MAX_TRANSIENT_RETRIES = 2
  HasProtocolCache = TRUE
  MaxRuns = 2
SPECIFICATION Spec
CHECK_DEADLOCK FALSE
INVARIANTS
  TypeOK
  EndsWithVerdict
  AnsweredCompletionTrue
PROPERTIES
  KeepsRefundPromise
  VerdictStands
  CancelEnds
  RefundConcludes
