CONSTANTS
  MaxCalls = 4
SPECIFICATION Spec
CHECK_DEADLOCK FALSE
INVARIANTS
  TypeOK
  HeardIsHeld
  OneFlowRuns
  IdleRunsNothing
PROPERTIES
  ReplacedIsSilent
