CONSTANTS
  Makers = {m1}
  NoMaker = NoMaker
  Faults = {"xmr"}
  SavesSnapshot = TRUE
  LoadsSnapshot = TRUE
  HasProvider = TRUE
  PRESIGS_ALREADY_DONE_MAX = 2
  MAX_ENCSIG_FAILURES = 1
  FUND_ATTEMPTS = 2
  MaxSwitches = 0
  MaxRestarts = 0
SPECIFICATION FairSpec
CHECK_DEADLOCK FALSE
PROPERTIES
  AbortStops
  DeadlineEndsWait
  WedgeGivesUp
  FundedSwapResolves
