CONSTANTS
  Makers = {m1, m2}
  NoMaker = NoMaker
  Faults <- AllFaults
  SavesSnapshot = TRUE
  LoadsSnapshot = TRUE
  HasProvider = TRUE
  PRESIGS_ALREADY_DONE_MAX = 2
  MAX_ENCSIG_FAILURES = 2
  FUND_ATTEMPTS = 2
  MaxSwitches = 1
  MaxRestarts = 1
SPECIFICATION Spec
CHECK_DEADLOCK FALSE
INVARIANTS
  TypeOK
  FirstMakerSnapshot
  FirstMakerLinked
  LockIsRecoverable
  LockedTermsAccepted
  KeyReleasedAgainstMonero
PROPERTY KeepsPromise
SYMMETRY MakerSymmetry
CONSTRAINT Bounded
