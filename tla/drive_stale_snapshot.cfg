CONSTANTS
  Makers = {m1, m2}
  NoMaker = NoMaker
  Faults <- FewFaults
  SavesSnapshot = TRUE
  LoadsSnapshot = TRUE
  HasProvider = TRUE
  PRESIGS_ALREADY_DONE_MAX = 2
  MAX_ENCSIG_FAILURES = 1
  FUND_ATTEMPTS = 2
  MaxSwitches = 1
  MaxRestarts = 0
SPECIFICATION Spec
CHECK_DEADLOCK FALSE
INVARIANT SnapshotDescribesLock
SYMMETRY MakerSymmetry
