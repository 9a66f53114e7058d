CONSTANTS
  NoAnswer = NoAnswer
  AllNodes = {n1, n2, n3}
  monerodQuorum = 2
  minConfirmations = 2
  Defects = {"short"}
  MaxHeight = 2
  Undefined = 3
SPECIFICATION LockSpec
CHECK_DEADLOCK FALSE
INVARIANTS
  VerifiedIsConfirmed
