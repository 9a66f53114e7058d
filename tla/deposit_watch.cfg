CONSTANTS
  NoAnswer = NoAnswer
  p1 = p1
  p2 = p2
  Payments = {p1, p2}
  Amount <- MCAmount
  Forged <- MCForged
  Servers = {s1, s2, s3}
  Quorum = 2
  MAX_DEPOSIT_UTXOS = 1
SPECIFICATION Spec
CHECK_DEADLOCK FALSE
PROPERTIES
  DepositBacked
  DepositSeen
