CONSTANTS
  Undefined = Undefined
  Null = Null
  MinRate = 1
  MaxRate = 2
  VbytesOneOut = 2
  VbytesTwoOut = 3
  DustKey = 2
  DustScript = 3
  MaxRatioBps = 2000
  MinBlocks = 1
  MaxBlocks = 288
  Terms <- MCTerms
SPECIFICATION Spec
CHECK_DEADLOCK FALSE
INVARIANTS
  KeyShareGated
  RefundHonoursTerms
PROPERTIES
  KeepsRefundPromise
  RefundGetsThrough
