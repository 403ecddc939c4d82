SPECIFICATION Spec
CONSTANTS
  MaxLsn = 1
  BufCap = 1
  TxnShapes <- BadShapes
  MaxCrashes = 0
  MaxDrops = 0
  MaxLosses = 0
  MaxExpiries = 0
INVARIANTS AdvancesPastAckedOnly
