SPECIFICATION Spec
CONSTANTS
  MaxLsn = 1
  BufCap = 1
  TxnShapes <- SmallShapes
  MaxCrashes = 1
  MaxDrops = 0
  MaxLosses = 1
  MaxExpiries = 0
PROPERTIES GapIsCounted
