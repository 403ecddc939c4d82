SPECIFICATION FairSpec
CONSTANTS
  MaxLsn = 1
  BufCap = 1
  TxnShapes <- LiveShapes
  MaxCrashes = 1
  MaxDrops = 0
  MaxLosses = 1
  MaxExpiries = 0
PROPERTIES EventuallyDelivered SlotCatchesUp
