SPECIFICATION Spec
CONSTANTS
  MaxLsn = 2
  BufCap = 1
  TxnShapes <- AllShapes
  MaxCrashes = 1
  MaxDrops = 1
  MaxLosses = 1
  MaxExpiries = 1
CONSTRAINT Scenario
INVARIANTS IInv ConfirmedIsDelivered StreamHasNoGaps IdNamesOneChange StoredOnce CaughtUpIsDelivered OneEntryPerEvent
PROPERTIES FlushNeverRetreats ImplementsContract
