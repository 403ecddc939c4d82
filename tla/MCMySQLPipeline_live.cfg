SPECIFICATION FairSpec
CONSTANTS
  BufCap = 1
  Entries <- LiveEntries
  MaxEntries = 2
  Span = 3
  FileSpan = 20
  MaxCrashes = 1
  MaxSaveFails = 1
  MaxExpiries = 0
INVARIANTS IInv
PROPERTIES ImplementsContract EventuallyDelivered OffsetCatchesUp
CHECK_DEADLOCK FALSE
