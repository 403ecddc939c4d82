SPECIFICATION Spec
CONSTANTS
  BufCap = 1
  Entries <- AllEntries
  MaxEntries = 3
  Span = 5
  FileSpan = 20
  MaxCrashes = 1
  MaxSaveFails = 1
  MaxExpiries = 1
CONSTRAINT Scenario
INVARIANTS OffsetIsDelivered OffsetIsBoundary IdNamesOneChange OneEntryPerEvent
PROPERTIES OffsetNeverRetreats
CHECK_DEADLOCK FALSE
