SPECIFICATION FairSpec
CONSTANTS
  Tables <- AllTables
  ChunkSize = 2
  MaxChanges = 3
  MaxRetries = 1
INVARIANTS ReplicaConverges UntouchedOnce
PROPERTIES SnapshotEnds
CHECK_DEADLOCK FALSE
