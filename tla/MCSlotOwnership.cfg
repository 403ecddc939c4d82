SPECIFICATION FairSlotSpec
CONSTANTS
  w1 = w1
  w2 = w2
  a = a
  b = b
  Watchers = {w1, w2}
  Slots = {a, b}
  Deployments <- TwoWatchers
  Cleaners = {w2}
  Matching = {a}
  AnyWAL = TRUE
  None = None
  Stale = 2
  Beat = 1
  Skew = 0
  MaxStarts <- OneRestarts
INVARIANTS CleanupSeesOwners ReleasedMeansStopped
PROPERTIES HeardOwnerKeepsSlot OrphansAreDropped RunningGetsItsSlot
CHECK_DEADLOCK FALSE
