SPECIFICATION FairSpec
CONSTANTS
  p1 = p1
  p2 = p2
  Producers = {p1, p2}
  Subscribers = {s1}
  Readers = {r1}
  Closers = {c1}
  Tables = {t1}
  Topic <- PublisherTopic
  AllTables = AllTables
  NoTable = NoTable
  NoProc = NoProc
  BufCap = 1
  MaxEvents <- TwoAndOne
INVARIANTS NoSendOnClosed ReceivedInOrder
PROPERTIES CallsReturn HandleEventReturns ImplementsSubscription
