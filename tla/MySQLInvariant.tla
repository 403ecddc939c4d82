--------------------------- MODULE MySQLInvariant ---------------------------
(***************************************************************************)
(* The inductive invariant of MySQLPipeline.  The commit gate numbers no   *)
(* event, so OffsetIsDelivered rests on a count: while an event from       *)
(* before a boundary still waits, every event emitted after the boundary   *)
(* waits behind it, and the acks cannot have reached the boundary's count, *)
(* even if an ack was counted before its event.                            *)
(***************************************************************************)
EXTENDS MySQLPipeline

\* The changes the publisher has taken or will take.
Waiting == {e.change : e \in Queue}
WaitingAfter(t) == {c \in Waiting : c[1] > t}

\* Before in the log.
Precedes(c, d) == c[1] < d[1] \/ (c[1] = d[1] /\ c[2] < d[2])

\* Events given to the bus, whether Hand has counted them yet or not, and the
\* first row of the open entry that is still to come.
Emitted == gate.handed + (IF handing THEN 1 ELSE 0)
NextRow == sess.at + (IF handing THEN 1 ELSE 0)

\* Once n acks are counted, the change is stored.
Accounted(t, i, n) ==
  \/ <<t, i>> \in Stored
  \/ <<t, i>> \in Waiting
  \/ Halted /\ acked < n

Rows(t) == binlog[t].rows

\* The id of the i-th row of the t-th entry, read off the log alone.
EmittedBefore(t, i) == {j \in 1 .. i - 1 : Rows(t)[j] # "filtered"}
SharedWith(t, i) == {j \in DOMAIN Rows(t) : binlog[t].event[j] = binlog[t].event[i]}
Id(t, i) ==
  CASE binlog[t].form = "txn" ->
         SourceID(Inside(t - 1, 1 + binlog[t].event[i]), i - Min(SharedWith(t, i)), 0)
    [] binlog[t].form = "packed" ->
         SourceID(Inside(t - 1, 1), Cardinality(EmittedBefore(t, i)), 1)
    [] binlog[t].form = "ddl" -> SourceID(Boundary(t), 0, 2)

IsChange(t, i) ==
  t \in 1 .. committed /\ i \in DOMAIN Rows(t) /\ Rows(t)[i] # "filtered"
Names(id, c) == IsChange(c[1], c[2]) /\ id = Id(c[1], c[2])

EventsAreChanges ==
  \A e \in Queue : Names(e.id, e.change) /\ Rows(e.change[1])[e.change[2]] = e.kind

MessagesAreChanges ==
  /\ \A k \in 1 .. Len(stream) : Names(stream[k].id, stream[k].change)
  /\ \A x \in remembered : \E k \in 1 .. Len(stream) : stream[k].id = x

\* No more is acked than was emitted and no longer waits.
WaitingIsCounted ==
  IsFiniteSet(Waiting) /\ acked + Cardinality(Waiting) <= Emitted

\* The publisher works in log order.
QueueInOrder ==
  /\ cur = NoEvent \/ IsPublishable(cur)
  /\ pub = "wait" => cur # NoEvent
  /\ pub \in {"await", "exited"} => cur = NoEvent
  /\ pub = "exited" => chan = <<>>
  /\ \A j, k \in 1 .. Len(chan) :
       j < k /\ IsPublishable(chan[j]) /\ IsPublishable(chan[k])
         => Precedes(chan[j].change, chan[k].change)
  /\ \A k \in 1 .. Len(chan) :
       cur # NoEvent /\ IsPublishable(chan[k]) => Precedes(cur.change, chan[k].change)

ProcessIsDown ==
  /\ chan = <<>> /\ cur = NoEvent /\ pub = "await" /\ ~ctxDone
  /\ sess = NoSession /\ ~handing /\ gate = newCommitGate /\ acked = 0

SessionIsSound ==
  /\ proc = "down" => ProcessIsDown
  /\ ~sess.up => sess = NoSession /\ ~handing
  /\ sess.sent <= committed
  /\ sess.up => currentFile = Boundary(sess.sent).file
  /\ sess.up => \A c \in Waiting : Precedes(c, <<sess.sent + 1, NextRow>>)
  /\ sess.at # 0 =>
       /\ sess.sent < committed /\ sess.at <= Len(Entry.rows) + 1 /\ Entry.form # "rotate"
       /\ txn = Inside(sess.sent, 1)
       /\ Entry.form = "packed" => txnRows = Cardinality(EmittedBefore(sess.sent + 1, NextRow))
  /\ handing => sess.at # 0 /\ sess.at <= Len(Entry.rows) /\ Entry.rows[sess.at] # "filtered"

\* Every change the session has passed is accounted for.
StreamedIsAccounted ==
  sess.up =>
    /\ \A t \in 1 .. sess.sent : \A i \in DOMAIN Rows(t) :
         Contract!Owed(t, i) => Accounted(t, i, Emitted)
    /\ \A i \in 1 .. NextRow - 1 :
         Contract!Owed(sess.sent + 1, i) => Accounted(sess.sent + 1, i, Emitted)

\* The starts of entries that have everything before them committed, and how
\* far the stream has everything it is owed.
Boundaries == {Boundary(t) : t \in 0 .. committed}
Settled == {t \in 0 .. MaxEntries : Contract!DeliveredUpTo(t)}

\* n tells the events up to entry t from those after it: n acks mean that the
\* former are stored.
Divides(n, t) ==
  /\ (\E c \in Waiting : c[1] <= t) => Cardinality(WaitingAfter(t)) = Emitted - n
  /\ \A u \in 1 .. t : \A i \in DOMAIN Rows(u) : Contract!Owed(u, i) => Accounted(u, i, n)

\* The entries of the gate are boundaries, and their counts tell which events
\* wait behind them.
Marks ==
  {<<gate.commits[k].lastHanded, Rank(gate.commits[k].pos)>> : k \in 1 .. Len(gate.commits)}

CommitsAreAccounted ==
  /\ \A k \in 1 .. Len(gate.commits) : gate.commits[k].pos \in Boundaries
  /\ \A m \in Marks :
       m[1] <= gate.handed /\ (sess.up => m[2] <= sess.sent) /\ Divides(m[1], m[2])

CommitsInOrder ==
  \A j, k \in 1 .. Len(gate.commits) : j < k =>
    /\ gate.commits[j].lastHanded < gate.commits[k].lastHanded
    /\ Rank(gate.commits[j].pos) <= Rank(gate.commits[k].pos)

\* The offset file, the gate's position, its entries and the session follow one
\* another, and the first two have only delivered entries before them.
PositionsAreDelivered ==
  /\ \A p \in {offsetFile, gate.confirmable} :
       p \in Boundaries \cup {NoPosition} /\ Rank(p) \in Settled
  /\ gate.confirmable # NoPosition => Rank(offsetFile) <= Rank(gate.confirmable)
  /\ \A m \in Marks : Rank(offsetFile) <= m[2] /\ Rank(gate.confirmable) <= m[2]
  /\ sess.up => Rank(offsetFile) <= sess.sent /\ Rank(gate.confirmable) <= sess.sent

\* Nothing overtakes an owed change on its way to the stream.
QueueHasNoGaps ==
  \A c \in Waiting : \A t \in 1 .. c[1] : \A i \in DOMAIN Rows(t) :
    Precedes(<<t, i>>, c) /\ Contract!Owed(t, i)
      => <<t, i>> \in Stored \/ <<t, i>> \in Waiting \/ Halted

\* A start without an offset file skips everything before it.
SkippedIsPrefix ==
  \E n \in 0 .. committed : skipped = 1 .. n

\* The inductive invariant: every committed change from where the session
\* started is stored, waits, or was dropped by a publisher that ended, and the
\* gate's counts tell which (emit, commitGate, saveConfirmedOffset).
IInv ==
  /\ WaitingIsCounted /\ QueueInOrder
  /\ EventsAreChanges /\ MessagesAreChanges
  /\ SessionIsSound
  /\ StreamedIsAccounted
  /\ CommitsAreAccounted /\ CommitsInOrder
  /\ PositionsAreDelivered
  /\ QueueHasNoGaps
  /\ SkippedIsPrefix
=============================================================================
