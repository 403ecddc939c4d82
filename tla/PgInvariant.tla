---------------------------- MODULE PgInvariant ----------------------------
(***************************************************************************)
(* The inductive invariant of PgPipeline.  ConfirmedIsDelivered speaks of  *)
(* the slot, but what keeps it true is an account of every change between  *)
(* the walsender and the stream: a change the session has passed is        *)
(* stored, or waits with the publisher under a sequence number that is not *)
(* acked yet, or was dropped by a publisher that will never ack again.     *)
(***************************************************************************)
EXTENDS PgPipeline

InFlight(t, i, s) == \E e \in Queue : e.change = <<t, i>> /\ e.seq <= s

\* Once s is acked, the change is stored.
Accounted(t, i, s) ==
  \/ <<t, i>> \in Stored
  \/ InFlight(t, i, s)
  \/ Halted /\ acked < s

\* The index emit numbers the i-th change of transaction t with: the changes
\* before it that passed the filter.
EmittedBefore(t, i) == {j \in 1 .. i - 1 : wal[t][j] # "filtered"}
SourceId(t, i) == <<t, Cardinality(EmittedBefore(t, i))>>

IsChange(t, i) == t \in 1 .. committed /\ i \in DOMAIN wal[t]

\* Acks follow hand-off order.
AcksInOrder ==
  /\ acked <= gate.handed
  /\ cur = NoEvent \/ IsPublishable(cur)
  /\ pub = "wait" => cur # NoEvent
  /\ pub \in {"await", "exited"} => cur = NoEvent
  /\ pub = "exited" => chan = <<>>
  /\ \A e \in Queue : acked < e.seq /\ e.seq <= gate.handed
  /\ \A j, k \in 1 .. Len(chan) :
       j < k /\ IsPublishable(chan[j]) /\ IsPublishable(chan[k])
         => chan[j].seq < chan[k].seq
  /\ \A k \in 1 .. Len(chan) :
       cur # NoEvent /\ IsPublishable(chan[k]) => cur.seq < chan[k].seq

\* Events and messages are the changes their ids name, in every session.
Names(id, c) ==
  /\ IsChange(c[1], c[2]) /\ wal[c[1]][c[2]] # "filtered"
  /\ id = SourceId(c[1], c[2])

EventsAreChanges ==
  \A e \in Queue : Names(e.id, e.change) /\ wal[e.change[1]][e.change[2]] = e.kind

MessagesAreChanges ==
  /\ \A k \in 1 .. Len(stream) : Names(stream[k].id, stream[k].change)
  /\ \A x \in remembered : \E k \in 1 .. Len(stream) : stream[k].id = x

SessionIsSound ==
  /\ sess.sent <= committed
  /\ ~sess.up => sess = NoSession
  /\ sess.up => proc = "up"
  /\ proc = "down" => ~ctxDone /\ pub = "await"
  /\ sess.at # 0 =>
       /\ gate.inTxn
       /\ sess.sent < committed /\ sess.at <= Len(Txn) + 1
       /\ txnIndex = Cardinality(EmittedBefore(sess.sent + 1, sess.at))

\* Every change the session has passed is accounted for.
StreamedIsAccounted ==
  sess.up =>
    /\ \A t \in 1 .. sess.sent : \A i \in DOMAIN wal[t] :
         Contract!Owed(t, i) => Accounted(t, i, gate.handed)
    /\ \A i \in 1 .. sess.at - 1 :
         Contract!Owed(sess.sent + 1, i) => Accounted(sess.sent + 1, i, gate.handed)

CommitsAreAccounted ==
  \A k \in 1 .. Len(gate.commits) :
    /\ gate.commits[k].lastSequence <= gate.handed
    /\ gate.commits[k].end <= committed
    /\ \A t \in 1 .. gate.commits[k].end : \A i \in DOMAIN wal[t] :
         Contract!Owed(t, i) => Accounted(t, i, gate.commits[k].lastSequence)

PositionsAreDelivered ==
  /\ gate.confirmable <= committed /\ status <= committed
  /\ slot.confirmed <= committed
  /\ Contract!DeliveredUpTo(gate.confirmable)
  /\ Contract!DeliveredUpTo(status)
  /\ Contract!DeliveredUpTo(slot.confirmed)

\* Nothing overtakes an owed change on its way to the stream.
QueueHasNoGaps ==
  \A e \in Queue :
    \A t \in 1 .. e.change[1] : \A i \in DOMAIN wal[t] :
      (t < e.change[1] \/ i < e.change[2]) /\ Contract!Owed(t, i)
        => Accounted(t, i, e.seq - 1) \/ Halted

IInv ==
  /\ AcksInOrder
  /\ EventsAreChanges /\ MessagesAreChanges
  /\ SessionIsSound
  /\ StreamedIsAccounted
  /\ CommitsAreAccounted
  /\ PositionsAreDelivered
  /\ QueueHasNoGaps
=============================================================================
