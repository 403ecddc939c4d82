----------------------------- MODULE PgPipeline -----------------------------
(***************************************************************************)
(* The Postgres half of the watcher from the replication slot to the       *)
(* stream: the listener (internal/postgres/listener.go) receives the       *)
(* walsender's messages in order, numbers the changes with its ack gate,   *)
(* hands them to the bus and reports the gate's position to the primary;   *)
(* the publisher (module Publisher) stores them and acks the gate.  The    *)
(* process may crash or be stopped and start again, the replication        *)
(* connection may drop, a status update may be lost, and the slot may be   *)
(* invalidated or dropped.                                                 *)
(*                                                                         *)
(* The database is external.  `wal' is what it will ever commit, in commit *)
(* order, and `committed' how much of that is in the log; a position is    *)
(* the rank of an LSN (see AckGate), so the commit of the t-th transaction *)
(* ends at position t and MaxLsn bounds the transactions of a behaviour.   *)
(***************************************************************************)
EXTENDS AckGate, Publisher, FiniteSets

CONSTANTS
  TxnShapes,   \* the transactions clients may run: sequences of change kinds
  MaxCrashes,  \* bound on process exits and crashes
  MaxDrops,    \* bound on dropped replication connections
  MaxLosses,   \* bound on slot invalidations and foreign drops
  MaxExpiries  \* bound on ids leaving JetStream's duplicate window

\* Kinds of changes: those of Publisher, and two that never reach it: a change
\* the table filter hides, and one whose row image is not valid JSON, which
\* HandleEvent refuses.
ChangeKind == (DOMAIN Fitting \ {"marker"}) \cup {"filtered", "bad"}
Deliverable == {"row", "large", "wide"}

ASSUME PgAssumption ==
  /\ TxnShapes \subseteq Seq(ChangeKind)
  /\ {MaxCrashes, MaxDrops, MaxLosses, MaxExpiries} \subseteq Nat

VARIABLES
  wal, committed,     \* the database's log
  slot,               \* the replication slot: its state and confirmed_flush_lsn
  status,             \* a status update the primary has not processed, 0 if none
  sess,               \* the replication session and how far it has streamed
  proc,               \* whether the process runs
  gate, acked,        \* the listener's ack gate
  txnIndex,           \* publishable changes emitted in the open transaction
  lastFlushSent,      \* position of the session's last status
  caughtUp,           \* the lag tracker's flag
  recreated,          \* cdc_slots_recreated_total, summed over the processes
  skipped,            \* transactions left out by slots created after them
  used                \* how often each bounded event happened

dbVars == <<wal, committed>>
gateVars == <<gate, acked, txnIndex, lastFlushSent, caughtUp>>
vars == <<chan, cur, pub, nats, failed, ctxDone, stream, remembered,
          wal, committed, slot, status, sess, proc, gate, acked, txnIndex,
          lastFlushSent, caughtUp, recreated, skipped, used>>

NoSession == [up |-> FALSE, sent |-> 0, at |-> 0]

TypeOK ==
  /\ PubTypeOK
  /\ wal \in [1 .. MaxLsn -> TxnShapes] /\ committed \in Lsn
  /\ slot \in [state : {"none", "ok", "lost"}, confirmed : Lsn]
  /\ status \in Lsn
  /\ sess \in [up : BOOLEAN, sent : Lsn, at : Nat]
  /\ proc \in {"up", "down"}
  /\ gate \in Gate /\ acked \in Nat /\ txnIndex \in Nat
  /\ lastFlushSent \in Lsn /\ caughtUp \in BOOLEAN
  /\ recreated \in Nat /\ skipped \in SUBSET (1 .. MaxLsn)
  /\ used \in [crashes : 0 .. MaxCrashes, drops : 0 .. MaxDrops,
               losses : 0 .. MaxLosses, expiries : 0 .. MaxExpiries]

Init ==
  /\ PubInit
  /\ wal \in [1 .. MaxLsn -> TxnShapes] /\ committed = 0
  /\ slot = [state |-> "none", confirmed |-> 0] /\ status = 0
  /\ sess = NoSession /\ proc = "down"
  /\ gate = newAckGate /\ acked = 0 /\ txnIndex = 0
  /\ lastFlushSent = 0 /\ caughtUp = FALSE
  /\ recreated = 0 /\ skipped = {}
  /\ used = [crashes |-> 0, drops |-> 0, losses |-> 0, expiries |-> 0]

Use(what) == used' = [used EXCEPT ![what] = @ + 1]

(***************************************************************************)
(* The database.                                                           *)
(***************************************************************************)
DbCommit ==
  /\ committed < MaxLsn
  /\ committed' = committed + 1
  /\ UNCHANGED <<pubVars, wal, slot, status, sess, proc, gateVars, recreated, skipped, used>>

\* The primary processes a status update: the slot never moves backwards and
\* zero is no progress.  The walsender may still read what a dead process sent.
SlotAdvances ==
  /\ status # 0 /\ slot.state # "none"
  /\ slot' = [slot EXCEPT !.confirmed = Max({@, status})]
  /\ status' = 0
  /\ UNCHANGED <<pubVars, dbVars, sess, proc, gateVars, recreated, skipped, used>>

\* The slot exceeds max_slot_wal_keep_size, which ends its session, or it is
\* dropped by someone else while no session uses it.
SlotLost ==
  /\ used.losses < MaxLosses /\ Use("losses")
  /\ slot.state = "ok"
  /\ \/ slot' = [slot EXCEPT !.state = "lost"]
     \/ ~sess.up /\ slot' = [slot EXCEPT !.state = "none"]
  /\ sess' = NoSession /\ status' = 0
  /\ UNCHANGED <<pubVars, dbVars, proc, gateVars, recreated, skipped>>

\* A slot is created at the end of the log.
CreateSlot ==
  /\ slot' = [state |-> "ok", confirmed |-> committed]
  /\ skipped' = skipped \cup ((slot.confirmed + 1) .. committed)

(***************************************************************************)
(* The process.  Everything it holds in memory is gone when it ends, be it *)
(* by a crash, by a signal or because the publisher failed; Stop sends no  *)
(* last status.                                                            *)
(***************************************************************************)
StartProcess ==
  /\ proc = "down" /\ proc' = "up"
  /\ IF slot.state = "none" THEN CreateSlot ELSE UNCHANGED <<slot, skipped>>
  /\ UNCHANGED <<pubVars, dbVars, status, sess, gateVars, recreated, used>>

EndProcess ==
  /\ proc = "up" /\ proc' = "down"
  /\ used.crashes < MaxCrashes /\ Use("crashes")
  /\ PubEnds
  /\ sess' = NoSession
  /\ gate' = newAckGate /\ acked' = 0 /\ txnIndex' = 0
  /\ lastFlushSent' = 0 /\ caughtUp' = FALSE
  /\ UNCHANGED <<dbVars, slot, status, recreated, skipped>>

(***************************************************************************)
(* The listener's goroutine: listenLoop and connectAndStream.              *)
(***************************************************************************)
Listening == proc = "up" /\ ~ctxDone

\* START_REPLICATION from the slot's own position; a status still on the old
\* connection is lost with it.
StartStreaming ==
  /\ Listening /\ ~sess.up /\ slot.state = "ok"
  /\ sess' = [up |-> TRUE, sent |-> slot.confirmed, at |-> 0]
  /\ status' = 0
  /\ gate' = NewSession(gate)
  /\ lastFlushSent' = 0
  /\ UNCHANGED <<pubVars, dbVars, slot, proc, acked, txnIndex, caughtUp, recreated, skipped, used>>

\* recreateUnusableSlot: an invalidated slot is dropped, a missing one created.
\* The two calls to the server are separate steps; a crash may come between.
RecreateDrop ==
  /\ Listening /\ ~sess.up /\ slot.state = "lost"
  /\ slot' = [slot EXCEPT !.state = "none"]
  /\ UNCHANGED <<pubVars, dbVars, status, sess, proc, gateVars, recreated, skipped, used>>

RecreateCreate ==
  /\ Listening /\ ~sess.up /\ slot.state = "none"
  /\ CreateSlot
  /\ recreated' = recreated + 1
  /\ UNCHANGED <<pubVars, dbVars, status, sess, proc, gateVars, used>>

\* The connection drops, or any receive or send on it fails.
DropConnection ==
  /\ sess.up
  /\ used.drops < MaxDrops /\ Use("drops")
  /\ sess' = NoSession
  /\ UNCHANGED <<pubVars, dbVars, slot, status, proc, gateVars, recreated, skipped>>

sendStatus(g) ==
  /\ gate' = settle(g, acked)
  /\ status' = Flush(g, acked)
  /\ lastFlushSent' = Flush(g, acked)

\* maintainHeartbeatAndStatus after a change: the status interval has elapsed
\* or not.  A heartbeat can only follow a change that blocked on the bus for
\* the heartbeat interval; it is left to Keepalive.
Maintain(g) ==
  \/ gate' = g /\ UNCHANGED <<status, lastFlushSent>>
  \/ sendStatus(g)

Marker == NoEvent

\* A message in hand when the context is cancelled is still handled, which may
\* send a status; the model does not count how many.
Streaming == proc = "up" /\ sess.up

\* The transaction being streamed, and the next message being a change of it.
Txn == wal[sess.sent + 1]
AtChange == Streaming /\ sess.at # 0 /\ sess.at <= Len(Txn)

\* Wrong: a new transaction, or an old one streamed again, goes on numbering
\* where the last one stopped.
ReceiveBeginKeepsIndex ==
  /\ Streaming /\ sess.at = 0 /\ sess.sent < committed
  /\ sess' = [sess EXCEPT !.at = 1]
  /\ Maintain(Begin(gate))
  /\ HandleEvent(Marker)
  /\ UNCHANGED <<dbVars, slot, proc, acked, txnIndex, caughtUp, recreated, skipped, used,
                 cur, pub, nats, failed, ctxDone, stream, remembered>>

ReceiveBegin ==
  /\ Streaming /\ sess.at = 0 /\ sess.sent < committed
  /\ sess' = [sess EXCEPT !.at = 1]
  /\ txnIndex' = 0
  /\ Maintain(Begin(gate))
  /\ HandleEvent(Marker)
  /\ UNCHANGED <<dbVars, slot, proc, acked, caughtUp, recreated, skipped, used,
                 cur, pub, nats, failed, ctxDone, stream, remembered>>

\* Wrong: the message id is made from the hand-off number.
ChangeEventBySequence(g) ==
  [seq |-> g.handed, id |-> <<sess.sent + 1, g.handed>>,
   change |-> <<sess.sent + 1, sess.at>>, kind |-> Txn[sess.at], form |-> "full"]

\* The event emit makes of the change at hand.
ChangeEvent(g) ==
  [seq |-> g.handed, id |-> <<sess.sent + 1, txnIndex>>,
   change |-> <<sess.sent + 1, sess.at>>, kind |-> Txn[sess.at], form |-> "full"]

\* A change the parser's filter hides: no event.
ReceiveFiltered ==
  /\ AtChange
  /\ Txn[sess.at] = "filtered"
  /\ sess' = [sess EXCEPT !.at = @ + 1]
  /\ Maintain(gate)
  /\ UNCHANGED <<pubVars, dbVars, slot, proc, acked, txnIndex, caughtUp, recreated, skipped, used>>

\* A change HandleEvent refuses: the hand-off is taken back.
ReceiveRefused ==
  /\ AtChange
  /\ Txn[sess.at] = "bad"
  /\ sess' = [sess EXCEPT !.at = @ + 1]
  /\ txnIndex' = txnIndex + 1
  /\ Maintain(Unhand(Hand(gate)))
  /\ UNCHANGED <<pubVars, dbVars, slot, proc, acked, caughtUp, recreated, skipped, used>>

ReceiveChange ==
  /\ AtChange
  /\ Txn[sess.at] \notin {"filtered", "bad"}
  /\ sess' = [sess EXCEPT !.at = @ + 1]
  /\ txnIndex' = txnIndex + 1
  /\ Maintain(Hand(gate))
  /\ HandleEvent(ChangeEvent(Hand(gate)))
  /\ UNCHANGED <<dbVars, slot, proc, acked, caughtUp, recreated, skipped, used,
                 cur, pub, nats, failed, ctxDone, stream, remembered>>

\* Wrong: the lag tracker still says caught up after a commit.
ReceiveCommitKeepsLag ==
  /\ Streaming /\ sess.at # 0 /\ sess.at = Len(Txn) + 1
  /\ sess' = [sess EXCEPT !.sent = @ + 1, !.at = 0]
  /\ Maintain(Committed(gate, sess.sent + 1))
  /\ HandleEvent(Marker)
  /\ UNCHANGED <<dbVars, slot, proc, acked, txnIndex, caughtUp, recreated, skipped, used,
                 cur, pub, nats, failed, ctxDone, stream, remembered>>

ReceiveCommit ==
  /\ Streaming /\ sess.at # 0 /\ sess.at = Len(Txn) + 1
  /\ sess' = [sess EXCEPT !.sent = @ + 1, !.at = 0]
  /\ caughtUp' = FALSE
  /\ Maintain(Committed(gate, sess.sent + 1))
  /\ HandleEvent(Marker)
  /\ UNCHANGED <<dbVars, slot, proc, acked, txnIndex, recreated, skipped, used,
                 cur, pub, nats, failed, ctxDone, stream, remembered>>

\* handleKeepalive, then maintainHeartbeatAndStatus.  The walsender reports a
\* position up to which it has streamed everything; inside a transaction it
\* may be the end of that transaction's commit.  A status is sent when the
\* primary asks for it or one is due (`report'), or when the position moved.
Keepalive(position, report, heartbeat) ==
  /\ Streaming
  /\ caughtUp' = (caughtUp \/ ~Pending(gate, acked))
  /\ LET g == Idle(gate, acked, position)
     IN  IF report \/ heartbeat \/ Flush(g, acked) # lastFlushSent
         THEN sendStatus(g)
         ELSE gate' = g /\ UNCHANGED <<status, lastFlushSent>>
  /\ IF heartbeat THEN HandleEvent(Marker) ELSE UNCHANGED chan
  /\ UNCHANGED <<dbVars, slot, sess, proc, acked, txnIndex, recreated, skipped, used,
                 cur, pub, nats, failed, ctxDone, stream, remembered>>

KeepalivePositions == {sess.sent, IF sess.at = 0 THEN sess.sent ELSE sess.sent + 1}

(***************************************************************************)
(* The publisher, with the gate's observer.                                *)
(***************************************************************************)
listenerVars == <<dbVars, slot, status, sess, proc, gate, txnIndex, lastFlushSent,
                  caughtUp, recreated, skipped>>

PublishAndObserve ==
  /\ proc = "up" /\ PublishAcked
  /\ acked' = ObservePublished(acked, cur.seq)
  /\ UNCHANGED <<listenerVars, used>>

\* A missing stream ends the process, which the bound must allow.
PublisherRuns ==
  /\ proc = "up" /\ PublisherStep
  /\ failed' => failed \/ used.crashes < MaxCrashes
  /\ UNCHANGED <<listenerVars, acked, used>>

NatsChanges ==
  /\ proc = "up"
  /\ \/ NatsConnect \/ NatsDisconnect
     \/ used.crashes < MaxCrashes /\ NatsClosed
  /\ UNCHANGED <<listenerVars, acked, used>>

Shutdown ==
  /\ proc = "up" /\ used.crashes < MaxCrashes /\ CancelContext
  /\ UNCHANGED <<listenerVars, acked, used>>

WindowMoves ==
  /\ used.expiries < MaxExpiries /\ Use("expiries")
  /\ \E id \in remembered : WindowExpires(id)
  /\ UNCHANGED <<listenerVars, acked>>

ReceiveKeepalive ==
  \E position \in KeepalivePositions, report, heartbeat \in BOOLEAN :
    Keepalive(position, report, heartbeat)

ReceiveXLogData ==
  ReceiveBegin \/ ReceiveFiltered \/ ReceiveRefused \/ ReceiveChange \/ ReceiveCommit

Next ==
  \/ DbCommit \/ SlotAdvances \/ SlotLost
  \/ StartProcess \/ EndProcess \/ Shutdown
  \/ StartStreaming \/ RecreateDrop \/ RecreateCreate \/ DropConnection
  \/ ReceiveXLogData \/ ReceiveKeepalive
  \/ PublishAndObserve \/ PublisherRuns \/ NatsChanges \/ WindowMoves

Spec == Init /\ [][Next]_vars

(***************************************************************************)
(* Fairness.  The database sends what it has and keepalives when idle, the *)
(* client library reconnects and the broker sooner or later acks (strong:  *)
(* attempts may keep failing in between), main ends the process once its   *)
(* context is cancelled or the publisher failed.  Nothing makes the        *)
(* environment fail, and nothing makes a second change be committed.       *)
(***************************************************************************)
MainReturns == (ctxDone \/ failed) /\ EndProcess

Fairness ==
  /\ WF_vars(StartProcess \/ StartStreaming \/ RecreateDrop \/ RecreateCreate \/ MainReturns)
  /\ SF_vars(ReceiveXLogData) /\ SF_vars(ReceiveKeepalive) /\ WF_vars(SlotAdvances)
  /\ WF_vars(NatsChanges /\ NatsConnect)
  /\ SF_vars(PublisherRuns /\ (AwaitStream \/ AwaitFatal \/ WaitOver))
  /\ WF_vars(PublisherRuns /\ Take)
  /\ SF_vars(PublishAndObserve \/ (PublisherRuns /\ PublishTooLarge))

FairSpec == Spec /\ Fairness

-----------------------------------------------------------------------------
(***************************************************************************)
(* What the pipeline promises.                                             *)
(***************************************************************************)
Contract == INSTANCE DeliveryContract
              WITH MaxTxns <- MaxLsn, position <- slot.confirmed, delivered <- Stored

\* The slot's confirmed_flush_lsn never passes a transaction that has a
\* deliverable change JetStream does not store, unless a new slot skipped it
\* (ackGate, sendStatus): a restart then re-streams everything still missing.
ConfirmedIsDelivered == Contract!DeliveredUpTo(slot.confirmed)

\* The stream has no gaps: when a message is stored, every deliverable change
\* committed before it is stored already (publishLoop order, retries that
\* never skip, re-streaming from the start of a transaction).
StreamHasNoGaps ==
  \A k \in 1 .. Len(stream) :
    LET c == stream[k].change
    IN  \A t \in 1 .. c[1] : \A i \in DOMAIN wal[t] :
          (t < c[1] \/ i < c[2]) /\ Contract!Owed(t, i)
            => \E j \in 1 .. k - 1 : stream[j].change = <<t, i>>

\* A message id (SourceID: transaction and index, numbered by emit) names one
\* change in every session and process, so the duplicate window only ever
\* drops a repeat of the same change.
IdNamesOneChange ==
  \A j, k \in 1 .. Len(stream) :
    (stream[j].id = stream[k].id) <=> (stream[j].change = stream[k].change)

\* While no id leaves the duplicate window, retries, reconnections and
\* restarts leave every change in the stream at most once.
StoredOnce ==
  used.expiries = 0 =>
    \A j, k \in 1 .. Len(stream) : stream[j].change = stream[k].change => j = k

\* A lag of zero is honest: when the lag tracker says caught up, every change
\* of every transaction committed in the running session is stored.
CaughtUpIsDelivered ==
  caughtUp /\ sess.up => Contract!DeliveredUpTo(sess.sent)

\* A stalled publisher holds at most one pending commit per handed event:
\* entries wait on different events, in order, and on events handed already.
OneEntryPerEvent ==
  /\ \A j, k \in 1 .. Len(gate.commits) :
       j < k => gate.commits[j].lastSequence < gate.commits[k].lastSequence
  /\ \A k \in 1 .. Len(gate.commits) : gate.commits[k].lastSequence <= gate.handed

\* Within a process the position the gate offers never moves backwards, over
\* reconnections and re-streamed transactions too.
FlushNeverRetreats ==
  [][proc = "up" /\ proc' = "up" => gate'.confirmable >= gate.confirmable]_vars

\* The pipeline implements the contract it shares with MySQL's.
ImplementsContract == Contract!Spec

\* Whatever is committed is delivered in the end, through outages, crashes and
\* slot losses.
EventuallyDelivered ==
  \A t \in 1 .. MaxLsn : committed >= t ~> Contract!DeliveredUpTo(t)

\* The slot catches up with the log, so the primary can release its WAL.
SlotCatchesUp ==
  \A t \in 1 .. MaxLsn : committed >= t ~> slot.confirmed >= t

(***************************************************************************)
(* Two statements of the repository that the code does not keep.           *)
(***************************************************************************)
\* README, "Ack ordering": confirmed_flush_lsn only advances past an event
\* once JetStream has acknowledged it.  An event HandleEvent refuses, or one
\* too large in every form, is passed without an ack.
AdvancesPastAckedOnly ==
  \A t \in 1 .. slot.confirmed : \A i \in DOMAIN wal[t] :
    t \notin skipped /\ wal[t][i] # "filtered" => <<t, i>> \in Stored

\* metrics.go and recreateUnusableSlot: the counter makes every gap left by a
\* lost slot visible.  Start creates a missing slot without counting it.
GapIsCounted ==
  [][used.losses > 0 /\ skipped' # skipped => recreated' = recreated + 1]_vars

=============================================================================
