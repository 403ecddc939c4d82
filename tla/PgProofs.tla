------------------------------ MODULE PgProofs ------------------------------
(***************************************************************************)
(* Receiving a message keeps PgInvariant, so that it is inductive, and     *)
(* what follows from it: theorems about PgPipeline for every number of     *)
(* transactions and failures and every capacity of the bus.                *)
(***************************************************************************)
EXTENDS PgStepProofs

\* The prover of the leaves that name none, and its time limit.
USE ZenonT(40)

-----------------------------------------------------------------------------
(***************************************************************************)
(* Receiving a message.  `g' is the gate after the message, before a       *)
(* status is sent.                                                         *)
(***************************************************************************)
ReceiveFrame ==
  /\ UNCHANGED <<cur, pub, ctxDone, stream, remembered, wal, committed, slot, proc, acked, skipped>>
  /\ TypeOK /\ TypeOK' /\ IInv

EntriesOk(g) ==
  /\ g.confirmable <= committed
  /\ \A u \in 1 .. g.confirmable : \A i \in DOMAIN wal[u] :
       Contract!Owed(u, i)' => <<u, i>> \in Stored'
  /\ \A k \in 1 .. Len(g.commits) :
       /\ g.commits[k].lastSequence <= g.handed
       /\ g.commits[k].end <= committed
       /\ \A t \in 1 .. g.commits[k].end : \A i \in DOMAIN wal[t] : \A s \in Nat :
            Contract!Owed(t, i)' /\ s = g.commits[k].lastSequence => Accounted(t, i, s)'

\* The fields of a pending commit.
LEMMA EntryType ==
  ASSUME NEW g \in Gate, NEW k \in 1 .. Len(g.commits)
  PROVE  g.commits[k].lastSequence \in Nat /\ g.commits[k].end \in 0 .. MaxLsn
<1>1. g.commits \in Seq(PendingCommit)
  BY DEF Gate
<1>2. g.commits[k] \in PendingCommit
  BY SMTT(40), <1>1
<1> QED BY <1>2 DEF PendingCommit, Lsn

\* Numbers in the next state are naturals.
LEMMA QueueTypeNext ==
  ASSUME Typed'
  PROVE  acked' \in Nat /\ \A e \in Queue' : e.seq \in Nat
<1> TypeOK'
  BY DEF Typed
<1>1. chan' \in Seq(Event) /\ cur' \in Event /\ acked' \in Nat
  BY DEF TypeOK, PubTypeOK
<1>2. \A e \in Queue' : e \in Event
  BY SMTT(40), <1>1 DEF Queue
<1> QED BY <1>1, <1>2 DEF Event

\* Nothing that is acked is still in flight.
LEMMA AckedIsStored ==
  ASSUME Typed, AcksInOrder, NEW t, NEW i, NEW s \in Nat, s <= acked, Accounted(t, i, s)
  PROVE  <<t, i>> \in Stored
<1> TypeOK
  BY DEF Typed
<1>1. acked \in Nat /\ \A e \in Queue : e.seq \in Nat /\ acked < e.seq
  BY QueueType DEF TypeOK, AcksInOrder
<1> QED BY SMTT(40), <1>1 DEF Accounted, InFlight

\* Settling a gate whose entries are accounted for confirms only delivered
\* transactions: an entry is settled when its last event is acked.
LEMMA GateStep ==
  ASSUME ReceiveFrame, Keeps, AcksInOrder', NEW g \in Gate, GateMoves(g), EntriesOk(g)
  PROVE  CommitsAreAccounted' /\ PositionsAreDelivered'
<1> USE DEF ReceiveFrame, IInv
<1>1. PICK n \in 0 .. Len(g.commits) :
        /\ Len(gate'.commits) = Len(g.commits) - n
        /\ \A k \in 1 .. Len(gate'.commits) : gate'.commits[k] = g.commits[k + n]
  BY DEF GateMoves
<1>2. gate'.handed = g.handed /\ Len(g.commits) \in Nat /\ gate' \in Gate
  <2>1. g.commits \in Seq(PendingCommit)
    BY DEF Gate
  <2> QED BY SMTT(40), <2>1 DEF GateMoves
<1>3. CommitsAreAccounted'
  <2> SUFFICES ASSUME NEW k \in 1 .. Len(gate'.commits)
               PROVE  /\ gate'.commits[k].lastSequence <= gate'.handed
                      /\ gate'.commits[k].end <= committed
                      /\ \A t \in 1 .. gate'.commits[k].end : \A i \in DOMAIN wal[t] :
                           Contract!Owed(t, i)' => \A s \in Nat :
                             s = gate'.commits[k].lastSequence => Accounted(t, i, s)'
    <3>1. \A k \in 1 .. Len(gate'.commits) : gate'.commits[k].lastSequence \in Nat
      BY <1>2, EntryType
    <3> QED BY <3>1 DEF CommitsAreAccounted, Accounted, InFlight
  <2>1. k + n \in 1 .. Len(g.commits) /\ gate'.commits[k] = g.commits[k + n]
    BY SMTT(30), <1>1, <1>2
  <2> QED BY SMTT(60), <1>2, <2>1 DEF EntriesOk
<1>4. /\ gate'.confirmable <= committed
      /\ \A u \in 1 .. gate'.confirmable : \A i \in DOMAIN wal[u] :
           Contract!Owed(u, i)' => <<u, i>> \in Stored'
  <2>1. CASE gate'.confirmable = g.confirmable
    BY <2>1 DEF EntriesOk
  <2>2. ASSUME NEW k \in 1 .. Len(g.commits), g.commits[k].lastSequence <= acked,
               gate'.confirmable = g.commits[k].end
        PROVE  /\ gate'.confirmable <= committed
               /\ \A u \in 1 .. gate'.confirmable : \A i \in DOMAIN wal[u] :
                    Contract!Owed(u, i)' => <<u, i>> \in Stored'
    <3>1. gate'.confirmable <= committed
      BY <2>2 DEF EntriesOk
    <3>2. g.commits[k].lastSequence \in Nat
      BY EntryType
    <3>3. ASSUME NEW u \in 1 .. gate'.confirmable, NEW i \in DOMAIN wal[u], Contract!Owed(u, i)'
          PROVE  <<u, i>> \in Stored'
      <4>1. PICK s \in Nat : s = g.commits[k].lastSequence
        BY <3>2
      <4>2. Accounted(u, i, s)'
        BY <2>2, <3>3, <4>1 DEF EntriesOk
      <4>3. acked' \in Nat /\ \A e \in Queue' : e.seq \in Nat /\ acked' < e.seq
        BY QueueTypeNext DEF AcksInOrder, Typed
      <4> QED BY SMTT(40), <2>2, <4>1, <4>2, <4>3 DEF Accounted, InFlight
    <3> QED BY <3>1, <3>3
  <2> QED BY <2>1, <2>2 DEF GateMoves
<1>5. Contract!DeliveredUpTo(gate.confirmable)'
  BY <1>4 DEF Contract!DeliveredUpTo
<1>6. status' \in {status, gate'.confirmable}
  BY DEF GateMoves
<1>7. Contract!DeliveredUpTo(status)' /\ status' <= committed
  <2>1. CASE status' = status
    BY <2>1 DEF PositionsAreDelivered, Contract!DeliveredUpTo, Keeps
  <2>2. CASE status' = gate'.confirmable
    BY <2>2, <1>4 DEF Contract!DeliveredUpTo
  <2> QED BY <1>6, <2>1, <2>2
<1>8. Contract!DeliveredUpTo(slot.confirmed)'
  BY DEF PositionsAreDelivered, Contract!DeliveredUpTo, Keeps
<1>9. PositionsAreDelivered'
  BY <1>4, <1>5, <1>7, <1>8 DEF PositionsAreDelivered
<1> QED BY <1>3, <1>9

\* Handlers that add no entry keep the entries accounted for.
LEMMA EntriesKept ==
  ASSUME ReceiveFrame, Keeps, NEW g \in Gate, g.commits = gate.commits,
         g.confirmable = gate.confirmable, g.handed >= gate.handed
  PROVE  EntriesOk(g)
<1> USE DEF ReceiveFrame, IInv
<1>1. gate \in Gate /\ gate.handed \in Nat /\ g.handed \in Nat
  BY DEF TypeOK, Gate
<1>2. g.confirmable <= committed
  BY DEF PositionsAreDelivered
<1>3. \A u \in 1 .. g.confirmable : \A i \in DOMAIN wal[u] :
        Contract!Owed(u, i)' => <<u, i>> \in Stored'
  BY DEF PositionsAreDelivered, Contract!DeliveredUpTo, Keeps
<1>4. ASSUME NEW k \in 1 .. Len(g.commits)
      PROVE  g.commits[k].lastSequence <= g.handed /\ g.commits[k].end <= committed
  <2>1. g.commits[k].lastSequence <= gate.handed /\ g.commits[k].end <= committed
    BY DEF CommitsAreAccounted
  <2> HIDE DEF ReceiveFrame, IInv
  <2>2. g.commits[k].lastSequence \in Nat
    BY EntryType
  <2> QED BY SMTT(40), <1>1, <2>1, <2>2
<1>5. ASSUME NEW k \in 1 .. Len(g.commits), NEW t \in 1 .. g.commits[k].end,
             NEW i \in DOMAIN wal[t], NEW s \in Nat,
             Contract!Owed(t, i)', s = g.commits[k].lastSequence
      PROVE  Accounted(t, i, s)'
  BY <1>5 DEF CommitsAreAccounted, Keeps
<1> QED BY <1>2, <1>3, <1>4, <1>5 DEF EntriesOk

\* Appending to the buffer keeps the hand-off order.
LEMMA PushOrder ==
  ASSUME ReceiveFrame, NEW e \in Event, HandleEvent(e), gate'.handed >= gate.handed,
         IsPublishable(e) => gate.handed < e.seq /\ e.seq <= gate'.handed
  PROVE  AcksInOrder'
<1> USE DEF ReceiveFrame, IInv
<1> HIDE DEF IsPublishable
<1>0. /\ gate.handed \in Nat /\ gate'.handed \in Nat /\ acked \in Nat /\ e.seq \in Nat
      /\ chan \in Seq(Event) /\ cur \in Event
      /\ \A k \in 1 .. Len(chan) : chan[k] \in Event /\ chan[k].seq \in Nat
  <2>1. chan \in Seq(Event) /\ cur \in Event
    BY DEF TypeOK, PubTypeOK
  <2>2. \A k \in 1 .. Len(chan) : chan[k] \in Event
    <3> HIDE DEF ReceiveFrame, IInv
    <3> QED BY SMTT(40), <2>1
  <2> QED BY <2>1, <2>2 DEF TypeOK, Gate, Event
<1>1. CASE pub = "exited"
  <2>1. UNCHANGED chan
    BY <1>1 DEF HandleEvent
  <2>2. Queue' = Queue
    BY <2>1, QueueUnchanged
  <2>a. /\ acked <= gate.handed
        /\ \A x \in Queue : x.seq \in Nat /\ acked < x.seq /\ x.seq <= gate.handed
    BY QueueType DEF AcksInOrder, TypeOK
  <2>3. acked <= gate'.handed /\ \A x \in Queue : acked < x.seq /\ x.seq <= gate'.handed
    BY SMTT(40), <1>0, <2>a
  <2> QED BY <2>1, <2>2, <2>3 DEF AcksInOrder
<1>2. CASE pub # "exited"
  <2>1. chan' = Append(chan, e)
    BY <1>2 DEF HandleEvent
  <2>2. /\ Len(chan') = Len(chan) + 1 /\ chan'[Len(chan) + 1] = e /\ Len(chan) \in Nat
        /\ \A k \in 1 .. Len(chan) : chan'[k] = chan[k]
    BY SMTT(40), <1>0, <2>1
  <2>3. \A k \in 1 .. Len(chan') : k \in 1 .. Len(chan) \/ k = Len(chan) + 1
    BY SMTT(40), <2>2
  <2>4. \A x \in Queue' : x \in Queue \/ (x = e /\ IsPublishable(e))
    BY SMTT(40), <1>2, QueuePush DEF TypeOK
  <2>5. /\ acked <= gate.handed
        /\ \A x \in Queue : x.seq \in Nat /\ acked < x.seq /\ x.seq <= gate.handed
    BY QueueType DEF AcksInOrder, TypeOK
  <2>6. acked <= gate'.handed
    BY SMTT(40), <1>0, <2>5
  <2>7. \A x \in Queue' : acked < x.seq /\ x.seq <= gate'.handed
    BY SMTT(40), <1>0, <2>4, <2>5
  <2>8. ASSUME NEW k \in 1 .. Len(chan), IsPublishable(chan[k]), IsPublishable(e)
        PROVE  chan[k].seq < e.seq
    BY SMTT(60), <1>0, <2>5, <2>8, QueueMembers
  <2>9. ASSUME NEW j \in 1 .. Len(chan'), NEW k \in 1 .. Len(chan'), j < k,
               IsPublishable(chan'[j]), IsPublishable(chan'[k])
        PROVE  chan'[j].seq < chan'[k].seq
    <3>1. j \in 1 .. Len(chan)
      BY SMTT(40), <2>2, <2>9
    <3>2. CASE k \in 1 .. Len(chan)
      BY <2>2, <2>9, <3>1, <3>2 DEF AcksInOrder
    <3>3. CASE k = Len(chan) + 1
      BY <2>2, <2>8, <2>9, <3>1, <3>3
    <3> QED BY <2>3, <3>2, <3>3
  <2>10. ASSUME NEW k \in 1 .. Len(chan'), cur # NoEvent, IsPublishable(chan'[k])
         PROVE  cur.seq < chan'[k].seq
    <3>1. cur \in Queue
      BY <2>10, QueueMembers DEF AcksInOrder
    <3>2. CASE k \in 1 .. Len(chan)
      BY <2>2, <2>10, <3>2 DEF AcksInOrder
    <3>3. CASE k = Len(chan) + 1
      BY SMTT(40), <1>0, <2>2, <2>5, <2>10, <3>1, <3>3
    <3> QED BY <2>3, <3>2, <3>3
  <2> QED BY <1>2, <2>6, <2>7, <2>9, <2>10 DEF AcksInOrder
<1> QED BY <1>1, <1>2

\* A receive step that hands nothing keeps the order of acks.
LEMMA NoPushOrder ==
  ASSUME ReceiveFrame, chan' = chan, gate'.handed = gate.handed
  PROVE  AcksInOrder'
<1>1. Queue' = Queue
  BY QueueUnchanged DEF ReceiveFrame
<1> QED BY <1>1 DEF ReceiveFrame, IInv, AcksInOrder

\* A receive step that only adds to the queue keeps the account.
LEMMA QueueGrows ==
  ASSUME ReceiveFrame, Queue \subseteq Queue'
  PROVE  Carries /\ Keeps
<1>1. Carries
  BY DEF ReceiveFrame, Carries, Stored, Halted
<1> QED BY <1>1, CarriesKeeps DEF ReceiveFrame, Typed

\* A message that makes no event for the publisher: markers and heartbeats.
LEMMA NoEventPart ==
  ASSUME ReceiveFrame, gate'.handed = gate.handed, chan' = chan \/ HandleEvent(Marker)
  PROVE  /\ Keeps /\ AcksInOrder' /\ EventsAreChanges' /\ MessagesAreChanges'
         /\ QueueHasNoGaps'
<1> USE DEF ReceiveFrame, IInv
<1>0. committed' \in Lsn /\ committed' >= committed /\ gate.handed >= gate.handed
  <2>1. committed \in 0 .. MaxLsn /\ gate.handed \in Nat
    BY DEF TypeOK, Lsn, Gate
  <2> QED BY SMTT(40), <2>1, MaxLsnAssumption DEF Lsn
<1>1. Queue' = Queue /\ AcksInOrder'
  <2>1. CASE chan' = chan
    BY <2>1, QueueUnchanged, NoPushOrder
  <2>2. CASE HandleEvent(Marker)
    <3>1. Marker \in Event /\ ~IsPublishable(Marker)
      BY KindFacts DEF Marker
    <3>2. Queue' = Queue
      BY <2>2, <3>1, QueuePush DEF TypeOK
    <3>3. AcksInOrder'
      BY <1>0, <2>2, <3>1, PushOrder
    <3> QED BY <3>2, <3>3
  <2> QED BY <2>1, <2>2
<1>2. Keeps
  BY <1>1, QueueGrows
<1>3. Descends
  BY <1>1 DEF Descends
<1>4. EventsAreChanges'
  BY <1>0, <1>3, EventsKept DEF Typed
<1>5. MessagesAreChanges'
  BY <1>0, MessagesKept DEF Typed
<1>6. QueueHasNoGaps'
  BY <1>2, <1>3, GapsKept DEF Descends, Typed
<1> QED BY <1>1, <1>2, <1>4, <1>5, <1>6

(***************************************************************************)
(* The session's progress through a transaction.                           *)
(***************************************************************************)

\* The transaction the session is in is one the server has committed.
LEMMA SessFacts ==
  ASSUME ReceiveFrame, sess.at # 0
  PROVE  /\ sess.sent \in Nat /\ sess.at \in Nat \ {0} /\ sess.sent + 1 \in 1 .. MaxLsn
         /\ sess.sent + 1 <= committed
         /\ Txn \in Seq(ChangeKind) /\ Len(Txn) \in Nat /\ DOMAIN Txn = 1 .. Len(Txn)
         /\ \A i \in 1 .. Len(Txn) : Txn[i] \in ChangeKind
<1>1. /\ sess.sent \in 0 .. MaxLsn /\ sess.at \in Nat /\ committed \in 0 .. MaxLsn
      /\ sess.sent < committed
  BY DEF ReceiveFrame, IInv, SessionIsSound, TypeOK, Lsn
<1>2. sess.sent + 1 \in 1 .. MaxLsn /\ sess.sent + 1 <= committed
  BY SMTT(40), <1>1, MaxLsnAssumption
<1> QED BY SMTT(40), <1>1, <1>2, WalFacts DEF ReceiveFrame, Txn, Typed

\* One change further in the transaction.
LEMMA NextChangeSession ==
  ASSUME SetLaws, ReceiveFrame, AtChange, sess' = [sess EXCEPT !.at = sess.at + 1],
         gate'.inTxn = gate.inTxn,
         txnIndex' = IF Txn[sess.at] = "filtered" THEN txnIndex ELSE txnIndex + 1
  PROVE  SessionIsSound'
<1> USE DEF ReceiveFrame, IInv
<1>1. sess.up /\ sess.at # 0 /\ sess.at <= Len(Txn) /\ proc = "up"
  BY DEF AtChange, Streaming
<1>2. sess'.up = sess.up /\ sess'.sent = sess.sent /\ sess'.at = sess.at + 1
  BY DEF TypeOK
<1>3. sess.at \in Nat \ {0} /\ Len(Txn) \in Nat /\ sess.sent \in Nat
  BY <1>1, SessFacts
<1>4. Txn' = Txn
  BY <1>2 DEF Txn
<1>5. EmittedBefore(sess.sent + 1, sess.at)' = EmittedBefore(sess.sent + 1, sess.at + 1)
  BY <1>2 DEF EmittedBefore
<1>6. txnIndex = Cardinality(EmittedBefore(sess.sent + 1, sess.at))
  BY <1>1 DEF SessionIsSound
<1>7. txnIndex' = Cardinality(EmittedBefore(sess.sent + 1, sess.at + 1))
  BY <1>3, <1>6, EmittedNext DEF Txn
<1>8. sess'.at # 0 /\ sess'.at <= Len(Txn) + 1
  BY SMTT(40), <1>1, <1>2, <1>3
<1>9. gate'.inTxn /\ sess'.sent < committed /\ sess'.sent <= committed
  BY <1>1, <1>2 DEF SessionIsSound
<1>10. txnIndex' = Cardinality(EmittedBefore(sess.sent + 1, sess.at))'
  BY <1>5, <1>7
<1> QED BY <1>1, <1>2, <1>4, <1>8, <1>9, <1>10 DEF SessionIsSound

\* The session moves past one more change, which is accounted for.
LEMMA NextChangeStreamed ==
  ASSUME ReceiveFrame, Keeps, AtChange, sess' = [sess EXCEPT !.at = sess.at + 1],
         gate'.handed >= gate.handed,
         \A t, i : t = sess.sent + 1 /\ i = sess.at /\ Contract!Owed(t, i)'
                     => Accounted(t, i, gate.handed)'
  PROVE  StreamedIsAccounted'
<1> USE DEF ReceiveFrame, IInv
<1>1. sess.up /\ sess.at # 0
  BY DEF AtChange, Streaming
<1>2. sess'.up = sess.up /\ sess'.sent = sess.sent /\ sess'.at = sess.at + 1
  BY DEF TypeOK
<1>3. sess.at \in Nat \ {0} /\ sess.sent \in Nat
  BY <1>1, SessFacts
<1>4. gate.handed \in Nat /\ gate'.handed \in Nat
  BY DEF TypeOK, Gate
<1>5. ASSUME NEW t, NEW i, Contract!Owed(t, i)', Accounted(t, i, gate.handed)
      PROVE  Accounted(t, i, gate.handed)'
  <2>1. PICK s \in Nat : s = gate.handed
    BY <1>4
  <2>2. Accounted(t, i, s)'
    BY <1>5, <2>1 DEF Keeps
  <2>3. acked' \in Nat /\ \A e \in Queue' : e.seq \in Nat
    BY QueueTypeNext DEF Typed
  <2> QED BY SMTT(40), <1>4, <2>1, <2>2, <2>3 DEF Accounted, InFlight
<1>6. ASSUME NEW t \in 1 .. sess.sent, NEW i \in DOMAIN wal[t], Contract!Owed(t, i)'
      PROVE  Accounted(t, i, gate.handed)'
  <2>1. Contract!Owed(t, i)
    BY <1>6 DEF Keeps
  <2>2. Accounted(t, i, gate.handed)
    BY <1>1, <2>1 DEF StreamedIsAccounted
  <2> QED BY <1>5, <1>6, <2>2
<1>7. ASSUME NEW i \in 1 .. sess.at, NEW t, t = sess.sent + 1, Contract!Owed(t, i)'
      PROVE  Accounted(t, i, gate.handed)'
  <2>1. CASE i = sess.at
    BY <1>7, <2>1
  <2>2. CASE i # sess.at
    <3>1. i \in 1 .. sess.at - 1
      BY SMTT(40), <1>3, <2>2
    <3>2. Contract!Owed(t, i)
      BY <1>7 DEF Keeps
    <3>3. Accounted(t, i, gate.handed)
      BY <1>1, <1>7, <3>1, <3>2 DEF StreamedIsAccounted
    <3> QED BY <1>5, <1>7, <3>3
  <2> QED BY <2>1, <2>2
<1>8. (\A t \in 1 .. sess.sent : \A i \in DOMAIN wal[t] :
         Contract!Owed(t, i) => Accounted(t, i, gate.handed))'
  BY <1>2, <1>6
<1>9. (\A i \in 1 .. sess.at - 1 :
         Contract!Owed(sess.sent + 1, i) => Accounted(sess.sent + 1, i, gate.handed))'
  <2> SUFFICES ASSUME NEW i \in 1 .. sess'.at - 1, NEW t, t = sess'.sent + 1, Contract!Owed(t, i)'
               PROVE  Accounted(t, i, gate.handed)'
    BY DEF Contract!Owed, Accounted, InFlight
  <2>1. i \in 1 .. sess.at /\ t = sess.sent + 1
    BY SMTT(40), <1>2, <1>3
  <2> QED BY <1>7, <2>1
<1> QED BY <1>8, <1>9 DEF StreamedIsAccounted

-----------------------------------------------------------------------------
(***************************************************************************)
(* The receive actions.                                                    *)
(***************************************************************************)

\* A receive action has what the lemmas about it assume.
LEMMA FrameHolds ==
  ASSUME SetLaws, Typed, Typed', Sound, ReceiveXLogData \/ ReceiveKeepalive
  PROVE  ReceiveFrame
<1> TypeOK /\ TypeOK' /\ IInv
  BY DEF Typed, Sound
<1> QED BY ReceiveTypes DEF ReceiveFrame, IInv

\* BEGIN opens a transaction and restarts the numbering of its changes.
LEMMA BeginKeeps ==
  ASSUME SetLaws, Typed, Typed', Sound, ReceiveBegin
  PROVE  Sound'
<1> SUFFICES ASSUME TypeOK, TypeOK', IInv
             PROVE  IInv'
  BY DEF Typed, Sound
<1>0. ReceiveFrame
  BY FrameHolds DEF ReceiveXLogData
<1> USE DEF IInv
<1> DEFINE g == Begin(gate)
<1>1. gate \in Gate /\ acked \in Nat /\ gate.handed \in Nat
  BY DEF TypeOK, Gate
<1>2. /\ g \in Gate /\ g.inTxn = TRUE /\ g.handed = gate.handed
      /\ g.commits = gate.commits /\ g.confirmable = gate.confirmable
  BY <1>1, FieldFacts
<1>3. GateMoves(g)
  BY <1>1, <1>2, MaintainFacts DEF ReceiveBegin
<1> HIDE DEF g
<1>4. gate'.handed = gate.handed /\ gate'.inTxn
  BY <1>2, <1>3 DEF GateMoves
<1>5. /\ Keeps /\ AcksInOrder' /\ EventsAreChanges' /\ MessagesAreChanges' /\ QueueHasNoGaps'
  BY <1>0, <1>4, NoEventPart DEF ReceiveBegin
<1>6. EntriesOk(g)
  <2>1. g.handed >= gate.handed
    BY SMTT(40), <1>1, <1>2
  <2> QED BY <1>0, <1>2, <1>5, <2>1, EntriesKept
<1>7. CommitsAreAccounted' /\ PositionsAreDelivered'
  BY <1>0, <1>2, <1>3, <1>5, <1>6, GateStep
<1>8. /\ sess'.up = sess.up /\ sess.up /\ sess'.sent = sess.sent /\ sess'.at = 1
      /\ sess.at = 0 /\ sess.sent < committed
      /\ txnIndex' = 0 /\ proc = "up" /\ UNCHANGED <<wal, committed, proc>>
  <2>1. /\ Streaming /\ sess.at = 0 /\ sess.sent < committed /\ txnIndex' = 0
        /\ sess' = [sess EXCEPT !.at = 1]
    BY DEF ReceiveBegin
  <2>2. UNCHANGED <<wal, committed, proc>>
    BY <1>0 DEF ReceiveFrame
  <2> QED BY <2>1, <2>2 DEF Streaming, TypeOK
<1>a. sess.sent \in 0 .. MaxLsn /\ committed \in 0 .. MaxLsn
  BY DEF TypeOK, Lsn
<1>9. SessionIsSound'
  <2>1. EmittedBefore(sess.sent + 1, sess.at)' = {}
    BY SMTT(40), <1>8 DEF EmittedBefore
  <2>2. Cardinality({}) = 0
    BY CountEmpty
  <2>3. sess'.at <= Len(Txn') + 1
    <3>1. sess.sent + 1 \in 1 .. MaxLsn /\ Txn' = wal[sess.sent + 1]
      BY SMTT(40), <1>8, <1>a, MaxLsnAssumption DEF Txn
    <3>2. Len(Txn') \in Nat
      BY <3>1, WalFacts
    <3> QED BY SMTT(40), <1>8, <3>2
  <2> QED BY <1>4, <1>8, <2>1, <2>2, <2>3 DEF SessionIsSound
<1>10. StreamedIsAccounted'
  <2>1. \A i \in 1 .. sess'.at - 1 : FALSE
    BY SMTT(40), <1>8
  <2>2. \A t \in 1 .. sess.sent : \A i \in DOMAIN wal[t] : Contract!Owed(t, i)' =>
          Accounted(t, i, gate.handed)'
    <3>1. \A t \in 1 .. sess.sent : \A i \in DOMAIN wal[t] :
            Contract!Owed(t, i) => Accounted(t, i, gate.handed)
      BY <1>8 DEF StreamedIsAccounted
    <3> HIDE DEF IInv
    <3>2. Keeps
      BY <1>5
    <3> QED BY SMTT(40), <1>1, <1>4, <3>1, <3>2 DEF Keeps
  <2> QED BY <1>8, <2>1, <2>2 DEF StreamedIsAccounted
<1> QED BY <1>5, <1>7, <1>9, <1>10

\* A change that makes no event: filtered, or refused and taken back.
LEMMA SilentChangeKeeps ==
  ASSUME SetLaws, Typed, Typed', Sound, ReceiveFiltered \/ ReceiveRefused
  PROVE  Sound'
<1> SUFFICES ASSUME TypeOK, TypeOK', IInv
             PROVE  IInv'
  BY DEF Typed, Sound
<1>0. ReceiveFrame
  BY FrameHolds DEF ReceiveXLogData
<1> USE DEF IInv
<1>1. gate \in Gate /\ acked \in Nat /\ gate.handed \in Nat
  BY DEF TypeOK, Gate
<1>2. Maintain(gate) /\ AtChange /\ chan' = chan /\ Txn[sess.at] \in {"filtered", "bad"}
  BY <1>1, FieldFacts DEF ReceiveFiltered, ReceiveRefused, pubVars
<1>3. GateMoves(gate)
  BY <1>1, <1>2, MaintainFacts
<1>4. gate'.handed = gate.handed /\ gate'.inTxn = gate.inTxn
  BY <1>3 DEF GateMoves
<1>5. /\ Keeps /\ AcksInOrder' /\ EventsAreChanges' /\ MessagesAreChanges' /\ QueueHasNoGaps'
  BY <1>0, <1>2, <1>4, NoEventPart
<1>6. gate.handed >= gate.handed
  BY SMTT(40), <1>1
<1>7. EntriesOk(gate)
  BY <1>0, <1>1, <1>5, <1>6, EntriesKept
<1>8. CommitsAreAccounted' /\ PositionsAreDelivered'
  BY <1>0, <1>1, <1>3, <1>5, <1>7, GateStep
<1>9. sess' = [sess EXCEPT !.at = sess.at + 1]
  BY DEF ReceiveFiltered, ReceiveRefused
<1>10. txnIndex' = IF Txn[sess.at] = "filtered" THEN txnIndex ELSE txnIndex + 1
  BY DEF ReceiveFiltered, ReceiveRefused
<1>11. SessionIsSound'
  BY <1>0, <1>2, <1>4, <1>9, <1>10, NextChangeSession
<1>12. StreamedIsAccounted'
  <2>1. \A t, i : t = sess.sent + 1 /\ i = sess.at => ~Contract!Owed(t, i)
    BY <1>2 DEF Contract!Owed, Txn, Deliverable
  <2>2. \A t, i : t = sess.sent + 1 /\ i = sess.at => ~Contract!Owed(t, i)'
    BY <1>5, <2>1 DEF Keeps
  <2>3. gate'.handed >= gate.handed
    BY SMTT(40), <1>1, <1>4
  <2> QED BY <1>0, <1>2, <1>5, <1>9, <2>2, <2>3, NextChangeStreamed
<1> QED BY <1>5, <1>8, <1>11, <1>12

-----------------------------------------------------------------------------
(***************************************************************************)
(* The receive actions that publish, settle or confirm.                    *)
(***************************************************************************)

\* A change is handed: it waits in the queue under the highest number.
LEMMA ChangeKeeps ==
  ASSUME SetLaws, Typed, Typed', Sound, ReceiveChange
  PROVE  Sound'
<1> SUFFICES ASSUME TypeOK, TypeOK', IInv
             PROVE  IInv'
  BY DEF Typed, Sound
<1>0. ReceiveFrame
  BY FrameHolds DEF ReceiveXLogData
<1> USE DEF IInv
<1> DEFINE g == Hand(gate)
           e == ChangeEvent(g)
<1>1. gate \in Gate /\ acked \in Nat /\ gate.handed \in Nat /\ acked <= gate.handed
  BY DEF TypeOK, Gate, AcksInOrder
<1>2. /\ g \in Gate /\ g.inTxn = gate.inTxn /\ g.handed = gate.handed + 1
      /\ g.commits = gate.commits /\ g.confirmable = gate.confirmable
  BY <1>1, FieldFacts
<1>3. GateMoves(g)
  BY <1>1, <1>2, MaintainFacts DEF ReceiveChange
<1>4. AtChange /\ HandleEvent(e) /\ Txn[sess.at] \notin {"filtered", "bad"}
  BY DEF ReceiveChange
<1>5. sess.up /\ sess.at # 0 /\ sess.at <= Len(Txn)
  BY <1>4 DEF AtChange, Streaming
<1>6. /\ sess.sent \in Nat /\ sess.at \in Nat \ {0} /\ sess.sent + 1 \in 1 .. MaxLsn
      /\ sess.sent + 1 <= committed /\ Len(Txn) \in Nat /\ DOMAIN Txn = 1 .. Len(Txn)
      /\ Txn[sess.at] \in ChangeKind /\ txnIndex \in Nat
  <2>1. sess.at \in Nat \ {0} /\ Len(Txn) \in Nat
    BY <1>0, <1>5, SessFacts
  <2>2. sess.at \in 1 .. Len(Txn)
    BY SMTT(40), <1>5, <2>1
  <2> QED BY <1>0, <1>5, <2>2, SessFacts DEF TypeOK
<1>7. Txn[sess.at] \in DOMAIN Fitting \ {"marker"}
  BY <1>4, <1>6, KindFacts, ChangeKinds
<1>8. e \in Event /\ IsPublishable(e)
  <2> HIDE DEF IInv
  <2>1. g.handed \in Nat /\ sess.sent + 1 \in Nat
    BY SMTT(40), <1>1, <1>2, <1>6
  <2> QED BY <1>6, <1>7, <2>1 DEF ChangeEvent, Event, Form, IsPublishable
<1>9. /\ e.seq = gate.handed + 1 /\ e.id = <<sess.sent + 1, txnIndex>>
      /\ e.change = <<sess.sent + 1, sess.at>> /\ e.kind = Txn[sess.at]
  BY <1>2 DEF ChangeEvent
<1> HIDE DEF g, e
<1>10. gate'.handed = gate.handed + 1 /\ gate'.inTxn = gate.inTxn
  BY <1>2, <1>3 DEF GateMoves
<1>11. gate'.handed >= gate.handed /\ gate.handed < e.seq /\ e.seq <= gate'.handed
  BY SMTT(40), <1>1, <1>9, <1>10
<1>12. AcksInOrder'
  BY <1>0, <1>4, <1>8, <1>11, PushOrder
<1>13. IF pub # "exited" THEN Queue' = Queue \cup {e} ELSE Queue' = Queue
  BY <1>0, <1>4, <1>8, QueuePush DEF TypeOK, ReceiveFrame
<1>14. Keeps
  BY <1>0, <1>13, QueueGrows
<1>15. EventsAreChanges' /\ MessagesAreChanges'
  <2>0. committed' \in Lsn /\ committed' >= committed /\ wal' = wal
    <3>1. committed \in 0 .. MaxLsn /\ committed' = committed /\ wal' = wal
      BY <1>0 DEF TypeOK, Lsn, ReceiveFrame
    <3> QED BY SMTT(40), <3>1, MaxLsnAssumption DEF Lsn
  <2>1. MessagesAreChanges'
    BY <1>0, <2>0, MessagesKept DEF ReceiveFrame
  <2>2. txnIndex = Cardinality(EmittedBefore(sess.sent + 1, sess.at))
    BY <1>5 DEF SessionIsSound
  <2>3. Names(e.id, e.change) /\ wal[e.change[1]][e.change[2]] = e.kind
    <3>1. e.change[1] = sess.sent + 1 /\ e.change[2] = sess.at
      BY SMTT(40), <1>9
    <3>2. IsChange(sess.sent + 1, sess.at)
      BY SMTT(40), <1>5, <1>6 DEF IsChange, Txn
    <3>3. wal[sess.sent + 1][sess.at] # "filtered"
      BY <1>4 DEF Txn
    <3>4. e.id = SourceId(sess.sent + 1, sess.at)
      BY <1>9, <2>2 DEF SourceId
    <3> QED BY <1>9, <3>1, <3>2, <3>3, <3>4 DEF Names, Txn
  <2>4. \A x \in Queue' : Names(x.id, x.change) /\ wal[x.change[1]][x.change[2]] = x.kind
    BY <1>13, <2>3 DEF EventsAreChanges
  <2>5. \A x \in Queue' : (\A y, c : y = x.id /\ c = x.change => Names(y, c)')
    BY <1>0, <2>0, <2>4, NamesKept
  <2>6. EventsAreChanges'
    BY <2>0, <2>4, <2>5 DEF EventsAreChanges, Names, IsChange, SourceId, EmittedBefore
  <2> QED BY <2>1, <2>6
<1>16. EntriesOk(g)
  <2>1. g.handed >= gate.handed
    BY SMTT(40), <1>1, <1>2
  <2> QED BY <1>0, <1>2, <1>14, <2>1, EntriesKept
<1>17. CommitsAreAccounted' /\ PositionsAreDelivered'
  BY <1>0, <1>2, <1>3, <1>12, <1>14, <1>16, GateStep
<1>18. sess' = [sess EXCEPT !.at = sess.at + 1] /\ txnIndex' = txnIndex + 1
  BY DEF ReceiveChange
<1>19. SessionIsSound'
  BY <1>0, <1>4, <1>10, <1>18, NextChangeSession
<1>20. StreamedIsAccounted'
  <2>1. CASE pub # "exited"
    <3>1. e \in Queue' /\ e.seq <= gate'.handed
      BY <1>11, <1>13, <2>1
    <3>2. \A t, i : t = sess.sent + 1 /\ i = sess.at => Accounted(t, i, gate.handed)'
      BY <1>9, <3>1 DEF Accounted, InFlight
    <3> QED BY <1>0, <1>4, <1>11, <1>14, <1>18, <3>2, NextChangeStreamed
  <2>2. CASE pub = "exited"
    <3>1. Halted' /\ acked' < gate'.handed
      BY SMTT(40), <1>0, <1>1, <1>10, <2>2 DEF Halted, ReceiveFrame
    <3>2. \A t, i : Accounted(t, i, gate.handed)'
      BY <3>1 DEF Accounted
    <3> QED BY <1>0, <1>4, <1>11, <1>14, <1>18, <3>2, NextChangeStreamed
  <2> QED BY <2>1, <2>2
<1>21. QueueHasNoGaps'
  <2>1. CASE pub = "exited"
    <3>1. Descends
      BY <1>13, <2>1 DEF Descends
    <3> QED BY <1>14, <3>1, GapsKept DEF Descends
  <2>2. CASE pub # "exited"
    <3> SUFFICES ASSUME NEW f \in Queue', NEW t \in 1 .. f.change[1], NEW i \in DOMAIN wal'[t],
                        t < f.change[1] \/ i < f.change[2], Contract!Owed(t, i)'
                 PROVE  \A s \in Nat : s = f.seq - 1 => Accounted(t, i, s)' \/ Halted'
      <4>1. \A f \in Queue' : f.seq - 1 \in Nat
        <5>1. \A f \in Queue' : f.seq \in Nat /\ acked' < f.seq /\ acked' \in Nat
          BY <1>12, QueueTypeNext DEF AcksInOrder
        <5> QED BY SMTT(40), <5>1
      <4> QED BY <4>1 DEF QueueHasNoGaps, Accounted, InFlight
    <3>1. Contract!Owed(t, i) /\ wal' = wal
      BY <1>14 DEF Keeps
    <3>2. CASE f \in Queue
      BY <1>14, <3>1, <3>2 DEF QueueHasNoGaps, Keeps
    <3>3. CASE f = e
      <4>1. f.change[1] = sess.sent + 1 /\ f.change[2] = sess.at /\ f.seq - 1 = gate.handed
        BY SMTT(40), <1>1, <1>9, <3>3
      <4>2. t \in 1 .. sess.sent \/ (t = sess.sent + 1 /\ i \in 1 .. sess.at - 1)
        <5>1. i \in Nat \ {0}
          <6>1. t \in 1 .. MaxLsn /\ i \in DOMAIN wal[t]
            BY SMTT(40), <1>6, <3>1, <4>1, MaxLsnAssumption
          <6> QED BY SMTT(40), <6>1, WalFacts
        <5> QED BY SMTT(40), <1>6, <4>1, <5>1
      <4>3. Accounted(t, i, gate.handed)
        BY <1>5, <3>1, <4>2 DEF StreamedIsAccounted
      <4> QED BY <1>14, <3>1, <4>1, <4>3 DEF Keeps
    <3> QED BY <1>13, <2>2, <3>2, <3>3
  <2> QED BY <2>1, <2>2
<1> QED BY <1>12, <1>15, <1>17, <1>19, <1>20, <1>21

\* COMMIT adds a pending entry behind the last event handed.
LEMMA CommitKeeps ==
  ASSUME SetLaws, Typed, Typed', Sound, ReceiveCommit
  PROVE  Sound'
<1> SUFFICES ASSUME TypeOK, TypeOK', IInv
             PROVE  IInv'
  BY DEF Typed, Sound
<1>0. ReceiveFrame
  BY FrameHolds DEF ReceiveXLogData
<1> USE DEF IInv
<1> DEFINE g == Committed(gate, sess.sent + 1)
           last == Len(g.commits)
<1>1. gate \in Gate /\ acked \in Nat /\ gate.handed \in Nat
  BY DEF TypeOK, Gate
<1>2. sess.up /\ sess.at # 0 /\ sess.at = Len(Txn) + 1 /\ proc = "up"
  BY DEF ReceiveCommit, Streaming
<1>3. /\ sess.sent \in Nat /\ sess.at \in Nat \ {0} /\ sess.sent + 1 \in 1 .. MaxLsn
      /\ sess.sent + 1 <= committed /\ Len(Txn) \in Nat /\ DOMAIN Txn = 1 .. Len(Txn)
  BY <1>0, <1>2, SessFacts
<1>4. /\ g \in Gate /\ g.inTxn = FALSE /\ g.handed = gate.handed
      /\ g.confirmable = gate.confirmable
      /\ last \in {Len(gate.commits), Len(gate.commits) + 1} /\ last > 0
      /\ \A k \in 1 .. last - 1 : g.commits[k] = gate.commits[k]
      /\ g.commits[last].lastSequence = gate.handed
      /\ \/ g.commits[last].end = sess.sent + 1
         \/ /\ last = Len(gate.commits)
            /\ g.commits[last].end = gate.commits[last].end
            /\ gate.commits[last].lastSequence = gate.handed
  <2>1. sess.sent + 1 \in Lsn
    BY SMTT(40), <1>3, MaxLsnAssumption DEF Lsn
  <2> QED BY <1>1, <2>1, CommittedFacts
<1>5. GateMoves(g)
  BY <1>1, <1>4, MaintainFacts DEF ReceiveCommit
<1> HIDE DEF g
<1>6. gate'.handed = gate.handed
  BY <1>4, <1>5 DEF GateMoves
<1>7. /\ Keeps /\ AcksInOrder' /\ EventsAreChanges' /\ MessagesAreChanges' /\ QueueHasNoGaps'
  BY <1>0, <1>6, NoEventPart DEF ReceiveCommit
<1>8. \A t \in 1 .. sess.sent + 1 : \A i \in DOMAIN wal[t] :
        Contract!Owed(t, i) => Accounted(t, i, gate.handed)
  <2>1. ASSUME NEW t \in 1 .. sess.sent + 1, NEW i \in DOMAIN wal[t], Contract!Owed(t, i)
        PROVE  Accounted(t, i, gate.handed)
    <3>1. CASE t \in 1 .. sess.sent
      BY <1>2, <2>1, <3>1 DEF StreamedIsAccounted
    <3>2. CASE t = sess.sent + 1
      <4>1. i \in 1 .. sess.at - 1
        BY SMTT(40), <1>2, <1>3, <3>2 DEF Txn
      <4> QED BY <1>2, <2>1, <3>2, <4>1 DEF StreamedIsAccounted
    <3> QED BY SMTT(40), <1>3, <3>1, <3>2
  <2> QED BY <2>1
<1>9. EntriesOk(g)
  <2>1. g.confirmable <= committed
    BY <1>4 DEF PositionsAreDelivered
  <2>2. \A u \in 1 .. g.confirmable : \A i \in DOMAIN wal[u] :
          Contract!Owed(u, i)' => <<u, i>> \in Stored'
    BY <1>4, <1>7 DEF PositionsAreDelivered, Contract!DeliveredUpTo, Keeps
  <2>3. Len(gate.commits) \in Nat /\ last \in Nat
    <3>1. gate.commits \in Seq(PendingCommit)
      BY <1>1 DEF Gate
    <3> QED BY SMTT(40), <3>1, <1>4
  <2>4. ASSUME NEW k \in 1 .. last
        PROVE  /\ g.commits[k].lastSequence <= gate.handed /\ g.commits[k].end <= committed
               /\ \A t \in 1 .. g.commits[k].end : \A i \in DOMAIN wal[t] :
                    Contract!Owed(t, i) => Accounted(t, i, g.commits[k].lastSequence)
    <3>1. CASE k # last
      <4>1. k \in 1 .. last - 1 /\ k \in 1 .. Len(gate.commits)
        BY SMTT(40), <1>4, <2>3, <3>1
      <4> QED BY <1>4, <4>1 DEF CommitsAreAccounted
    <3>2. CASE k = last /\ g.commits[last].end = sess.sent + 1
      BY SMTT(40), <1>1, <1>3, <1>4, <1>8, <3>2
    <3>3. CASE k = last /\ last = Len(gate.commits) /\ g.commits[last].end = gate.commits[last].end
               /\ gate.commits[last].lastSequence = gate.handed
      BY <1>4, <3>3 DEF CommitsAreAccounted
    <3> QED BY <1>4, <3>1, <3>2, <3>3
  <2>5. ASSUME NEW k \in 1 .. last, NEW t \in 1 .. g.commits[k].end,
               NEW i \in DOMAIN wal[t], NEW s \in Nat,
               Contract!Owed(t, i)', s = g.commits[k].lastSequence
        PROVE  Accounted(t, i, s)'
    BY <1>7, <2>4, <2>5 DEF Keeps
  <2> QED BY <1>4, <2>1, <2>2, <2>4, <2>5 DEF EntriesOk
<1>10. CommitsAreAccounted' /\ PositionsAreDelivered'
  BY <1>0, <1>4, <1>5, <1>7, <1>9, GateStep
<1>11. /\ sess'.up = sess.up /\ sess'.sent = sess.sent + 1 /\ sess'.at = 0
       /\ UNCHANGED <<wal, committed, proc>>
  <2>1. sess' = [sess EXCEPT !.sent = sess.sent + 1, !.at = 0]
    BY DEF ReceiveCommit
  <2> QED BY <1>0, <2>1 DEF TypeOK, ReceiveFrame
<1>12. SessionIsSound'
  BY <1>2, <1>3, <1>11 DEF SessionIsSound
<1>13. StreamedIsAccounted'
  <2>1. \A i \in 1 .. sess'.at - 1 : FALSE
    BY SMTT(40), <1>11
  <2>2. \A t \in 1 .. sess'.sent : \A i \in DOMAIN wal[t] : Contract!Owed(t, i)' =>
          Accounted(t, i, gate.handed)'
    BY <1>1, <1>6, <1>7, <1>8, <1>11 DEF Keeps
  <2> QED BY <1>11, <2>1, <2>2 DEF StreamedIsAccounted
<1> QED BY <1>7, <1>10, <1>12, <1>13

\* A keepalive confirms the offered position only when the session is between
\* transactions and nothing is pending.
LEMMA KeepaliveKeeps ==
  ASSUME SetLaws, Typed, Typed', Sound, ReceiveKeepalive
  PROVE  Sound'
<1> SUFFICES ASSUME TypeOK, TypeOK', IInv
             PROVE  IInv'
  BY DEF Typed, Sound
<1>0. ReceiveFrame
  BY FrameHolds
<1> USE DEF IInv
<1>1. PICK position \in KeepalivePositions, report \in BOOLEAN, heartbeat \in BOOLEAN :
        Keepalive(position, report, heartbeat)
  BY DEF ReceiveKeepalive
<1> DEFINE g == Idle(gate, acked, position)
           s == settle(gate, acked)
<1>2. gate \in Gate /\ acked \in Nat /\ gate.handed \in Nat
  BY DEF TypeOK, Gate
<1>3. /\ sess.sent \in 0 .. MaxLsn /\ sess.at \in Nat /\ committed \in 0 .. MaxLsn
      /\ sess.sent <= committed /\ (sess.at # 0 => sess.sent < committed /\ gate.inTxn)
  BY DEF TypeOK, Lsn, SessionIsSound
<1>4. position \in Lsn /\ (sess.at = 0 => position = sess.sent)
  BY SMTT(40), <1>1, <1>3, MaxLsnAssumption DEF KeepalivePositions, Lsn
<1>5. /\ s \in Gate /\ s.handed = gate.handed /\ s.inTxn = gate.inTxn
      /\ \/ s.confirmable = gate.confirmable
         \/ \E k \in 1 .. Len(gate.commits) :
              gate.commits[k].lastSequence <= acked /\ s.confirmable = gate.commits[k].end
      /\ \E n \in 0 .. Len(gate.commits) :
           /\ Len(s.commits) = Len(gate.commits) - n
           /\ \A k \in 1 .. Len(s.commits) : s.commits[k] = gate.commits[k + n]
  BY <1>2, SettleFacts
<1>6. /\ g \in Gate /\ g.handed = gate.handed /\ g.inTxn = gate.inTxn /\ g.commits = s.commits
      /\ \/ g.confirmable = s.confirmable
         \/ g.confirmable = position /\ ~gate.inTxn /\ gate.handed <= acked
  BY SMTT(40), <1>2, <1>4, IdleFacts
<1>7. GateMoves(g)
  <2>1. CASE sendStatus(g)
    BY <1>2, <1>6, <2>1, SendStatusFacts
  <2>2. CASE gate' = g /\ UNCHANGED <<status, lastFlushSent>>
    BY <1>6, <2>2, StayFacts
  <2> QED BY <1>1, <2>1, <2>2 DEF Keepalive
<1> HIDE DEF g, s
<1>8. gate'.handed = gate.handed /\ gate'.inTxn = gate.inTxn
  BY <1>6, <1>7 DEF GateMoves
<1>9. /\ sess' = sess /\ txnIndex' = txnIndex /\ sess.up
      /\ chan' = chan \/ HandleEvent(Marker)
  BY <1>1 DEF Keepalive, Streaming
<1>10. /\ Keeps /\ AcksInOrder' /\ EventsAreChanges' /\ MessagesAreChanges' /\ QueueHasNoGaps'
  BY <1>0, <1>8, <1>9, NoEventPart
<1>11. EntriesOk(g)
  <2>1. /\ g.confirmable <= committed
        /\ \A u \in 1 .. g.confirmable : \A i \in DOMAIN wal[u] :
             Contract!Owed(u, i) => <<u, i>> \in Stored
    <3>1. CASE g.confirmable = gate.confirmable
      BY <3>1 DEF PositionsAreDelivered, Contract!DeliveredUpTo
    <3>2. ASSUME NEW k \in 1 .. Len(gate.commits), gate.commits[k].lastSequence <= acked,
                 g.confirmable = gate.commits[k].end
          PROVE  /\ g.confirmable <= committed
                 /\ \A u \in 1 .. g.confirmable : \A i \in DOMAIN wal[u] :
                      Contract!Owed(u, i) => <<u, i>> \in Stored
      <4>1. gate.commits[k].lastSequence \in Nat
        BY <1>2, EntryType
      <4> QED BY <3>2, <4>1, AckedIsStored DEF CommitsAreAccounted
    <3>3. CASE g.confirmable = position /\ ~gate.inTxn /\ gate.handed <= acked
      <4>1. position = sess.sent /\ sess.sent <= committed
        BY <1>3, <1>4, <3>3
      <4> QED BY <1>2, <1>9, <3>3, <4>1, AckedIsStored DEF StreamedIsAccounted
    <3> QED BY <1>5, <1>6, <3>1, <3>2, <3>3
  <2>2. \A u \in 1 .. g.confirmable : \A i \in DOMAIN wal[u] :
          Contract!Owed(u, i)' => <<u, i>> \in Stored'
    BY <1>10, <2>1 DEF Keeps
  <2>3. PICK n \in 0 .. Len(gate.commits) :
          /\ Len(g.commits) = Len(gate.commits) - n
          /\ \A k \in 1 .. Len(g.commits) : g.commits[k] = gate.commits[k + n]
    BY <1>5, <1>6
  <2>4. Len(gate.commits) \in Nat
    <3>1. gate.commits \in Seq(PendingCommit)
      BY <1>2 DEF Gate
    <3> QED BY SMTT(40), <3>1
  <2>5. ASSUME NEW k \in 1 .. Len(g.commits)
        PROVE  /\ g.commits[k].lastSequence <= gate.handed /\ g.commits[k].end <= committed
               /\ \A t \in 1 .. g.commits[k].end : \A i \in DOMAIN wal[t] :
                    Contract!Owed(t, i) => Accounted(t, i, g.commits[k].lastSequence)
    <3>1. k + n \in 1 .. Len(gate.commits) /\ g.commits[k] = gate.commits[k + n]
      BY SMTT(40), <2>3, <2>4
    <3> QED BY <3>1 DEF CommitsAreAccounted
  <2>6. ASSUME NEW k \in 1 .. Len(g.commits), NEW t \in 1 .. g.commits[k].end,
               NEW i \in DOMAIN wal[t], NEW x \in Nat,
               Contract!Owed(t, i)', x = g.commits[k].lastSequence
        PROVE  Accounted(t, i, x)'
    BY <1>10, <2>5, <2>6 DEF Keeps
  <2> QED BY <1>6, <2>1, <2>2, <2>5, <2>6 DEF EntriesOk
<1>12. CommitsAreAccounted' /\ PositionsAreDelivered'
  BY <1>0, <1>6, <1>7, <1>10, <1>11, GateStep
<1>13. committed' \in Lsn /\ committed' >= committed /\ UNCHANGED <<wal, proc, ctxDone, pub>>
  BY SMTT(40), <1>0, <1>3, MaxLsnAssumption DEF ReceiveFrame, Lsn
<1>14. SessionIsSound'
  <2>1. proc' = "down" => ~ctxDone' /\ pub' = "await"
    BY <1>13 DEF SessionIsSound
  <2> QED BY <1>8, <1>9, <1>13, <2>1, SessionKept
<1>15. StreamedIsAccounted'
  BY <1>8, <1>9, <1>10, StreamedKept
<1> QED BY <1>10, <1>12, <1>14, <1>15

-----------------------------------------------------------------------------

\* Every step preserves the invariant.
LEMMA InvariantStep ==
  ASSUME SetLaws, Typed, Sound, [Next]_vars
  PROVE  Typed' /\ Sound'
<1> SUFFICES ASSUME TypeOK, IInv
             PROVE  TypeOK' /\ IInv'
  BY DEF Typed, Sound
<1>1. CASE UNCHANGED vars
  <2>1. TypeOK'
    BY SMTT(40), <1>1 DEF vars, TypeOK, PubTypeOK
  <2>2. /\ UNCHANGED <<pubVars, acked, wal, gate, committed, skipped, slot, status>>
        /\ UNCHANGED <<sess, txnIndex, proc, ctxDone, pub>>
    BY <1>1 DEF vars, pubVars
  <2>3. committed' \in Lsn /\ committed' >= committed
    <3>1. committed \in 0 .. MaxLsn
      BY DEF TypeOK, Lsn
    <3> QED BY SMTT(40), <2>2, <3>1, MaxLsnAssumption DEF Lsn
  <2>4. /\ Keeps /\ AcksInOrder' /\ EventsAreChanges' /\ MessagesAreChanges'
        /\ CommitsAreAccounted' /\ QueueHasNoGaps'
    BY <2>1, <2>2, <2>3, QuietAccounts DEF Typed, Sound
  <2>5. StreamedIsAccounted'
    BY <2>2, <2>4, StreamedKept DEF IInv
  <2>6. SessionIsSound'
    <3>1. proc' = "down" => ~ctxDone' /\ pub' = "await"
      BY <2>2 DEF IInv, SessionIsSound
    <3> QED BY <2>2, <2>3, <3>1, SessionKept DEF IInv
  <2>7. PositionsAreDelivered'
    BY <2>2, <2>3, <2>4, SlotKept, PositionsKept DEF IInv
  <2> QED BY <2>1, <2>4, <2>5, <2>6, <2>7 DEF IInv
<1>2. CASE Next
  <2>1. TypeOK'
    BY <1>2, TypeStep DEF IInv, Typed
  <2>2. IInv'
    BY <1>2, <2>1, PublisherStepKeeps, QuietStepKeeps, StartStreamingKeeps, EndProcessKeeps,
       BeginKeeps, SilentChangeKeeps, ChangeKeeps, CommitKeeps, KeepaliveKeeps
       DEF Next, ReceiveXLogData, Typed, Sound
  <2> QED BY <2>1, <2>2
<1> QED BY <1>1, <1>2





-----------------------------------------------------------------------------
(***************************************************************************)
(* What a step does to the gate alone.                                     *)
(***************************************************************************)

\* Settling on the way out goes onward too.
LEMMA MovesOnward ==
  ASSUME NEW g \in Gate, GateMoves(g)
  PROVE  Onward(g, gate')
<1>1. gate' \in Gate /\ gate'.confirmable >= g.confirmable /\ gate'.handed = g.handed
  BY DEF GateMoves
<1>2. PICK n \in 0 .. Len(g.commits) :
        /\ Len(gate'.commits) = Len(g.commits) - n
        /\ \A k \in 1 .. Len(gate'.commits) : gate'.commits[k] = g.commits[k + n]
  BY DEF GateMoves
<1>3. Ordered(g) => Ordered(gate')
  BY <1>1, <1>2, OrderedSuffix
<1> QED BY <1>1, <1>3 DEF Onward

\* Within a process the gate only goes onward; a new one is in order.
LEMMA GateGoesOn ==
  ASSUME SetLaws, Typed, SessionIsSound, Next
  PROVE  \/ Onward(gate, gate')
         \/ proc' = "down" /\ Ordered(gate')
<1> TypeOK
  BY DEF Typed
<1>a. gate \in Gate /\ acked \in Nat /\ sess.sent \in 0 .. MaxLsn /\ MaxLsn \in Nat
  BY MaxLsnAssumption DEF TypeOK, Lsn
<1>b. sess.at # 0 => sess.sent + 1 \in Lsn
  BY SMTT(40), <1>a DEF SessionIsSound, TypeOK, Lsn
<1>c. ASSUME NEW g, Onward(gate, g), Maintain(g)
      PROVE  Onward(gate, gate')
  <2>1. g \in Gate
    BY <1>c DEF Onward
  <2>2. Onward(g, gate')
    BY <2>1, <1>a, <1>c, MaintainFacts, MovesOnward
  <2> QED BY <1>a, <1>c, <2>2, OnwardTwice
<1>1. CASE ReceiveXLogData
  <2>1. CASE ReceiveBegin
    BY <1>a, <1>c, <2>1, FieldsOnward DEF ReceiveBegin
  <2>2. CASE ReceiveFiltered
    BY <1>a, <1>c, <2>2, FieldsOnward DEF ReceiveFiltered
  <2>3. CASE ReceiveRefused
    <3>1. Unhand(Hand(gate)) = gate
      BY <1>a, FieldFacts
    <3> QED BY <1>a, <1>c, <2>3, <3>1, FieldsOnward DEF ReceiveRefused
  <2>4. CASE ReceiveChange
    BY <1>a, <1>c, <2>4, FieldsOnward DEF ReceiveChange
  <2>5. CASE ReceiveCommit
    BY <1>a, <1>b, <1>c, <2>5, CommittedOnward DEF ReceiveCommit
  <2> QED BY <1>1, <2>1, <2>2, <2>3, <2>4, <2>5 DEF ReceiveXLogData
<1>2. CASE ReceiveKeepalive
  <2>1. PICK position \in KeepalivePositions, report \in BOOLEAN, heartbeat \in BOOLEAN :
          Keepalive(position, report, heartbeat)
    BY <1>2 DEF ReceiveKeepalive
  <2>2. position \in Lsn
    BY <1>a, <1>b DEF KeepalivePositions, Lsn
  <2> DEFINE g == Idle(gate, acked, position)
  <2>3. Onward(gate, g)
    BY <1>a, <2>2, IdleOnward
  <2>4. Maintain(g)
    BY <2>1 DEF Keepalive, Maintain
  <2> HIDE DEF g
  <2> QED BY <1>c, <2>3, <2>4
<1>3. CASE StartStreaming
  BY <1>a, <1>3, FieldsOnward DEF StartStreaming
<1>4. CASE EndProcess
  <2>1. proc' = "down" /\ gate' = newAckGate
    BY <1>4 DEF EndProcess
  <2>2. gate'.commits = <<>>
    BY <2>1 DEF newAckGate
  <2> QED BY SMTT(40), <2>1, <2>2 DEF Ordered
<1>5. CASE \/ DbCommit \/ SlotAdvances \/ SlotLost \/ StartProcess \/ Shutdown
           \/ RecreateDrop \/ RecreateCreate \/ DropConnection
           \/ PublishAndObserve \/ PublisherRuns \/ NatsChanges \/ WindowMoves
  <2>1. gate' = gate
    BY <1>5 DEF DbCommit, SlotAdvances, SlotLost, StartProcess, Shutdown, RecreateDrop,
       RecreateCreate, DropConnection, PublishAndObserve, PublisherRuns, NatsChanges,
       WindowMoves, gateVars, listenerVars
  <2> QED BY <1>a, <2>1, FieldsOnward
<1> QED BY <1>1, <1>2, <1>3, <1>4, <1>5 DEF Next



-----------------------------------------------------------------------------
(***************************************************************************)
(* What a step does to the stream.                                         *)
(***************************************************************************)

\* A step publishes the event in hand, or leaves the stream alone; ids leave the
\* duplicate window only when an expiry is counted.
LEMMA StreamStep ==
  ASSUME Typed, Next
  PROVE  /\ wal' = wal /\ skipped \subseteq skipped'
         /\ \/ Store(cur) /\ CanSend /\ UNCHANGED <<committed, slot, skipped, used>>
            \/ /\ stream' = stream
               /\ \/ remembered' = remembered /\ used'.expiries = used.expiries
                  \/ used'.expiries > 0
<1> TypeOK
  BY DEF Typed
<1>a. used.expiries \in Nat
  BY SMTT(40), PgAssumption DEF TypeOK
<1>b. \A what \in {"crashes", "drops", "losses"} : Use(what) => used'.expiries = used.expiries
  BY DEF Use, TypeOK
<1>1. CASE PublishAndObserve
  BY <1>1 DEF PublishAndObserve, PublishAcked, listenerVars, dbVars
<1>2. CASE PublisherRuns
  <2>1. UNCHANGED <<wal, committed, slot, skipped, used>> /\ PublisherStep
    BY <1>2 DEF PublisherRuns, listenerVars, dbVars
  <2>2. CASE PublishAckLost
    BY <2>1, <2>2 DEF PublishAckLost
  <2>3. CASE ~PublishAckLost
    <3>1. UNCHANGED <<stream, remembered>>
      BY <2>1, <2>3 DEF PublisherStep, AwaitStream, AwaitFatal, Take, LoopCancelled,
         PublishDisconnected, PublishTooLarge, PublishCancelled, WaitOver, WaitClosed
    <3> QED BY <2>1, <3>1
  <2> QED BY <2>2, <2>3
<1>3. CASE WindowMoves
  <2>1. used'.expiries = used.expiries + 1
    BY <1>3 DEF WindowMoves, Use, TypeOK
  <2>2. stream' = stream
    BY <1>3 DEF WindowMoves, WindowExpires
  <2>3. wal' = wal /\ skipped' = skipped
    BY <1>3 DEF WindowMoves, listenerVars, dbVars
  <2> QED BY SMTT(40), <1>a, <2>1, <2>2, <2>3
<1>4. CASE NatsChanges \/ Shutdown
  BY <1>4 DEF NatsChanges, Shutdown, NatsConnect, NatsDisconnect, NatsClosed, CancelContext,
     listenerVars, dbVars
<1>5. CASE EndProcess
  BY <1>b, <1>5 DEF EndProcess, PubEnds, dbVars
<1>6. CASE DbCommit \/ SlotAdvances \/ StartStreaming \/ RecreateDrop
  BY <1>6 DEF DbCommit, SlotAdvances, StartStreaming, RecreateDrop, pubVars, dbVars
<1>7. CASE SlotLost \/ DropConnection
  BY <1>b, <1>7 DEF SlotLost, DropConnection, pubVars, dbVars
<1>8. CASE StartProcess \/ RecreateCreate
  BY <1>8 DEF StartProcess, RecreateCreate, CreateSlot, pubVars, dbVars
<1>9. CASE ReceiveXLogData
  BY <1>9 DEF ReceiveXLogData, ReceiveBegin, ReceiveFiltered, ReceiveRefused, ReceiveChange,
     ReceiveCommit, pubVars, dbVars
<1>10. CASE ReceiveKeepalive
  BY <1>10 DEF ReceiveKeepalive, Keepalive, dbVars
<1> QED BY <1>1, <1>2, <1>3, <1>4, <1>5, <1>6, <1>7, <1>8, <1>9, <1>10 DEF Next

\* Before an event is published, everything owed before its change is stored:
\* the events handed before it have left the queue.
LEMMA PublishInOrder ==
  ASSUME Typed, Sound, CanSend
  PROVE  /\ cur \in Queue /\ Names(cur.id, cur.change)
         /\ \A t \in 1 .. cur.change[1] : \A i \in DOMAIN wal[t] :
              (t < cur.change[1] \/ i < cur.change[2]) /\ Contract!Owed(t, i)
                => <<t, i>> \in Stored
<1> TypeOK /\ IInv
  BY DEF Typed, Sound
<1>1. cur \in Queue /\ ~Halted
  BY DEF CanSend, Publishing, IInv, AcksInOrder, Queue, Halted
<1>2. Names(cur.id, cur.change)
  BY <1>1 DEF IInv, EventsAreChanges
<1>3. \A e \in Queue : e.seq \in Nat /\ ~(e.seq <= cur.seq - 1)
  <2>1. \A e \in Queue : e.seq \in Nat
    BY QueueType DEF TypeOK
  <2>2. \A e \in Queue : e = cur \/ cur.seq < e.seq
    <3>1. cur # NoEvent
      BY DEF CanSend, Publishing
    <3> QED BY <3>1 DEF IInv, AcksInOrder, Queue
  <2> QED BY SMTT(40), <1>1, <2>1, <2>2
<1>4. ASSUME NEW t \in 1 .. cur.change[1], NEW i \in DOMAIN wal[t],
             t < cur.change[1] \/ i < cur.change[2], Contract!Owed(t, i)
      PROVE  <<t, i>> \in Stored
  <2>1. Accounted(t, i, cur.seq - 1)
    BY <1>1, <1>4 DEF IInv, QueueHasNoGaps
  <2>2. ~InFlight(t, i, cur.seq - 1)
    BY <1>3 DEF InFlight
  <2> QED BY <1>1, <2>1, <2>2 DEF Accounted
<1> QED BY SMTT(60), <1>1, <1>2, <1>4

-----------------------------------------------------------------------------
(***************************************************************************)
(* The stream has no gaps and, while the window holds, no repeats.         *)
(***************************************************************************)

\* A step that appends a message keeps the stream free of gaps: what is owed
\* before the change was stored before the step.
LEMMA GapsStep ==
  ASSUME Typed, Sound, StreamHasNoGaps, [Next]_vars
  PROVE  StreamHasNoGaps'
<1> TypeOK /\ IInv
  BY DEF Typed, Sound
<1>1. CASE stream' = stream /\ wal' = wal /\ skipped \subseteq skipped'
  <2>1. \A t, i : Contract!Owed(t, i)' => Contract!Owed(t, i)
    BY <1>1 DEF Contract!Owed, Deliverable
  <2>2. SUFFICES ASSUME NEW k \in 1 .. Len(stream'), NEW t \in 1 .. stream'[k].change[1],
                        NEW i \in DOMAIN wal'[t],
                        t < stream'[k].change[1] \/ i < stream'[k].change[2], Contract!Owed(t, i)'
                 PROVE  \E j \in 1 .. k - 1 : stream'[j].change = <<t, i>>
    BY DEF StreamHasNoGaps
  <2>3. /\ k \in 1 .. Len(stream) /\ t \in 1 .. stream[k].change[1] /\ i \in DOMAIN wal[t]
        /\ t < stream[k].change[1] \/ i < stream[k].change[2]
        /\ Contract!Owed(t, i)
    BY <1>1, <2>1, <2>2
  <2>4. \E j \in 1 .. k - 1 : stream[j].change = <<t, i>>
    BY <2>3 DEF StreamHasNoGaps
  <2> QED BY <1>1, <2>4
<1>2. CASE Next /\ Store(cur) /\ CanSend /\ wal' = wal /\ skipped' = skipped
  <2> DEFINE n == Len(stream) + 1
  <2>1. cur \in Event /\ PubTypeOK
    BY <1>2, QueueType, PublishInOrder DEF TypeOK
  <2>2. CASE stream' = stream
    BY <1>1, <1>2, <2>2
  <2>3. CASE /\ Len(stream) \in Nat /\ Len(stream') = n
             /\ \A k \in 1 .. Len(stream) : stream'[k] = stream[k]
             /\ stream'[n].change = cur.change
    <3>1. \A t, i : Contract!Owed(t, i)' <=> Contract!Owed(t, i)
      BY <1>2 DEF Contract!Owed
    <3>2. SUFFICES ASSUME NEW k \in 1 .. n, NEW t \in 1 .. stream'[k].change[1], NEW i \in DOMAIN wal[t],
                          t < stream'[k].change[1] \/ i < stream'[k].change[2], Contract!Owed(t, i)
                   PROVE  \E j \in 1 .. k - 1 : stream'[j].change = <<t, i>>
      BY <1>2, <2>3, <3>1 DEF StreamHasNoGaps
    <3>3. CASE k \in 1 .. Len(stream)
      <4>1. stream'[k] = stream[k]
        BY <2>3, <3>3
      <4>2. PICK j \in 1 .. k - 1 : stream[j].change = <<t, i>>
        BY <3>2, <3>3, <4>1 DEF StreamHasNoGaps
      <4>3. j \in 1 .. Len(stream)
        BY SMTT(40), <2>3, <3>3, <4>2
      <4>4. stream'[j] = stream[j]
        BY <2>3, <4>3
      <4> QED BY <4>2, <4>4
    <3>4. CASE k = n
      <4>1. <<t, i>> \in Stored
        BY <1>2, <2>3, <3>2, <3>4, PublishInOrder
      <4>2. PICK j \in 1 .. Len(stream) : stream[j].change = <<t, i>>
        BY <4>1 DEF Stored
      <4>3. stream'[j] = stream[j] /\ j \in 1 .. k - 1
        BY SMTT(40), <2>3, <3>4, <4>2
      <4> QED BY <4>2, <4>3
    <3>5. k \in 1 .. Len(stream) \/ k = n
      BY SMTT(40), <2>3
    <3> QED BY <3>3, <3>4, <3>5
  <2> QED BY <1>2, <2>1, <2>2, <2>3, StoreAppends
<1>3. CASE UNCHANGED vars
  BY <1>1, <1>3 DEF vars
<1>4. CASE Next
  BY <1>1, <1>2, <1>4, StreamStep
<1> QED BY <1>3, <1>4

\* While no id expired the duplicate window knows every message, so a message
\* whose id it does not know is a change the stream does not have.
WindowIsComplete ==
  used.expiries = 0 => \A k \in 1 .. Len(stream) : stream[k].id \in remembered

\* Every step keeps the window complete and stores no change twice.
LEMMA OnceStep ==
  ASSUME Typed, Sound, WindowIsComplete, StoredOnce, [Next]_vars
  PROVE  WindowIsComplete' /\ StoredOnce'
<1> TypeOK /\ IInv
  BY DEF Typed, Sound
<1>0. used.expiries \in Nat
  BY SMTT(40), PgAssumption DEF TypeOK
<1>1. CASE stream' = stream /\ used'.expiries > 0
  BY SMTT(40), <1>1 DEF WindowIsComplete, StoredOnce
<1>2. CASE stream' = stream /\ remembered' = remembered /\ used'.expiries = used.expiries
  BY <1>2 DEF WindowIsComplete, StoredOnce
<1>3. CASE Next /\ Store(cur) /\ CanSend /\ used' = used
  <2> DEFINE n == Len(stream) + 1
  <2>1. cur \in Event /\ PubTypeOK /\ Names(cur.id, cur.change)
    <3>1. cur \in Queue /\ Names(cur.id, cur.change)
      BY <1>3, PublishInOrder
    <3>2. PubTypeOK
      BY DEF TypeOK
    <3> QED BY <3>1, <3>2, QueueType
  <2>2. CASE stream' = stream /\ remembered' = remembered
    BY <1>2, <1>3, <2>2
  <2>3. CASE /\ cur.id \notin remembered /\ remembered' = remembered \cup {cur.id}
             /\ Len(stream) \in Nat /\ Len(stream') = n
             /\ \A k \in 1 .. Len(stream) : stream'[k] = stream[k]
             /\ stream'[n].id = cur.id /\ stream'[n].change = cur.change
    <3>1. SUFFICES ASSUME used.expiries = 0
                   PROVE  WindowIsComplete' /\ StoredOnce'
      BY <1>3 DEF WindowIsComplete, StoredOnce
    <3>2. \A k \in 1 .. Len(stream) : stream[k].id \in remembered
      BY <3>1 DEF WindowIsComplete
    <3>3. \A k \in 1 .. n : stream'[k].id \in remembered'
      BY SMTT(40), <2>3, <3>2
    <3>4. ASSUME NEW k \in 1 .. Len(stream)
          PROVE  stream[k].change # cur.change
      <4>1. Names(stream[k].id, stream[k].change)
        BY DEF IInv, MessagesAreChanges
      <4>2. stream[k].change = cur.change => stream[k].id = cur.id
        BY <2>1, <4>1 DEF Names
      <4> QED BY <2>3, <3>2, <4>2
    <3>5. ASSUME NEW j \in 1 .. n, NEW k \in 1 .. n, stream'[j].change = stream'[k].change
          PROVE  j = k
      <4>1. CASE j \in 1 .. Len(stream) /\ k \in 1 .. Len(stream)
        BY <2>3, <3>1, <3>5, <4>1 DEF StoredOnce
      <4>2. CASE j \in 1 .. Len(stream) /\ k = n
        BY <2>3, <3>4, <3>5, <4>2
      <4>3. CASE j = n /\ k \in 1 .. Len(stream)
        BY <2>3, <3>4, <3>5, <4>3
      <4> QED BY SMTT(40), <2>3, <4>1, <4>2, <4>3
    <3>6. WindowIsComplete'
      BY <2>3, <3>3 DEF WindowIsComplete
    <3>7. StoredOnce'
      BY <2>3, <3>5 DEF StoredOnce
    <3> QED BY <3>6, <3>7
  <2> QED BY <2>1, <1>3, <2>2, <2>3, StoreAppends
<1>4. CASE UNCHANGED vars
  BY <1>2, <1>4 DEF vars
<1>5. CASE Next
  BY <1>1, <1>2, <1>3, <1>5, StreamStep
<1> QED BY <1>4, <1>5



-----------------------------------------------------------------------------
(***************************************************************************)
(* The lag is honest.                                                      *)
(***************************************************************************)

\* What is owed and stored up to a position stays so.
LEMMA DeliveredKept ==
  ASSUME SetLaws, Typed, Sound, [Next]_vars, NEW n \in Nat, Contract!DeliveredUpTo(n)
  PROVE  \A u \in 1 .. n : \A i \in DOMAIN wal[u] : Contract!Owed(u, i)' => <<u, i>> \in Stored'
<1> TypeOK /\ IInv
  BY DEF Typed, Sound
<1>0. \/ Next
      \/ UNCHANGED <<wal, skipped, stream>>
  BY DEF vars
<1>1. wal' = wal /\ \A u, i : Contract!Owed(u, i)' => Contract!Owed(u, i)
  BY <1>0, StreamStep DEF Contract!Owed
<1>2. Stored \subseteq Stored'
  <2>1. CASE stream' = stream
    BY <2>1 DEF Stored
  <2>2. CASE Store(cur) /\ CanSend
    <3>1. cur \in Queue /\ Names(cur.id, cur.change)
      BY <2>2, PublishInOrder
    <3>3. CASE Next /\ stream' # stream
      <4>1. UNCHANGED <<wal, committed>>
        BY <3>3, StreamStep
      <4> QED BY <2>2, <3>1, <4>1, StoreFacts DEF IInv
    <3> QED BY <1>0, <2>1, <3>3
  <2> QED BY <1>0, <2>1, <2>2, StreamStep
<1> QED BY <1>1, <1>2 DEF Contract!DeliveredUpTo

\* With nothing pending every hand-off is acked, so what the session passed is
\* stored.
LEMMA NothingPending ==
  ASSUME Typed, Sound, sess.up, ~Pending(gate, acked)
  PROVE  Contract!DeliveredUpTo(sess.sent)
<1> TypeOK /\ IInv
  BY DEF Typed, Sound
<1>1. gate.handed \in Nat /\ acked \in Nat /\ gate.handed <= acked
  BY SMTT(40) DEF Pending, TypeOK, Gate
<1>2. \A t \in 1 .. sess.sent : \A i \in DOMAIN wal[t] :
        Contract!Owed(t, i) => Accounted(t, i, gate.handed)
  BY DEF IInv, StreamedIsAccounted
<1>3. ASSUME NEW t, NEW i, Accounted(t, i, gate.handed) PROVE <<t, i>> \in Stored
  BY <1>1, <1>3, AckedIsStored DEF IInv
<1> QED BY <1>2, <1>3 DEF Contract!DeliveredUpTo

\* The session and the lag tracker's flag change together: a commit clears the
\* flag, a keepalive sets it when nothing is pending, a new session starts at the
\* slot's position.
LEMMA LagStep ==
  ASSUME Typed, Sound, [Next]_vars
  PROVE  \/ ~(caughtUp' /\ sess'.up)
         \/ sess'.sent = sess.sent /\ sess'.up = sess.up /\ caughtUp' = caughtUp
         \/ sess'.sent = slot.confirmed
         \/ sess'.sent = sess.sent /\ sess.up /\ (caughtUp \/ ~Pending(gate, acked))
<1> TypeOK /\ IInv
  BY DEF Typed, Sound
<1> DEFINE Lag == \/ ~(caughtUp' /\ sess'.up)
                  \/ sess'.sent = sess.sent /\ sess'.up = sess.up /\ caughtUp' = caughtUp
                  \/ sess'.sent = slot.confirmed
                  \/ sess'.sent = sess.sent /\ sess.up /\ (caughtUp \/ ~Pending(gate, acked))
<1> SUFFICES Lag
  OBVIOUS
<1>1. CASE ReceiveCommit \/ EndProcess
  BY <1>1 DEF ReceiveCommit, EndProcess
<1>2. CASE ReceiveBegin \/ ReceiveFiltered \/ ReceiveRefused \/ ReceiveChange
  BY <1>2 DEF ReceiveBegin, ReceiveFiltered, ReceiveRefused, ReceiveChange, TypeOK
<1>3. CASE ReceiveKeepalive
  <2>1. sess' = sess /\ sess.up
    BY <1>3 DEF ReceiveKeepalive, Keepalive, Streaming
  <2>2. caughtUp' => caughtUp \/ ~Pending(gate, acked)
    BY <1>3 DEF ReceiveKeepalive, Keepalive
  <2> QED BY <2>1, <2>2
<1>4. CASE StartStreaming
  BY <1>4 DEF StartStreaming
<1>5. CASE SlotLost \/ DropConnection
  BY SMTT(40), <1>5 DEF SlotLost, DropConnection, NoSession
<1>6. CASE \/ DbCommit \/ SlotAdvances \/ StartProcess \/ Shutdown \/ RecreateDrop \/ RecreateCreate
           \/ PublishAndObserve \/ PublisherRuns \/ NatsChanges \/ WindowMoves
  <2>1. sess' = sess /\ caughtUp' = caughtUp
    BY <1>6 DEF DbCommit, SlotAdvances, StartProcess, Shutdown, RecreateDrop, RecreateCreate,
       PublishAndObserve, PublisherRuns, NatsChanges, WindowMoves, gateVars, listenerVars
  <2> QED BY <2>1
<1>7. CASE UNCHANGED vars
  BY <1>7 DEF vars
<1> HIDE DEF Lag
<1> QED BY <1>1, <1>2, <1>3, <1>4, <1>5, <1>6, <1>7 DEF Next, ReceiveXLogData


-----------------------------------------------------------------------------
(***************************************************************************)
(* The pipeline implements the delivery contract: the slot's position is   *)
(* the contract's, the stream's changes are what is delivered.             *)
(***************************************************************************)

\* Storing the event in hand delivers its change, after everything owed before.
LEMMA StoreDelivers ==
  ASSUME SetLaws, Typed, Sound, Next, Store(cur), CanSend, UNCHANGED <<wal, committed, slot, skipped>>
  PROVE  Contract!Deliver
<1> TypeOK /\ IInv
  BY DEF Typed, Sound
<1>1. cur \in Queue /\ Names(cur.id, cur.change)
  BY PublishInOrder
<1>2. Stored' = Stored \cup {cur.change}
  BY <1>1, StoreFacts DEF IInv
<1>3. PICK t, i : cur.change = <<t, i>> /\ t \in Nat /\ i \in Nat
  BY <1>1, QueueType DEF TypeOK
<1>4. t \in 1 .. committed /\ i \in DOMAIN wal[t]
  BY SMTT(40), <1>1, <1>3 DEF Names, IsChange
<1>5. \A u \in 1 .. t : \A j \in DOMAIN wal[u] :
        (u < t \/ j < i) /\ Contract!Owed(u, j) => <<u, j>> \in Stored
  BY SMTT(40), <1>3, PublishInOrder
<1>6. Contract!DeliveredBefore(t, i)
  <2>1. Contract!DeliveredUpTo(t - 1)
    BY SMTT(40), <1>3, <1>5 DEF Contract!DeliveredUpTo
  <2>2. \A j \in 1 .. i - 1 : Contract!Owed(t, j) => <<t, j>> \in Stored
    <3>1. t \in 1 .. t /\ \A j \in 1 .. i - 1 : j < i
      BY SMTT(40), <1>3, <1>4, MaxLsnAssumption DEF TypeOK, Lsn
    <3> QED BY <1>5, <3>1 DEF Contract!Owed
  <2> QED BY <2>1, <2>2 DEF Contract!DeliveredBefore
<1> QED BY <1>2, <1>3, <1>4, <1>6 DEF Contract!Deliver

\* A status the primary processes confirms what is delivered.
LEMMA AdvanceConfirms ==
  ASSUME SetLaws, Typed, Sound, SlotAdvances
  PROVE  Contract!Confirm
<1> TypeOK /\ IInv
  BY DEF Typed, Sound
<1>1. slot.confirmed \in 0 .. MaxLsn /\ status \in 0 .. MaxLsn /\ MaxLsn \in Nat
  BY MaxLsnAssumption DEF TypeOK, Lsn
<1>2. slot'.confirmed = Max({slot.confirmed, status})
  BY DEF SlotAdvances, TypeOK
<1>3. /\ slot'.confirmed = slot.confirmed \/ slot'.confirmed = status
      /\ slot.confirmed <= slot'.confirmed
  BY <1>1, <1>2, MaxOfTwo DEF Lsn
<1>4. slot'.confirmed <= committed /\ committed \in 0 .. MaxLsn
  BY <1>3 DEF IInv, PositionsAreDelivered, TypeOK, Lsn
<1>5. slot'.confirmed \in slot.confirmed .. committed
  BY SMTT(40), <1>1, <1>3, <1>4
<1>6. Contract!DeliveredUpTo(slot'.confirmed)
  BY <1>3 DEF IInv, PositionsAreDelivered
<1>7. UNCHANGED <<wal, committed, skipped, Stored>>
  BY DEF SlotAdvances, dbVars, pubVars, Stored
<1> QED BY <1>5, <1>6, <1>7 DEF Contract!Confirm

\* Every step of the pipeline is a step of the contract, or leaves all that it
\* speaks of alone.
LEMMA ContractStep ==
  ASSUME SetLaws, Typed, Sound, [Next]_vars
  PROVE  [Contract!Next]_(Contract!vars)
<1> TypeOK /\ IInv
  BY DEF Typed, Sound
<1>0. ASSUME UNCHANGED <<wal, committed, slot, skipped, stream>>
      PROVE  UNCHANGED Contract!vars
  BY <1>0 DEF Contract!vars, Stored
<1>1. CASE Next /\ Store(cur) /\ CanSend /\ UNCHANGED <<wal, committed, slot, skipped>>
  BY <1>1, StoreDelivers DEF Contract!Next
<1>2. CASE SlotAdvances
  BY <1>2, AdvanceConfirms DEF Contract!Next
<1>3. CASE DbCommit
  <2>1. Contract!Commit
    BY <1>3 DEF DbCommit, Contract!Commit, Stored, pubVars
  <2> QED BY <2>1 DEF Contract!Next
<1>4. ASSUME CreateSlot, UNCHANGED <<wal, committed, stream>>
      PROVE  Contract!Restart
  BY <1>4 DEF CreateSlot, Contract!Restart, Stored
<1>5. CASE StartProcess \/ RecreateCreate
  <2>1. UNCHANGED <<wal, committed, stream>>
    BY <1>5 DEF StartProcess, RecreateCreate, dbVars, pubVars
  <2>2. CreateSlot \/ UNCHANGED <<slot, skipped>>
    BY <1>5 DEF StartProcess, RecreateCreate
  <2> QED BY <1>0, <1>4, <2>1, <2>2 DEF Contract!Next
<1>6. CASE SlotLost \/ RecreateDrop
  <2>1. UNCHANGED <<wal, committed, skipped, stream>> /\ slot'.confirmed = slot.confirmed
    BY <1>6 DEF SlotLost, RecreateDrop, dbVars, pubVars, TypeOK
  <2> QED BY <2>1 DEF Contract!vars, Stored
<1>7. CASE PublishAndObserve \/ PublisherRuns
  <2>1. UNCHANGED <<wal, committed, slot, skipped>>
    BY <1>7 DEF PublishAndObserve, PublisherRuns, listenerVars, dbVars
  <2>2. Next
    BY <1>7 DEF Next
  <2> QED BY <1>0, <1>1, <2>1, <2>2, StreamStep
<1>8. CASE \/ EndProcess \/ Shutdown \/ NatsChanges \/ WindowMoves
  <2>1. UNCHANGED <<wal, committed, slot, skipped, stream>>
    BY <1>8 DEF EndProcess, Shutdown, NatsChanges, WindowMoves, listenerVars, dbVars, PubEnds,
       CancelContext, NatsConnect, NatsDisconnect, NatsClosed, WindowExpires
  <2> QED BY <1>0, <2>1
<1>9. CASE StartStreaming \/ DropConnection \/ ReceiveXLogData \/ ReceiveKeepalive
  <2>1. UNCHANGED <<wal, committed, slot, skipped, stream>>
    BY <1>9 DEF StartStreaming, DropConnection, ReceiveXLogData, ReceiveKeepalive, Keepalive,
       ReceiveBegin, ReceiveFiltered, ReceiveRefused, ReceiveChange, ReceiveCommit, dbVars, pubVars
  <2> QED BY <1>0, <2>1
<1>10. CASE UNCHANGED vars
  BY <1>0, <1>10 DEF vars
<1> QED BY <1>2, <1>3, <1>5, <1>6, <1>7, <1>8, <1>9, <1>10 DEF Next


-----------------------------------------------------------------------------
(***************************************************************************)
(* What the invariant gives, one step at a time.                           *)
(***************************************************************************)
\* Messages with the same id are the same change, and the other way round.
LEMMA IdsFollow ==
  ASSUME SetLaws, Typed, Sound
  PROVE  IdNamesOneChange
<1> TypeOK /\ IInv
  BY DEF Typed, Sound
<1>0. MessagesAreChanges
  BY DEF IInv
<1> HIDE DEF IInv
<1> SUFFICES ASSUME NEW j \in 1 .. Len(stream), NEW k \in 1 .. Len(stream)
             PROVE  (stream[j].id = stream[k].id) <=> (stream[j].change = stream[k].change)
  BY DEF IdNamesOneChange
<1>1. Names(stream[j].id, stream[j].change) /\ Names(stream[k].id, stream[k].change)
  BY <1>0 DEF MessagesAreChanges
<1>2. /\ stream[j].change = <<stream[j].change[1], stream[j].change[2]>>
      /\ stream[k].change = <<stream[k].change[1], stream[k].change[2]>>
  BY MessageType DEF TypeOK
<1>3. ASSUME stream[j].id = stream[k].id PROVE stream[j].change = stream[k].change
  <2>1. Names(stream[j].id, stream[k].change)
    BY <1>1, <1>3
  <2>2. stream[j].change[1] = stream[k].change[1] /\ stream[j].change[2] = stream[k].change[2]
    BY SMTT(40), <1>1, <2>1, NamesOne
  <2> QED BY <1>2, <2>2
<1>4. ASSUME stream[j].change = stream[k].change PROVE stream[j].id = stream[k].id
  BY <1>1, <1>4 DEF Names
<1> QED BY <1>3, <1>4

\* The gate's position goes on while the process runs.
LEMMA FlushStep ==
  ASSUME SetLaws, Typed, Sound, [Next]_vars
  PROVE  [proc = "up" /\ proc' = "up" => gate'.confirmable >= gate.confirmable]_vars
<1> TypeOK /\ IInv
  BY DEF Typed, Sound
<1>0. SessionIsSound
  BY DEF IInv
<1> HIDE DEF IInv
<1>1. SUFFICES ASSUME Next, proc' = "up"
               PROVE  gate'.confirmable >= gate.confirmable
  OBVIOUS
<1>2. Onward(gate, gate')
  <2>1. proc' # "down"
    BY <1>1
  <2> QED BY <1>0, <1>1, <2>1, GateGoesOn
<1> QED BY <1>2 DEF Onward

\* The entries of the gate are in order at the start and stay so.
LEMMA OrderedInit ==
  ASSUME Init
  PROVE  Ordered(gate)
<1>1. gate.commits = <<>>
  BY DEF Init, newAckGate
<1> QED BY SMTT(40), <1>1 DEF Ordered

\* Every step keeps the gate's entries in order.
LEMMA OrderedStep ==
  ASSUME SetLaws, Typed, Sound, Ordered(gate), [Next]_vars
  PROVE  Ordered(gate)'
<1> TypeOK /\ IInv
  BY DEF Typed, Sound
<1>0. SessionIsSound
  BY DEF IInv
<1> HIDE DEF IInv
<1>1. CASE Next
  <2>1. Onward(gate, gate') \/ Ordered(gate')
    BY <1>0, <1>1, GateGoesOn
  <2>2. Ordered(gate')
    BY <2>1 DEF Onward
  <2> QED BY <2>2 DEF Ordered
<1>2. CASE UNCHANGED vars
  <2>1. gate' = gate
    BY <1>2 DEF vars
  <2> QED BY <2>1 DEF Ordered
<1> QED BY <1>1, <1>2

\* What is caught up stays delivered.
LEMMA LagKept ==
  ASSUME SetLaws, Typed, Sound, CaughtUpIsDelivered, [Next]_vars
  PROVE  CaughtUpIsDelivered'
<1> TypeOK /\ IInv
  BY DEF Typed, Sound
<1>0. PositionsAreDelivered
  BY DEF IInv
<1>1. SUFFICES ASSUME caughtUp', sess'.up
               PROVE  \A u \in 1 .. sess'.sent : \A i \in DOMAIN wal'[u] :
                        Contract!Owed(u, i)' => <<u, i>> \in Stored'
  BY DEF CaughtUpIsDelivered, Contract!DeliveredUpTo
<1>2. sess.sent \in Nat /\ slot.confirmed \in Nat /\ wal' = wal
  <2>1. CASE Next
    BY SMTT(40), <2>1, MaxLsnAssumption, StreamStep DEF TypeOK, Lsn
  <2>2. CASE UNCHANGED vars
    BY SMTT(40), <2>2, MaxLsnAssumption DEF vars, TypeOK, Lsn
  <2> QED BY <2>1, <2>2
<1>3. CASE sess'.sent = slot.confirmed
  BY <1>0, <1>2, <1>3, DeliveredKept DEF PositionsAreDelivered
<1>4. CASE sess'.sent = sess.sent /\ sess.up /\ caughtUp
  BY <1>2, <1>4, DeliveredKept DEF CaughtUpIsDelivered
<1>5. CASE sess'.sent = sess.sent /\ sess.up /\ ~Pending(gate, acked)
  BY <1>2, <1>5, DeliveredKept, NothingPending
<1> QED BY <1>1, <1>3, <1>4, <1>5, LagStep
-----------------------------------------------------------------------------
(***************************************************************************)
(* The theorems. The laws of finite sets and of the natural numbers the    *)
(* lemmas assume come from the library, which nothing above needs.         *)
(***************************************************************************)
INSTANCE FiniteSetTheorems

\* The laws the lemmas assume, from the library.
LEMMA SetLawsHold == SetLaws
<1> DEFINE R == OpToRel(<, Nat)
<1>1. ASSUME NEW T \in SUBSET Nat, T # {}
      PROVE  \E x \in T : \A y \in T : x <= y
  <2>1. IsWellFoundedOn(R, Nat)
    BY NatLessThanWellFounded
  <2>2. PICK x \in T : \A y \in T : ~ (<<y, x>> \in R)
    <3> HIDE DEF R
    <3> QED BY <1>1, <2>1, WFMin
  <2>3. R = {ss \in Nat \X Nat : ss[1] < ss[2]}
    BY DEF OpToRel
  <2>4. \A y \in T : x <= y
    <3> HIDE DEF R
    <3> TAKE y \in T
    <3>1. ~ (<<y, x>> \in R)
      BY <2>2
    <3> QED BY SMTT(40), <3>1, <2>3
  <2> QED BY <2>4
<1>2. \A a, b \in Int :
        IsFiniteSet(a .. b) /\ Cardinality(a .. b) = IF a > b THEN 0 ELSE b - a + 1
  BY FS_Interval
<1>3. IsFiniteSet({}) /\ Cardinality({}) = 0
  BY FS_EmptySet
<1>4. ASSUME NEW S, IsFiniteSet(S)
      PROVE  /\ Cardinality(S) \in Nat /\ (Cardinality(S) = 0 <=> S = {})
             /\ \A T \in SUBSET S :
                  /\ IsFiniteSet(T) /\ Cardinality(T) <= Cardinality(S)
                  /\ Cardinality(S) = Cardinality(T) => S = T
  BY <1>4, FS_CardinalityType, FS_EmptySet, FS_Subset
<1>5. ASSUME NEW S, IsFiniteSet(S), NEW x
      PROVE  /\ IsFiniteSet(S \cup {x}) /\ IsFiniteSet(S \ {x})
             /\ Cardinality(S \cup {x}) = Cardinality(S) + (IF x \in S THEN 0 ELSE 1)
             /\ Cardinality(S \ {x}) = Cardinality(S) - (IF x \in S THEN 1 ELSE 0)
  <2>1. Cardinality(S) \in Nat
    BY <1>5, FS_CardinalityType
  <2>2. /\ IsFiniteSet(S \cup {x}) /\ IsFiniteSet(S \ {x})
        /\ Cardinality(S \cup {x}) = IF x \in S THEN Cardinality(S) ELSE Cardinality(S) + 1
        /\ Cardinality(S \ {x}) = IF x \in S THEN Cardinality(S) - 1 ELSE Cardinality(S)
    BY <1>5, FS_AddElement, FS_RemoveElement
  <2> QED BY SMTT(40), <2>1, <2>2
<1> QED BY <1>1, <1>2, <1>3, <1>4, <1>5 DEF SetLaws

\* The invariant holds of every behaviour of the pipeline.
THEOREM Invariant == Spec => [](TypeOK /\ IInv)
<1>1. Init => TypeOK /\ IInv
  BY InitHolds
<1>2. TypeOK /\ IInv /\ [Next]_vars => (TypeOK /\ IInv)'
  BY SetLawsHold, InvariantStep DEF Typed, Sound
<1> QED BY <1>1, <1>2, PTL DEF Spec

\* Type correctness: every variable stays in its set, the bus subscription
\* within its capacity.
THEOREM TypeCorrect == Spec => []TypeOK
BY Invariant, PTL

\* The slot's confirmed_flush_lsn never passes a transaction with a deliverable
\* change that JetStream does not store, unless a slot created anew skipped it:
\* the ack gate, sendStatus and the publisher together, over crashes, dropped
\* connections, lost statuses, slot losses and ids leaving the window.
THEOREM Safety == Spec => []ConfirmedIsDelivered
<1>1. IInv => ConfirmedIsDelivered
  BY DEF IInv, PositionsAreDelivered, ConfirmedIsDelivered
<1> QED BY <1>1, Invariant, PTL

\* A message id names one change in every session and process (emit numbers
\* the changes of a transaction from its start, TransactionLSN names it), so
\* JetStream's duplicate window never drops a change for another one.
THEOREM IdsNameOneChange == Spec => []IdNamesOneChange
<1>1. TypeOK /\ IInv => IdNamesOneChange
  BY SetLawsHold, IdsFollow DEF Typed, Sound
<1> QED BY <1>1, Invariant, PTL

\* The position the gate offers never moves back while the process runs, over
\* reconnections, re-streamed transactions and keepalives (ackGate.settle, Idle).
THEOREM FlushAdvances == Spec => FlushNeverRetreats
<1>1. TypeOK /\ IInv /\ [Next]_vars
        => [proc = "up" /\ proc' = "up" => gate'.confirmable >= gate.confirmable]_vars
  BY SetLawsHold, FlushStep DEF Typed, Sound
<1> QED BY <1>1, Invariant, PTL DEF Spec, FlushNeverRetreats

\* However long the publisher stalls, the gate keeps one entry per handed event,
\* in the order of the events (ackGate.Committed, listener.go).
THEOREM EntriesAreOrdered == Spec => []OneEntryPerEvent
<1>1. Init => Ordered(gate)
  BY OrderedInit
<1>2. TypeOK /\ IInv /\ Ordered(gate) /\ [Next]_vars => Ordered(gate)'
  BY SetLawsHold, OrderedStep DEF Typed, Sound
<1>3. Ordered(gate) => OneEntryPerEvent
  BY DEF Ordered, OneEntryPerEvent
<1> QED BY <1>1, <1>2, <1>3, Invariant, PTL DEF Spec

\* The stream never has a gap, whatever is retried, re-streamed or restarted:
\* when a message is stored, every deliverable change committed before it is
\* stored already (publishLoop's order, ackGate, SourceID).
THEOREM NoGaps == Spec => []StreamHasNoGaps
<1>1. Init => StreamHasNoGaps
  BY SMTT(40) DEF Init, PubInit, StreamHasNoGaps
<1>2. TypeOK /\ IInv /\ StreamHasNoGaps /\ [Next]_vars => StreamHasNoGaps'
  BY GapsStep DEF Typed, Sound
<1> QED BY <1>1, <1>2, Invariant, PTL DEF Spec

\* While no id leaves the duplicate window every change is in the stream at
\* most once, over retries, reconnections and restarts (Nats-Msg-Id, SourceID).
THEOREM NoRepeats == Spec => []StoredOnce
<1>1. Init => WindowIsComplete /\ StoredOnce
  BY SMTT(40) DEF Init, PubInit, WindowIsComplete, StoredOnce
<1>2. TypeOK /\ IInv /\ WindowIsComplete /\ StoredOnce /\ [Next]_vars
        => WindowIsComplete' /\ StoredOnce'
  BY OnceStep DEF Typed, Sound
<1> QED BY <1>1, <1>2, Invariant, PTL DEF Spec

\* When the lag tracker says caught up, everything the running session streamed
\* is stored (Pending, ReceiveCommit, handleKeepalive), over acks that come late
\* and sessions that start again.
THEOREM LagIsHonest == Spec => []CaughtUpIsDelivered
<1>1. Init => CaughtUpIsDelivered
  BY DEF Init, CaughtUpIsDelivered
<1>2. TypeOK /\ IInv /\ CaughtUpIsDelivered /\ [Next]_vars => CaughtUpIsDelivered'
  BY SetLawsHold, LagKept DEF Typed, Sound
<1> QED BY <1>1, <1>2, Invariant, PTL DEF Spec

\* The pipeline keeps the contract for every log and every bound: a change is
\* stored only after every change owed before it, the position moves only over
\* stored changes, and only a slot made anew leaves any out (ackGate,
\* publishLoop, createSlot).
THEOREM KeepsContract == Spec => ImplementsContract
<1>1. Init => Contract!Init
  <2> SUFFICES ASSUME Init PROVE Contract!Init
    OBVIOUS
  <2>1. wal \in [1 .. MaxLsn -> Seq(ChangeKind)]
    BY PgAssumption DEF Init
  <2>2. Stored = {}
    BY SMTT(40) DEF Init, PubInit, Stored
  <2> QED BY <2>1, <2>2 DEF Init, Contract!Init
<1>2. TypeOK /\ IInv /\ [Next]_vars => [Contract!Next]_(Contract!vars)
  BY SetLawsHold, ContractStep DEF Typed, Sound
<1> QED BY <1>1, <1>2, Invariant, PTL DEF Spec, ImplementsContract, Contract!Spec
=============================================================================
