-------------------------- MODULE MySQLStepProofs ---------------------------
(***************************************************************************)
(* The steps of the server and of the canal handler keep the invariant of  *)
(* MySQLInvariant: a commit, a connection that fails, a row that is        *)
(* filtered or handed over, the boundaries, and the event put on the bus.  *)
(***************************************************************************)
EXTENDS MySQLAccountProofs

\* The prover of the leaves that name none, and its time limit.
USE ZenonT(40)

-----------------------------------------------------------------------------
(***************************************************************************)
(* Positions.                                                              *)
(***************************************************************************)
\* The server only appends to its log.
LogGrows ==
  binlog' = binlog /\ committed' \in 0 .. MaxEntries /\ committed' >= committed

\* What a later state has delivered, spelt out.
LEMMA DeliveredFactsNext ==
  ASSUME NEW t \in 0 .. MaxEntries
  PROVE  Contract!DeliveredUpTo(t)' <=>
           \A u \in 1 .. t : \A i \in DOMAIN Rows(u)' : Contract!Owed(u, i)' => <<u, i>> \in Stored'
<1>1. \A u \in 1 .. t : u \in 1 .. MaxEntries
  BY SMTT(40), MySQLAssumption
<1>2. \A u \in 1 .. t : [x \in 1 .. MaxEntries |-> binlog'[x].rows][u] = Rows(u)'
  BY <1>1 DEF Rows
<1> QED BY <1>2 DEF Contract!DeliveredUpTo

\* What is delivered stays delivered.
LEMMA SettledKept ==
  ASSUME Shrinks
  PROVE  Settled \subseteq Settled'
<1> SUFFICES ASSUME NEW t \in 0 .. MaxEntries, Contract!DeliveredUpTo(t)
             PROVE  Contract!DeliveredUpTo(t)'
  BY DEF Settled
<1>1. \A u \in 1 .. t : \A i \in DOMAIN Rows(u) : Contract!Owed(u, i) => <<u, i>> \in Stored
  BY DeliveredFacts
<1>2. \A u : Rows(u)' = Rows(u)
  BY LogFixed DEF Shrinks
<1>3. \A u \in 1 .. t : \A i \in DOMAIN Rows(u)' : Contract!Owed(u, i)' => <<u, i>> \in Stored'
  BY <1>1, <1>2 DEF Shrinks
<1> QED BY <1>3, DeliveredFactsNext

\* A boundary stays one.
LEMMA BoundariesKept ==
  ASSUME Typed, LogGrows
  PROVE  Boundaries \subseteq Boundaries'
<1> TypeOK
  BY DEF Typed
<1>1. \A t \in 0 .. committed : t \in 0 .. committed'
  BY SMTT(40), MySQLAssumption DEF TypeOK, LogGrows
<1>2. \A t : Boundary(t)' = Boundary(t)
  BY LogFixed DEF LogGrows
<1> QED BY <1>1, <1>2 DEF Boundaries

\* A boundary is the one its rank names.
LEMMA BoundaryOfRank ==
  ASSUME SetLaws, Typed, NEW p \in Boundaries
  PROVE  p = Boundary(Rank(p)) /\ Rank(p) \in 0 .. committed /\ Rank(p) \in 0 .. MaxEntries
<1> TypeOK
  BY DEF Typed
<1>1. PICK t \in 0 .. committed : p = Boundary(t)
  BY DEF Boundaries
<1>2. t \in 0 .. MaxEntries
  BY SMTT(40), <1>1, MySQLAssumption DEF TypeOK
<1>3. Rank(p) = t
  BY <1>1, <1>2, RankOfBoundary
<1> QED BY <1>1, <1>2, <1>3

\* The types of a mark.
LEMMA MarkType ==
  ASSUME SetLaws, Typed, NEW m \in Marks
  PROVE  m[1] \in Nat /\ m[2] \in 0 .. MaxEntries /\ m[2] \in Nat
<1> TypeOK
  BY DEF Typed
<1>1. PICK k \in 1 .. Len(gate.commits) :
        m = <<gate.commits[k].lastHanded, Rank(gate.commits[k].pos)>>
  BY DEF Marks
<1>2. gate.commits[k].lastHanded \in Nat
  BY GateFields DEF TypeOK
<1>3. Rank(gate.commits[k].pos) \in 0 .. MaxEntries
  BY RankType
<1> QED BY SMTT(40), <1>1, <1>2, <1>3

\* Entries keep their account as the queue shrinks.
LEMMA CommitsKept ==
  ASSUME SetLaws, Typed, WaitingIsCounted, Shrinks, CommitsAreAccounted,
         gate'.handed \in Nat, gate'.handed >= gate.handed,
         sess'.up => sess.up /\ sess'.sent \in Nat /\ sess'.sent >= sess.sent,
         \A k \in 1 .. Len(gate'.commits) : gate'.commits[k].pos \in Boundaries',
         \A m \in Marks' :
           \/ m \in Marks
           \/ /\ m[1] \in Nat /\ m[2] \in Nat /\ m[1] <= gate'.handed
              /\ (sess'.up => m[2] <= sess'.sent) /\ Divides(m[1], m[2])
  PROVE  CommitsAreAccounted'
<1> TypeOK
  BY DEF Typed
<1>0. gate.handed \in Nat /\ sess.sent \in Nat
  BY SMTT(40), GateFields DEF TypeOK
<1>1. ASSUME NEW m \in Marks'
      PROVE  m[1] <= gate'.handed /\ (sess'.up => m[2] <= sess'.sent) /\ Divides(m[1], m[2])'
  <2>1. CASE m \in Marks
    <3>1. m[1] \in Nat /\ m[2] \in Nat
      BY <2>1, MarkType
    <3>2. m[1] <= gate.handed /\ (sess.up => m[2] <= sess.sent) /\ Divides(m[1], m[2])
      BY <2>1 DEF CommitsAreAccounted
    <3>3. Divides(m[1], m[2])'
      BY <3>1, <3>2, DividesKept
    <3> QED BY SMTT(40), <1>0, <3>1, <3>2, <3>3
  <2>2. CASE /\ m[1] \in Nat /\ m[2] \in Nat /\ m[1] <= gate'.handed
             /\ (sess'.up => m[2] <= sess'.sent) /\ Divides(m[1], m[2])
    BY <2>2, DividesKept
  <2> QED BY <1>1, <2>1, <2>2
<1> QED BY <1>1 DEF CommitsAreAccounted

\* Positions keep their order as the session goes on.
LEMMA PositionsKept ==
  ASSUME SetLaws, Typed, Shrinks, LogGrows, PositionsAreDelivered,
         offsetFile' = offsetFile, gate'.confirmable = gate.confirmable,
         sess'.up => sess.up /\ sess'.sent \in Nat /\ sess'.sent >= sess.sent,
         \A m \in Marks' : m \in Marks \/ (sess.up /\ m[2] \in Nat /\ m[2] >= sess.sent)
  PROVE  PositionsAreDelivered'
<1> TypeOK
  BY DEF Typed
<1>0. sess.sent \in Nat /\ \A p : Rank(p) \in Nat
  BY SMTT(40), RankType DEF TypeOK
<1>1. \A p : Rank(p)' = Rank(p)
  BY LogFixed DEF LogGrows
<1>2. Settled \subseteq Settled' /\ Boundaries \subseteq Boundaries'
  BY SettledKept, BoundariesKept
<1>3. \A p \in {offsetFile', gate'.confirmable} :
        p \in Boundaries' \cup {NoPosition} /\ Rank(p)' \in Settled'
  BY <1>1, <1>2 DEF PositionsAreDelivered
<1>4. gate'.confirmable # NoPosition => Rank(offsetFile)' <= Rank(gate.confirmable)'
  BY <1>1 DEF PositionsAreDelivered
<1>5. \A m \in Marks' : Rank(offsetFile)' <= m[2] /\ Rank(gate.confirmable)' <= m[2]
  <2> SUFFICES ASSUME NEW m \in Marks'
               PROVE  Rank(offsetFile) <= m[2] /\ Rank(gate.confirmable) <= m[2]
    BY <1>1
  <2>1. CASE m \in Marks
    BY <2>1 DEF PositionsAreDelivered
  <2>2. CASE sess.up /\ m[2] \in Nat /\ m[2] >= sess.sent
    BY SMTT(40), <1>0, <2>2 DEF PositionsAreDelivered
  <2> QED BY <2>1, <2>2
<1>6. sess'.up => Rank(offsetFile)' <= sess'.sent /\ Rank(gate.confirmable)' <= sess'.sent
  <2>1. sess'.up => Rank(offsetFile) <= sess.sent /\ Rank(gate.confirmable) <= sess.sent
    BY DEF PositionsAreDelivered
  <2> QED BY SMTT(40), <1>0, <1>1, <2>1
<1> QED BY <1>3, <1>4, <1>5, <1>6 DEF PositionsAreDelivered

\* What the session has passed stays accounted for.
LEMMA StreamedKept ==
  ASSUME SetLaws, Typed, WaitingIsCounted, Shrinks, StreamedIsAccounted,
         sess'.up => sess.up /\ sess'.sent = sess.sent /\ NextRow' = NextRow
  PROVE  StreamedIsAccounted'
<1> TypeOK
  BY DEF Typed
<1> SUFFICES ASSUME sess'.up
             PROVE  /\ \A t \in 1 .. sess.sent : \A i \in DOMAIN Rows(t)' :
                         Contract!Owed(t, i)' => Accounted(t, i, Emitted)'
                    /\ \A i \in 1 .. NextRow - 1 :
                         Contract!Owed(sess.sent + 1, i)' => Accounted(sess.sent + 1, i, Emitted)'
  BY DEF StreamedIsAccounted
<1>1. \A t : Rows(t)' = Rows(t)
  BY LogFixed DEF Shrinks
<1>2. ASSUME NEW t \in 1 .. sess.sent, NEW i \in DOMAIN Rows(t)', Contract!Owed(t, i)'
      PROVE  Accounted(t, i, Emitted)'
  <2>1. Contract!Owed(t, i) /\ i \in DOMAIN Rows(t)
    BY <1>1, <1>2 DEF Shrinks
  <2>2. Accounted(t, i, Emitted)
    BY <2>1 DEF StreamedIsAccounted
  <2> QED BY <1>2, <2>2, LastKept
<1>3. ASSUME NEW i \in 1 .. NextRow - 1, Contract!Owed(sess.sent + 1, i)'
      PROVE  Accounted(sess.sent + 1, i, Emitted)'
  <2>0. PICK u : u = sess.sent + 1
    OBVIOUS
  <2>1. u = sess'.sent + 1
    BY <2>0
  <2>2. Contract!Owed(u, i)'
    BY <1>3, <2>1 DEF Contract!Owed
  <2>3. Contract!Owed(u, i)
    BY <2>2 DEF Shrinks
  <2>4. Accounted(u, i, Emitted)
    BY <2>0, <2>3 DEF StreamedIsAccounted
  <2>5. Accounted(u, i, Emitted)'
    BY <2>2, <2>4, LastKept
  <2> QED BY <2>1, <2>5 DEF Accounted
<1> QED BY <1>2, <1>3

\* A start skips a prefix of the log for good.
LEMMA SkippedKept ==
  ASSUME Typed, LogGrows, SkippedIsPrefix, skipped' = skipped
  PROVE  SkippedIsPrefix'
<1> TypeOK
  BY DEF Typed
<1>1. \A n \in 0 .. committed : n \in 0 .. committed'
  BY SMTT(40), MySQLAssumption DEF TypeOK, LogGrows
<1> QED BY <1>1 DEF SkippedIsPrefix

\* The order of the entries depends on nothing else.
LEMMA OrderKept ==
  ASSUME LogGrows, CommitsInOrder, gate'.commits = gate.commits
  PROVE  CommitsInOrder'
<1>1. \A p : Rank(p)' = Rank(p)
  BY LogFixed DEF LogGrows
<1> QED BY <1>1 DEF CommitsInOrder

\* The gate's entries stay boundaries and marks.
LEMMA MarksKept ==
  ASSUME Typed, LogGrows, CommitsAreAccounted, gate'.commits = gate.commits
  PROVE  /\ Marks' = Marks
         /\ \A k \in 1 .. Len(gate'.commits) : gate'.commits[k].pos \in Boundaries'
<1> TypeOK
  BY DEF Typed
<1>1. \A p : Rank(p)' = Rank(p)
  BY LogFixed DEF LogGrows
<1>2. Marks' = Marks
  BY <1>1 DEF Marks
<1>3. Boundaries \subseteq Boundaries'
  BY BoundariesKept
<1>4. \A k \in 1 .. Len(gate'.commits) : gate'.commits[k].pos \in Boundaries'
  BY <1>3 DEF CommitsAreAccounted
<1> QED BY <1>2, <1>4

\* The listener stands still while the publisher or the server goes on.
LEMMA SessionKept ==
  ASSUME Typed, SessionIsSound, LogGrows,
         UNCHANGED <<sess, handing, gate, currentFile, txn, txnRows, proc>>,
         Waiting' \subseteq Waiting,
         proc = "up" \/ UNCHANGED <<chan, cur, pub, ctxDone, acked>>
  PROVE  SessionIsSound'
<1> TypeOK
  BY DEF Typed
<1>1. Entry' = Entry /\ NextRow' = NextRow
  BY DEF Entry, NextRow, LogGrows
<1>2. /\ Boundary(sess.sent)' = Boundary(sess.sent) /\ Inside(sess.sent, 1)' = Inside(sess.sent, 1)
      /\ EmittedBefore(sess.sent + 1, NextRow)' = EmittedBefore(sess.sent + 1, NextRow)
  BY <1>1 DEF Boundary, Rotations, Inside, EmittedBefore, Rows, LogGrows
<1>3. proc' = "down" => ProcessIsDown'
  BY DEF SessionIsSound, ProcessIsDown
<1>4. /\ ~sess'.up => sess' = NoSession /\ ~handing'
      /\ sess'.sent <= committed'
      /\ sess'.at # 0 => sess'.sent < committed'
  <2>1. sess.sent \in Nat /\ committed \in Nat /\ committed' \in Nat /\ committed' >= committed
    BY SMTT(40), MySQLAssumption DEF TypeOK, LogGrows
  <2>2. ~sess.up => sess = NoSession /\ ~handing
    BY DEF SessionIsSound
  <2>3. sess.sent <= committed /\ (sess.at # 0 => sess.sent < committed)
    BY DEF SessionIsSound
  <2>4. ~sess'.up => sess' = NoSession /\ ~handing'
    BY <2>2 DEF NoSession
  <2> QED BY SMTT(40), <2>1, <2>3, <2>4
<1>5. sess'.up => currentFile' = Boundary(sess.sent)'.file
  BY <1>2 DEF SessionIsSound
<1>6. sess'.up => \A c \in Waiting' : Precedes(c, <<sess'.sent + 1, NextRow'>>)
  BY <1>1 DEF SessionIsSound
<1>7. sess'.at # 0 =>
        /\ sess'.at <= Len(Entry'.rows) + 1 /\ Entry'.form # "rotate"
        /\ txn' = Inside(sess.sent, 1)'
        /\ Entry'.form = "packed" => txnRows' = Cardinality(EmittedBefore(sess.sent + 1, NextRow)')
  BY <1>1, <1>2 DEF SessionIsSound
<1>8. handing' => sess'.at # 0 /\ sess'.at <= Len(Entry'.rows) /\ Entry'.rows[sess'.at] # "filtered"
  BY <1>1 DEF SessionIsSound
<1> QED BY <1>3, <1>4, <1>5, <1>6, <1>7, <1>8 DEF SessionIsSound

-----------------------------------------------------------------------------
(***************************************************************************)
(* The steps that leave the listener alone.                                *)
(***************************************************************************)
\* A step of the publisher, of NATS or of main keeps the invariant.
LEMMA ListenerWaits ==
  ASSUME SetLaws, Typed, Typed', Sound, UNCHANGED listenerVars,
         proc = "up" \/ \E id \in remembered : WindowExpires(id) /\ acked' = acked,
         \/ PublishAcked /\ acked' = acked + 1
         \/ /\ acked' = acked
            /\ \/ PublisherStep \/ NatsConnect \/ NatsDisconnect \/ NatsClosed
               \/ CancelContext \/ \E id \in remembered : WindowExpires(id)
  PROVE  Sound'
<1> SUFFICES ASSUME TypeOK, TypeOK', IInv
             PROVE  IInv'
  BY DEF Typed, Sound
<1>0. UNCHANGED <<binlog, committed, offsetFile, sess, handing, gate, currentFile, txn, txnRows, proc, skipped>>
  BY DEF listenerVars, dbVars, handlerVars
<1>1. PublisherFrame
  BY <1>0 DEF PublisherFrame, IInv
<1>2. Shrinks /\ Descends /\ WaitingIsCounted' /\ QueueInOrder' /\ MessagesAreChanges'
  BY <1>1, PublisherKeeps DEF PublisherGoal
<1>3. LogGrows
  BY SMTT(40), <1>0 DEF LogGrows, TypeOK
<1>4. EventsAreChanges'
  BY <1>2, <1>3, EventsKept DEF LogGrows, IInv
<1>5. SessionIsSound'
  <2>1. proc = "up" \/ UNCHANGED <<chan, cur, pub, ctxDone, acked>>
    BY DEF WindowExpires
  <2> QED BY <1>0, <1>2, <1>3, <2>1, SessionKept DEF IInv, Shrinks
<1>6. StreamedIsAccounted'
  BY <1>0, <1>2, StreamedKept DEF IInv, NextRow
<1>7. /\ Marks' = Marks /\ gate'.commits = gate.commits
      /\ \A k \in 1 .. Len(gate'.commits) : gate'.commits[k].pos \in Boundaries'
  BY <1>0, <1>3, MarksKept DEF IInv
<1>8. gate'.handed \in Nat /\ gate'.handed >= gate.handed /\ sess'.sent \in Nat /\ sess'.sent >= sess.sent
  BY SMTT(40), <1>0, GateFields DEF TypeOK
<1>9. CommitsAreAccounted'
  BY <1>0, <1>2, <1>7, <1>8, CommitsKept DEF IInv
<1>10. CommitsInOrder'
  BY <1>3, <1>7, OrderKept DEF IInv
<1>11. PositionsAreDelivered'
  BY <1>0, <1>2, <1>3, <1>7, <1>8, PositionsKept DEF IInv
<1>12. QueueHasNoGaps'
  BY <1>2, GapsKept DEF IInv
<1>13. SkippedIsPrefix'
  BY <1>0, <1>3, SkippedKept DEF IInv
<1> QED BY <1>2, <1>4, <1>5, <1>6, <1>9, <1>10, <1>11, <1>12, <1>13 DEF IInv

-----------------------------------------------------------------------------
(***************************************************************************)
(* The steps of the listener that emit nothing.                            *)
(***************************************************************************)
\* The publisher's part of the invariant in the next state.
QueueStands ==
  /\ Shrinks /\ Descends /\ WaitingIsCounted' /\ QueueInOrder' /\ MessagesAreChanges'
  /\ LogGrows /\ skipped' = skipped

\* A marker on the bus is nothing the publisher would publish.
LEMMA QueueStill ==
  ASSUME Typed, Sound, LogGrows, UNCHANGED <<publisherVars, skipped, acked>>,
         UNCHANGED chan \/ HandleEvent(NoEvent), Emitted' = Emitted
  PROVE  QueueStands
<1> TypeOK /\ IInv
  BY DEF Typed, Sound
<1>0. UNCHANGED <<cur, pub, ctxDone, stream, remembered>>
  BY DEF publisherVars
<1>1. Queue' = Queue
  <2>1. CASE UNCHANGED chan
    BY <1>0, <2>1, QueueUnchanged
  <2>2. CASE HandleEvent(NoEvent)
    BY <1>0, <2>2, QueuePush, KindFacts DEF TypeOK
  <2> QED BY <2>1, <2>2
<1>2. Waiting' = Waiting /\ Stored' = Stored /\ (Halted' <=> Halted)
  BY <1>0, <1>1 DEF Waiting, Stored, Halted
<1>3. \A t, i : Contract!Owed(t, i)' <=> Contract!Owed(t, i)
  BY DEF Contract!Owed, LogGrows
<1>4. Shrinks
  BY <1>2, <1>3 DEF Shrinks, LogGrows
<1>5. Descends
  BY <1>1 DEF Descends
<1>6. WaitingIsCounted'
  BY <1>2 DEF IInv, WaitingIsCounted
<1>7. MessagesAreChanges'
  BY <1>0, MessagesKept DEF IInv, LogGrows
<1>8. QueueInOrder'
  <2>1. CASE UNCHANGED chan
    BY <1>0, <2>1 DEF IInv, QueueInOrder
  <2>2. CASE HandleEvent(NoEvent) /\ ~UNCHANGED chan
    <3>1. pub # "exited" /\ chan' = Append(chan, NoEvent)
      BY <2>2 DEF HandleEvent
    <3>2. /\ Len(chan) \in Nat /\ Len(chan') = Len(chan) + 1
          /\ \A k \in 1 .. Len(chan) : chan'[k] = chan[k]
          /\ chan'[Len(chan) + 1] = NoEvent
      BY SMTT(40), <3>1, KindFacts DEF TypeOK, PubTypeOK
    <3>3. \A k \in 1 .. Len(chan') : IsPublishable(chan'[k]) => k \in 1 .. Len(chan) /\ chan'[k] = chan[k]
      BY SMTT(40), <3>2, KindFacts
    <3>4. \A j, k \in 1 .. Len(chan') :
            j < k /\ IsPublishable(chan'[j]) /\ IsPublishable(chan'[k])
              => Precedes(chan'[j].change, chan'[k].change)
      BY <3>3 DEF IInv, QueueInOrder
    <3>5. \A k \in 1 .. Len(chan') :
            cur' # NoEvent /\ IsPublishable(chan'[k]) => Precedes(cur'.change, chan'[k].change)
      BY <1>0, <3>3 DEF IInv, QueueInOrder
    <3>6. /\ cur' = NoEvent \/ (IsPublishable(cur') /\ pub' # "exited")
          /\ pub' = "wait" => cur' # NoEvent
          /\ pub' \in {"await", "exited"} => cur' = NoEvent
      BY <1>0, <3>1 DEF IInv, QueueInOrder
    <3>7. pub' # "exited"
      BY <1>0, <3>1
    <3> QED BY <3>4, <3>5, <3>6, <3>7 DEF QueueInOrder, Precedes, IsPublishable
  <2> QED BY <2>1, <2>2
<1> QED BY <1>4, <1>5, <1>6, <1>7, <1>8 DEF QueueStands

\* What is left to show once the publisher's part is known.
LEMMA ListenerMoves ==
  ASSUME Typed, Typed', Sound, QueueStands, SessionIsSound', StreamedIsAccounted',
         CommitsAreAccounted', CommitsInOrder', PositionsAreDelivered'
  PROVE  Sound'
<1> SUFFICES ASSUME TypeOK, TypeOK', IInv
             PROVE  IInv'
  BY DEF Typed, Sound
<1>1. EventsAreChanges'
  BY EventsKept DEF QueueStands, LogGrows, IInv
<1>2. QueueHasNoGaps'
  BY GapsKept DEF QueueStands, IInv
<1>3. SkippedIsPrefix'
  BY SkippedKept DEF QueueStands, IInv
<1> QED BY <1>1, <1>2, <1>3 DEF IInv, QueueStands

\* A step that hands the gate no boundary.
LEMMA EntriesStand ==
  ASSUME SetLaws, Typed, Typed', Sound, QueueStands, SessionIsSound', StreamedIsAccounted',
         offsetFile' = offsetFile, gate'.commits = gate.commits,
         gate'.confirmable = gate.confirmable, gate'.handed >= gate.handed,
         sess'.up => sess.up /\ sess'.sent >= sess.sent
  PROVE  Sound'
<1> SUFFICES ASSUME TypeOK, TypeOK', IInv
             PROVE  IInv'
  BY DEF Typed, Sound
<1>1. gate'.handed \in Nat /\ sess'.sent \in Nat
  BY SMTT(40), GateFields DEF TypeOK
<1>2. /\ Marks' = Marks
      /\ \A k \in 1 .. Len(gate'.commits) : gate'.commits[k].pos \in Boundaries'
  BY MarksKept DEF IInv, QueueStands
<1>3. CommitsAreAccounted'
  BY <1>1, <1>2, CommitsKept DEF IInv, QueueStands
<1>4. CommitsInOrder'
  BY OrderKept DEF IInv, QueueStands
<1>5. PositionsAreDelivered'
  BY <1>1, <1>2, PositionsKept DEF IInv, QueueStands
<1> QED BY <1>3, <1>4, <1>5, ListenerMoves DEF Sound

\* The server writes an entry.
LEMMA DbCommitKeeps ==
  ASSUME SetLaws, Typed, Typed', Sound, DbCommit
  PROVE  Sound'
<1> SUFFICES ASSUME TypeOK, TypeOK', IInv
             PROVE  IInv'
  BY DEF Typed, Sound
<1>0. /\ UNCHANGED <<chan, publisherVars, binlog, offsetFile, sess, handing, gate, acked, proc, skipped>>
      /\ UNCHANGED <<currentFile, txn, txnRows>>
  BY DEF DbCommit, pubVars, publisherVars, handlerVars
<1>1. LogGrows
  BY SMTT(40), <1>0, MySQLAssumption DEF DbCommit, LogGrows, TypeOK
<1>2. Emitted' = Emitted /\ NextRow' = NextRow
  BY <1>0 DEF Emitted, NextRow
<1>3. QueueStands
  BY <1>0, <1>1, <1>2, QueueStill
<1>4. SessionIsSound'
  <2>1. UNCHANGED <<chan, cur, pub, ctxDone, acked>>
    BY <1>0 DEF publisherVars
  <2> QED BY <1>0, <1>1, <1>3, <2>1, SessionKept DEF IInv, QueueStands, Shrinks
<1>5. StreamedIsAccounted'
  BY <1>0, <1>2, <1>3, StreamedKept DEF IInv, QueueStands
<1>6. gate'.handed >= gate.handed /\ sess'.sent >= sess.sent
  BY SMTT(40), <1>0, GateFields DEF TypeOK
<1> QED BY <1>0, <1>3, <1>4, <1>5, <1>6, EntriesStand DEF Sound

\* Canal stops with an error.
LEMMA CanalFailsKeeps ==
  ASSUME SetLaws, Typed, Typed', Sound, CanalFails
  PROVE  Sound'
<1> SUFFICES ASSUME TypeOK, TypeOK', IInv
             PROVE  IInv'
  BY DEF Typed, Sound
<1>0. /\ UNCHANGED <<chan, publisherVars, binlog, committed, offsetFile, handing, gate, acked, proc, skipped>>
      /\ sess' = NoSession /\ proc = "up" /\ ~handing
  BY DEF CanalFails, pubVars, publisherVars, dbVars, Streaming, HandlerIdle
<1>1. LogGrows
  BY SMTT(40), <1>0 DEF LogGrows, TypeOK
<1>2. Emitted' = Emitted
  BY <1>0 DEF Emitted
<1>3. QueueStands
  BY <1>0, <1>1, <1>2, QueueStill
<1>4. SessionIsSound'
  <2>1. sess'.sent = 0 /\ sess'.at = 0 /\ ~sess'.up /\ sess' = NoSession /\ proc' # "down" /\ ~handing'
    BY <1>0 DEF NoSession
  <2>2. 0 <= committed'
    BY SMTT(40), <1>0 DEF TypeOK
  <2> QED BY <2>1, <2>2 DEF SessionIsSound
<1>5. StreamedIsAccounted'
  BY <1>0 DEF StreamedIsAccounted, NoSession
<1>6. gate'.handed >= gate.handed /\ ~sess'.up
  BY SMTT(40), <1>0, GateFields DEF TypeOK, NoSession
<1> QED BY <1>0, <1>3, <1>4, <1>5, <1>6, EntriesStand DEF Sound

\* A change that comes before a place comes before any later place.
LEMMA PrecedesLater ==
  ASSUME Typed, NEW c \in Waiting, NEW s \in Nat, NEW i \in Nat, NEW t \in Nat, NEW j \in Nat,
         Precedes(c, <<s, i>>), s < t \/ (s = t /\ i <= j)
  PROVE  Precedes(c, <<t, j>>)
<1> TypeOK
  BY DEF Typed
<1>1. c[1] \in Nat /\ c[2] \in Nat
  BY WaitingType
<1> QED BY SMTT(40), <1>1 DEF Precedes

\* The session passes a row: one that is filtered, or one the gate now counts.
LEMMA RowPassed ==
  ASSUME SetLaws, Typed, Typed', Sound, QueueStands, Streaming, committed' = committed,
         sess' = [sess EXCEPT !.at = @ + 1], ~handing', sess.at # 0, sess.at <= Len(Entry.rows),
         UNCHANGED <<currentFile, txn, txnRows, proc>>,
         handing \/ Entry.rows[sess.at] = "filtered"
  PROVE  SessionIsSound' /\ StreamedIsAccounted'
<1> TypeOK /\ TypeOK' /\ IInv
  BY DEF Typed, Sound
<1> DEFINE t == sess.sent + 1
           i == sess.at
<1>a. /\ LogType /\ t \in 1 .. committed /\ t \in 1 .. MaxEntries /\ i \in Nat /\ sess.sent \in Nat
      /\ Entry.rows = Rows(t) /\ t \in Nat
  BY SMTT(40), SessionFacts DEF IInv
<1>b. sess'.up /\ sess.up /\ sess'.sent = sess.sent /\ sess'.at = i + 1 /\ proc = "up"
  BY DEF Streaming, TypeOK
<1>c. /\ Len(Rows(t)) \in Nat /\ DOMAIN Rows(t) = 1 .. Len(Rows(t))
  BY <1>a, EntryFacts
<1>d. binlog' = binlog /\ committed' = committed
  BY DEF QueueStands, LogGrows
<1>e. Entry' = Entry /\ \A u : Rows(u)' = Rows(u)
  BY <1>b, <1>d, LogFixed DEF Entry
<1>1. NextRow' = i + 1 /\ NextRow \in {i, i + 1} /\ (handing => NextRow = i + 1) /\ (~handing => NextRow = i)
  BY SMTT(40), <1>a, <1>b DEF NextRow
<1>2. /\ currentFile = Boundary(sess.sent).file /\ txn = Inside(sess.sent, 1)
      /\ sess.sent < committed /\ Entry.form # "rotate"
      /\ \A c \in Waiting : Precedes(c, <<t, NextRow>>)
      /\ Entry.form = "packed" => txnRows = Cardinality(EmittedBefore(t, NextRow))
  BY <1>b DEF IInv, SessionIsSound
<1>3. /\ Boundary(sess.sent)' = Boundary(sess.sent) /\ Inside(sess.sent, 1)' = Inside(sess.sent, 1)
      /\ EmittedBefore(sess.sent + 1, NextRow)' = EmittedBefore(t, i + 1)
  BY <1>b, <1>d, <1>1 DEF Boundary, Rotations, Inside, EmittedBefore, Rows
<1>4. Cardinality(EmittedBefore(t, i + 1)) = Cardinality(EmittedBefore(t, NextRow))
  <2>1. CASE handing
    BY <1>1, <2>1
  <2>2. CASE ~handing /\ Rows(t)[i] = "filtered"
    <3>1. i >= 1
      BY SMTT(40), <1>a
    <3>2. /\ Cardinality(EmittedBefore(t, i)) \in Nat
          /\ Cardinality(EmittedBefore(t, i + 1)) =
               Cardinality(EmittedBefore(t, i)) + (IF Rows(t)[i] # "filtered" THEN 1 ELSE 0)
      BY <1>a, <3>1, EmittedBeforeFacts
    <3>3. Cardinality(EmittedBefore(t, i + 1)) = Cardinality(EmittedBefore(t, i)) + 0
      BY <2>2, <3>2
    <3> QED BY SMTT(40), <1>1, <2>2, <3>2, <3>3
  <2> QED BY <1>a, <2>1, <2>2
<1>5. \A c \in Waiting' : Precedes(c, <<t, i + 1>>)
  <2> SUFFICES ASSUME NEW c \in Waiting' PROVE Precedes(c, <<t, i + 1>>)
    OBVIOUS
  <2>1. c \in Waiting
    BY DEF QueueStands, Shrinks
  <2>2. NextRow \in Nat /\ i + 1 \in Nat /\ NextRow <= i + 1
    BY SMTT(40), <1>a, <1>1
  <2>3. Precedes(c, <<t, NextRow>>)
    BY <1>2, <2>1
  <2> HIDE DEF t, i
  <2> QED BY <1>a, <2>1, <2>2, <2>3, PrecedesLater
<1>6. SessionIsSound'
  <2>1. sess'.sent <= committed' /\ sess'.sent < committed'
    BY SMTT(40), <1>a, <1>b, <1>d, <1>2 DEF TypeOK
  <2>2. sess'.at # 0 /\ sess'.at <= Len(Entry'.rows) + 1 /\ Entry'.form # "rotate"
    BY SMTT(40), <1>a, <1>b, <1>c, <1>e, <1>2
  <2>3. currentFile' = Boundary(sess.sent)'.file /\ txn' = Inside(sess.sent, 1)'
    BY <1>2, <1>3
  <2>4. \A c \in Waiting' : Precedes(c, <<sess'.sent + 1, NextRow'>>)
    BY <1>b, <1>1, <1>5
  <2>5. Entry'.form = "packed" => txnRows' = Cardinality(EmittedBefore(sess.sent + 1, NextRow)')
    BY <1>e, <1>2, <1>3, <1>4
  <2>6. proc' # "down" /\ sess'.up /\ ~handing'
    BY <1>b
  <2> QED BY <2>1, <2>2, <2>3, <2>4, <2>5, <2>6 DEF SessionIsSound
<1>7. StreamedIsAccounted'
  <2>0. \A u, j : Contract!Owed(u, j)' => Contract!Owed(u, j)
    BY DEF QueueStands, Shrinks
  <2>1. ASSUME NEW u \in Nat, NEW j \in Nat, Contract!Owed(u, j)',
               (u \in 1 .. sess.sent /\ j \in DOMAIN Rows(u)) \/ (u = t /\ j \in 1 .. i)
        PROVE  Accounted(u, j, Emitted)'
    <3>1. Contract!Owed(u, j)
      BY <2>0, <2>1
    <3>2. u = t => j \in 1 .. NextRow - 1
      <4> SUFFICES ASSUME u = t, ~handing PROVE j # i
        BY SMTT(40), <1>a, <1>1, <2>1
      <4>1. Rows(t)[i] = "filtered"
        BY <1>a
      <4> QED BY <1>a, <3>1, <4>1, OwedFacts DEF Deliverable
    <3>3. Accounted(u, j, Emitted)
      BY <1>b, <2>1, <3>1, <3>2 DEF IInv, StreamedIsAccounted
    <3> QED BY <2>1, <3>3, LastKept DEF IInv, QueueStands
  <2>2. \A u \in 1 .. sess'.sent : \A j \in DOMAIN Rows(u)' :
          Contract!Owed(u, j)' => Accounted(u, j, Emitted)'
    <3> SUFFICES ASSUME NEW u \in 1 .. sess.sent, NEW j \in DOMAIN Rows(u), Contract!Owed(u, j)'
                 PROVE  Accounted(u, j, Emitted)'
      BY <1>b, <1>e
    <3>1. u \in 1 .. MaxEntries /\ u \in Nat
      BY SMTT(40), <1>a, SessionFacts DEF IInv
    <3>2. j \in Nat
      BY SMTT(40), <1>a, <3>1, EntryFacts
    <3> QED BY <2>1, <3>1, <3>2
  <2>3. \A j \in 1 .. NextRow' - 1 :
          Contract!Owed(sess.sent + 1, j)' => Accounted(sess.sent + 1, j, Emitted)'
    <3> SUFFICES ASSUME NEW j \in 1 .. i, Contract!Owed(sess.sent + 1, j)'
                 PROVE  Accounted(sess.sent + 1, j, Emitted)'
      BY SMTT(40), <1>a, <1>1
    <3>1. PICK u : u = t
      OBVIOUS
    <3>2. u = sess'.sent + 1 /\ u \in Nat /\ j \in Nat
      BY SMTT(40), <1>a, <1>b, <3>1
    <3>3. Contract!Owed(u, j)'
      BY <3>2 DEF Contract!Owed
    <3>4. Accounted(u, j, Emitted)'
      BY <2>1, <3>1, <3>2, <3>3
    <3> QED BY <3>2, <3>4 DEF Accounted
  <2> QED BY <2>2, <2>3 DEF StreamedIsAccounted
<1> QED BY <1>6, <1>7

\* Canal leaves a row out.
LEMMA FilteredRowKeeps ==
  ASSUME SetLaws, Typed, Typed', Sound, FilteredRow
  PROVE  Sound'
<1> SUFFICES ASSUME TypeOK, TypeOK', IInv
             PROVE  IInv'
  BY DEF Typed, Sound
<1>0. /\ UNCHANGED <<chan, publisherVars, binlog, committed, offsetFile, handing, gate, acked, skipped>>
      /\ UNCHANGED <<currentFile, txn, txnRows, proc>>
      /\ sess' = [sess EXCEPT !.at = @ + 1]
  BY DEF FilteredRow, pubVars, publisherVars, dbVars, restVars, handlerVars
<1>1. /\ Streaming /\ ~handing /\ sess.at # 0 /\ sess.at <= Len(Entry.rows)
      /\ Entry.rows[sess.at] = "filtered"
  BY DEF FilteredRow, AtRow
<1>2. LogGrows
  BY SMTT(40), <1>0 DEF LogGrows, TypeOK
<1>3. Emitted' = Emitted
  BY <1>0 DEF Emitted
<1>4. QueueStands
  BY <1>0, <1>2, <1>3, QueueStill
<1>5. SessionIsSound' /\ StreamedIsAccounted'
  BY <1>0, <1>1, <1>4, RowPassed
<1>6. gate'.handed >= gate.handed /\ sess.up /\ sess'.sent >= sess.sent
  BY SMTT(40), <1>0, <1>1, GateFields DEF TypeOK, Streaming
<1> QED BY <1>0, <1>4, <1>5, <1>6, EntriesStand DEF Sound

\* The gate counts the event the bus has taken.
LEMMA EmitHandKeeps ==
  ASSUME SetLaws, Typed, Typed', Sound, EmitHand
  PROVE  Sound'
<1> SUFFICES ASSUME TypeOK, TypeOK', IInv
             PROVE  IInv'
  BY DEF Typed, Sound
<1>0. /\ UNCHANGED <<chan, publisherVars, binlog, committed, offsetFile, acked, skipped>>
      /\ UNCHANGED <<currentFile, txn, txnRows, proc>>
      /\ sess' = [sess EXCEPT !.at = @ + 1] /\ Streaming /\ handing /\ ~handing'
  BY DEF EmitHand, pubVars, publisherVars, dbVars, restVars, handlerVars
<1>1. sess.at # 0 /\ sess.at <= Len(Entry.rows)
  BY <1>0 DEF IInv, SessionIsSound
<1>2. LogGrows
  BY SMTT(40), <1>0 DEF LogGrows, TypeOK
<1>3. /\ gate'.handed = gate.handed + 1 /\ gate'.commits = gate.commits
      /\ gate'.confirmable = gate.confirmable /\ gate.handed \in Nat
  BY HandFacts, GateFields DEF EmitHand, TypeOK
<1>4. Emitted' = Emitted
  BY SMTT(40), <1>0, <1>3 DEF Emitted
<1>5. QueueStands
  BY <1>0, <1>2, <1>4, QueueStill
<1>6. SessionIsSound' /\ StreamedIsAccounted'
  BY <1>0, <1>1, <1>5, RowPassed
<1>7. gate'.handed >= gate.handed /\ sess.up /\ sess'.sent >= sess.sent
  BY SMTT(40), <1>0, <1>3 DEF TypeOK, Streaming
<1> QED BY <1>0, <1>3, <1>5, <1>6, <1>7, EntriesStand DEF Sound

\* The session has passed the first t entries.
Passed(t) ==
  /\ \A c \in Waiting : c[1] <= t
  /\ \A u \in 1 .. t : \A i \in DOMAIN Rows(u) : Contract!Owed(u, i) => Accounted(u, i, Emitted)

\* The count handed so far divides what waits at a boundary just reached.
LEMMA PassedDivides ==
  ASSUME SetLaws, Typed, ~handing, NEW t \in Nat, Passed(t)
  PROVE  Divides(gate.handed, t)
<1> TypeOK
  BY DEF Typed
<1>1. Emitted = gate.handed /\ gate.handed \in Nat
  BY EmittedType
<1>2. WaitingAfter(t) = {}
  BY SMTT(40), WaitingType DEF Passed, WaitingAfter
<1>3. Cardinality(WaitingAfter(t)) = Emitted - gate.handed
  BY SMTT(40), <1>1, <1>2, CountEmpty
<1> QED BY SMTT(40), <1>1, <1>3 DEF Divides, Passed

\* What Committed does to the marks.
LEMMA CommittedMarks ==
  ASSUME SetLaws, Typed, Typed', Sound, LogGrows, NEW t \in 0 .. committed,
         gate' = Committed(gate, Boundary(t)), sess.up, sess.sent <= t
  PROVE  /\ gate'.handed = gate.handed /\ gate'.confirmable = gate.confirmable
         /\ \A k \in 1 .. Len(gate'.commits) : gate'.commits[k].pos \in Boundaries'
         /\ \A m \in Marks' : m \in Marks \/ m = <<gate.handed, t>>
         /\ CommitsInOrder'
<1> TypeOK /\ TypeOK' /\ IInv
  BY DEF Typed, Sound
<1>0. t \in 0 .. MaxEntries /\ t \in Nat /\ sess.sent \in Nat /\ gate.handed \in Nat
  BY SMTT(40), MySQLAssumption, GateFields DEF TypeOK
<1>1. Boundary(t) \in BinlogPosition /\ Resumable(Boundary(t)) /\ Rank(Boundary(t)) = t
  BY <1>0, BoundaryType, RankOfBoundary
<1> DEFINE g == gate.commits
           h == gate'.commits
           last == Len(h)
<1>2. /\ gate'.handed = gate.handed /\ gate'.confirmable = gate.confirmable
      /\ last \in {Len(g), Len(g) + 1} /\ last > 0
      /\ \A k \in 1 .. last - 1 : h[k] = g[k]
      /\ h[last].lastHanded = gate.handed /\ h[last].pos = Boundary(t)
      /\ last = Len(g) => g[last].lastHanded = gate.handed
      /\ last = Len(g) + 1 /\ Len(g) > 0 => g[Len(g)].lastHanded # gate.handed
  <2> DEFINE c == Committed(gate, Boundary(t))
             n == Len(c.commits)
  <2>0. gate \in CommitGateType
    BY DEF TypeOK
  <2>1. /\ c.handed = gate.handed /\ c.confirmable = gate.confirmable
        /\ n \in {Len(g), Len(g) + 1} /\ n > 0
        /\ \A k \in 1 .. n - 1 : c.commits[k] = g[k]
        /\ c.commits[n].lastHanded = gate.handed /\ c.commits[n].pos = Boundary(t)
        /\ n = Len(g) => g[n].lastHanded = gate.handed
        /\ n = Len(g) + 1 /\ Len(g) > 0 => g[Len(g)].lastHanded # gate.handed
    BY SMTT(40), <1>1, <2>0, CommittedFacts
  <2>2. c = gate'
    OBVIOUS
  <2> HIDE DEF c
  <2> QED BY SMTT(40), <2>1, <2>2
<1>3. /\ Len(g) \in Nat /\ last \in Nat
      /\ \A k \in 1 .. Len(g) : g[k].lastHanded \in Nat /\ Rank(g[k].pos) \in 0 .. MaxEntries
  BY GateFields, RankType DEF TypeOK
<1>4. \A p : Rank(p)' = Rank(p)
  BY LogFixed DEF LogGrows
<1>5. Boundaries \subseteq Boundaries' /\ Boundary(t) \in Boundaries
  BY BoundariesKept DEF Boundaries
<1>6. \A k \in 1 .. Len(g) : /\ g[k].pos \in Boundaries /\ g[k].lastHanded <= gate.handed
                             /\ Rank(g[k].pos) <= sess.sent
  <2> SUFFICES ASSUME NEW k \in 1 .. Len(g)
               PROVE  /\ g[k].pos \in Boundaries /\ g[k].lastHanded <= gate.handed
                      /\ Rank(g[k].pos) <= sess.sent
    OBVIOUS
  <2>1. <<g[k].lastHanded, Rank(g[k].pos)>> \in Marks
    BY DEF Marks
  <2> QED BY <2>1 DEF IInv, CommitsAreAccounted
<1>7. \A j, k \in 1 .. Len(g) : j < k => /\ g[j].lastHanded < g[k].lastHanded
                                         /\ Rank(g[j].pos) <= Rank(g[k].pos)
  BY DEF IInv, CommitsInOrder
<1> HIDE DEF g, h, last
<1>8. \A k \in 1 .. last : (k \in 1 .. Len(g) /\ k < last /\ h[k] = g[k]) \/ k = last
  <2>1. last \in {Len(g), Len(g) + 1} /\ \A k \in 1 .. last - 1 : h[k] = g[k]
    BY <1>2
  <2>2. Len(g) \in Nat /\ last \in Nat
    BY <1>3
  <2>3. \A k \in 1 .. last : (k \in 1 .. Len(g) /\ k < last /\ k \in 1 .. last - 1) \/ k = last
    BY SMTT(40), <2>1, <2>2
  <2> QED BY <2>1, <2>3
<1>9. \A k \in 1 .. last : h[k].pos \in Boundaries'
  BY <1>2, <1>5, <1>6, <1>8
<1>10. \A m \in Marks' : m \in Marks \/ m = <<gate.handed, t>>
  <2> SUFFICES ASSUME NEW k \in 1 .. last
               PROVE  <<h[k].lastHanded, Rank(h[k].pos)>> \in Marks \cup {<<gate.handed, t>>}
    BY <1>4 DEF Marks, h, last
  <2>1. CASE k = last
    BY <1>1, <1>2, <2>1
  <2>2. CASE k \in 1 .. Len(g) /\ h[k] = g[k]
    BY <2>2 DEF Marks, g
  <2> QED BY <1>8, <2>1, <2>2
<1>11. ASSUME NEW j \in 1 .. last, NEW k \in 1 .. last, j < k
       PROVE  h[j].lastHanded < h[k].lastHanded /\ Rank(h[j].pos) <= Rank(h[k].pos)
  <2>1. j \in 1 .. Len(g) /\ h[j] = g[j]
    BY SMTT(40), <1>3, <1>8, <1>11
  <2>2. CASE k \in 1 .. Len(g) /\ h[k] = g[k]
    BY <1>7, <1>11, <2>1, <2>2
  <2>3. CASE k = last
    <3>1. Rank(g[j].pos) <= t
      BY SMTT(40), <1>0, <1>3, <1>6, <2>1
    <3>2. g[j].lastHanded < gate.handed
      <4>1. CASE last = Len(g)
        BY <1>2, <1>3, <1>7, <1>11, <2>1, <2>3, <4>1
      <4>2. CASE last = Len(g) + 1
        <5>1. Len(g) \in 1 .. Len(g) /\ (j < Len(g) \/ j = Len(g))
          BY SMTT(40), <1>3, <2>1
        <5>2. g[Len(g)].lastHanded < gate.handed
          <6>1. Len(g) > 0
            BY SMTT(40), <1>3, <5>1
          <6>2. g[Len(g)].lastHanded # gate.handed
            BY <1>2, <4>2, <6>1
          <6>3. g[Len(g)].lastHanded \in Nat
            BY <1>3, <5>1
          <6>4. g[Len(g)].lastHanded <= gate.handed
            BY <1>6, <5>1
          <6> QED BY SMTT(40), <1>0, <6>2, <6>3, <6>4
        <5>3. j < Len(g) => g[j].lastHanded < g[Len(g)].lastHanded
          BY <1>7, <2>1, <5>1
        <5> QED BY SMTT(40), <1>0, <1>3, <2>1, <5>1, <5>2, <5>3
      <4> QED BY <1>2, <4>1, <4>2
    <3> QED BY <1>1, <1>2, <2>1, <2>3, <3>1, <3>2
  <2> QED BY <1>8, <2>2, <2>3
<1>12. CommitsInOrder'
  BY <1>4, <1>11 DEF CommitsInOrder, h, last
<1> QED BY <1>2, <1>9, <1>10, <1>12 DEF h, last

\* The session reaches a boundary and hands it to the gate.
LEMMA BoundaryReached ==
  ASSUME SetLaws, Typed, Typed', Sound, QueueStands, sess.up, ~handing, NEW t \in 0 .. committed,
         Passed(t), sess.sent <= t, sess'.up, sess'.sent = t, NextRow' \in {0, 1},
         gate' \in {gate, Committed(gate, Boundary(t))}, offsetFile' = offsetFile, SessionIsSound'
  PROVE  Sound'
<1> SUFFICES ASSUME TypeOK, TypeOK', IInv
             PROVE  IInv'
  BY DEF Typed, Sound
<1>0. /\ t \in Nat /\ sess.sent \in Nat /\ gate.handed \in Nat /\ sess'.sent \in Nat
      /\ sess'.sent >= sess.sent /\ gate.handed >= gate.handed
  <2>1. t \in Nat /\ sess.sent \in Nat /\ gate.handed \in Nat
    BY SMTT(40), MySQLAssumption, GateFields DEF TypeOK
  <2> QED BY SMTT(40), <2>1
<1>1. StreamedIsAccounted'
  <2>1. ASSUME NEW u \in 1 .. t, NEW i \in DOMAIN Rows(u)', Contract!Owed(u, i)'
        PROVE  Accounted(u, i, Emitted)'
    <3>1. Contract!Owed(u, i) /\ i \in DOMAIN Rows(u)
      BY <2>1 DEF QueueStands, Shrinks, Rows
    <3>2. Accounted(u, i, Emitted)
      BY <3>1 DEF Passed
    <3> QED BY <2>1, <3>2, LastKept DEF IInv, QueueStands
  <2>2. 1 .. NextRow' - 1 = {}
    <3>1. \A n \in {0, 1} : 1 .. n - 1 = {}
      BY SMTT(40)
    <3> QED BY <3>1
  <2> QED BY <2>1, <2>2 DEF StreamedIsAccounted
<1>2. CASE gate' = gate
  BY <1>0, <1>1, <1>2, EntriesStand DEF Sound
<1>3. CASE gate' = Committed(gate, Boundary(t))
  <2>1. /\ gate'.handed = gate.handed /\ gate'.confirmable = gate.confirmable
        /\ \A k \in 1 .. Len(gate'.commits) : gate'.commits[k].pos \in Boundaries'
        /\ \A m \in Marks' : m \in Marks \/ m = <<gate.handed, t>>
        /\ CommitsInOrder'
    BY <1>3, CommittedMarks DEF QueueStands
  <2>2. Divides(gate.handed, t)
    BY <1>0, PassedDivides
  <2>3. \A m \in Marks' :
          \/ m \in Marks
          \/ /\ m[1] \in Nat /\ m[2] \in Nat /\ m[1] <= gate'.handed
             /\ (sess'.up => m[2] <= sess'.sent) /\ Divides(m[1], m[2])
    BY SMTT(40), <1>0, <2>1, <2>2
  <2>4. CommitsAreAccounted'
    BY <1>0, <2>1, <2>3, CommitsKept DEF IInv, QueueStands
  <2>5. \A m \in Marks' : m \in Marks \/ (sess.up /\ m[2] \in Nat /\ m[2] >= sess.sent)
    BY SMTT(40), <1>0, <2>1
  <2>6. PositionsAreDelivered'
    BY <1>0, <2>1, <2>5, PositionsKept DEF IInv, QueueStands
  <2> QED BY <1>1, <2>1, <2>4, <2>6, ListenerMoves DEF Sound
<1> QED BY <1>2, <1>3

\* Only a rotation opens a file.
LEMMA SameFile ==
  ASSUME NEW t \in Nat, binlog[t + 1].form # "rotate"
  PROVE  Boundary(t + 1).file = Boundary(t).file
<1>1. Rotations(t + 1) = Rotations(t)
  BY SMTT(40) DEF Rotations
<1> QED BY <1>1 DEF Boundary

\* The session opens an entry: its start is a boundary.
LEMMA OnGTIDKeeps ==
  ASSUME SetLaws, Typed, Typed', Sound, OnGTID
  PROVE  Sound'
<1> SUFFICES ASSUME TypeOK, TypeOK', IInv
             PROVE  IInv'
  BY DEF Typed, Sound
<1> DEFINE s == sess.sent
<1>a. /\ UNCHANGED <<chan, publisherVars, binlog, committed, offsetFile, handing, acked, skipped>>
      /\ UNCHANGED <<proc, currentFile>>
      /\ sess' = [sess EXCEPT !.at = 1] /\ txnRows' = 0
      /\ sess.up /\ sess.at = 0 /\ s < committed /\ Entry.form # "rotate" /\ proc = "up"
      /\ txn' = [file |-> currentFile, pos |-> Inside(s, 1).pos]
      /\ gate' = Committed(gate, [file |-> currentFile, pos |-> Boundary(s).pos])
  BY DEF OnGTID, AtEntry, Streaming, pubVars, publisherVars, dbVars, restVars
<1>b. s \in Nat /\ s \in 0 .. MaxEntries /\ s \in 0 .. committed /\ committed \in Nat /\ LogType
  BY SMTT(40), <1>a, SessionFacts DEF IInv, TypeOK
<1>c. ~handing /\ NextRow = 0 /\ currentFile = Boundary(s).file
  BY SMTT(40), <1>a DEF IInv, SessionIsSound, NextRow
<1>d. sess'.up /\ sess'.sent = s /\ sess'.at = 1 /\ ~handing' /\ NextRow' = 1
  BY SMTT(40), <1>a, <1>c DEF TypeOK, NextRow
<1>e. LogGrows /\ (\A t : Boundary(t)' = Boundary(t))
  BY SMTT(40), <1>a, LogFixed DEF LogGrows, TypeOK
<1>1. Boundary(s) = [file |-> currentFile, pos |-> Boundary(s).pos]
  BY <1>b, <1>c, BoundaryType DEF BinlogPosition
<1>2. Inside(s, 1) = [file |-> currentFile, pos |-> Inside(s, 1).pos]
  BY SMTT(40), <1>1 DEF Inside
<1>3. gate' = Committed(gate, Boundary(s)) /\ txn' = Inside(s, 1)
  BY SMTT(40), <1>a, <1>1, <1>2
<1>4. Emitted' = Emitted
  <2>0. gate \in CommitGateType /\ Boundary(s) \in BinlogPosition /\ Resumable(Boundary(s))
    BY <1>b, BoundaryType DEF TypeOK
  <2>1. gate'.handed = gate.handed
    BY SMTT(40), <1>3, <2>0, CommittedFacts
  <2> QED BY <1>a, <2>1 DEF Emitted
<1>5. QueueStands
  BY <1>a, <1>e, <1>4, QueueStill
<1>6. \A c \in Waiting : Precedes(c, <<s + 1, 0>>)
  BY <1>a, <1>c DEF IInv, SessionIsSound
<1>7. Passed(s)
  <2>1. \A c \in Waiting : c[1] <= s
    BY SMTT(40), <1>b, <1>6, WaitingType DEF Precedes
  <2> QED BY <1>a, <2>1 DEF Passed, IInv, StreamedIsAccounted
<1>8. SessionIsSound'
  <2>1. sess'.sent <= committed' /\ sess'.sent < committed'
    BY SMTT(40), <1>a, <1>b, <1>d
  <2>2. Entry' = Entry
    BY <1>a, <1>d DEF Entry
  <2>3. sess'.at # 0 /\ sess'.at <= Len(Entry'.rows) + 1 /\ Entry'.form # "rotate"
    <3>1. SessionIsSound /\ committed \in 0 .. MaxEntries /\ MaxEntries \in Nat
      BY MySQLAssumption DEF IInv, TypeOK
    <3>2. s + 1 \in 1 .. MaxEntries
      BY SMTT(40), <1>a, <1>b, <3>1
    <3>3. Entry.rows = Rows(s + 1)
      BY <3>1, SessionFacts
    <3>4. Len(Entry.rows) \in Nat
      BY <1>b, <3>2, <3>3, EntryFacts
    <3> QED BY SMTT(40), <1>a, <1>d, <2>2, <3>4
  <2>4. currentFile' = Boundary(sess.sent)'.file /\ txn' = Inside(sess.sent, 1)'
    <3>1. Boundary(sess.sent)' = Boundary(s) /\ Inside(sess.sent, 1)' = Inside(s, 1)
      BY <1>a, <1>d DEF Boundary, Rotations, Inside
    <3> QED BY <1>a, <1>c, <1>3, <3>1
  <2>5. \A c \in Waiting' : Precedes(c, <<sess'.sent + 1, NextRow'>>)
    <3> SUFFICES ASSUME NEW c \in Waiting' PROVE Precedes(c, <<s + 1, 1>>)
      BY <1>d
    <3>1. c \in Waiting
      BY <1>5 DEF QueueStands, Shrinks
    <3> QED BY SMTT(40), <1>b, <1>6, <3>1, PrecedesLater
  <2>6. txnRows' = Cardinality(EmittedBefore(sess.sent + 1, NextRow)')
    <3>1. EmittedBefore(sess.sent + 1, NextRow)' = {}
      BY SMTT(40), <1>d DEF EmittedBefore
    <3> QED BY <1>a, <3>1, CountEmpty
  <2>7. proc' # "down" /\ sess'.up /\ ~handing'
    BY <1>a, <1>d
  <2> QED BY <2>1, <2>3, <2>4, <2>5, <2>6, <2>7 DEF SessionIsSound
<1>9. sess.sent <= s /\ NextRow' \in {0, 1}
  BY SMTT(40), <1>b, <1>d
<1> QED BY <1>a, <1>b, <1>c, <1>d, <1>3, <1>5, <1>7, <1>8, <1>9, BoundaryReached DEF Sound

\* The session closes an entry whose rows it has all passed.
LEMMA EntryClosed ==
  ASSUME SetLaws, Typed, Typed', Sound, Streaming, ~handing, sess.sent < committed, EntryDone,
         UNCHANGED <<publisherVars, binlog, committed, offsetFile, handing, acked, skipped, proc>>,
         UNCHANGED chan \/ HandleEvent(NoEvent),
         \A i \in DOMAIN Rows(sess.sent + 1) : i \in 1 .. NextRow - 1,
         currentFile' = Boundary(sess.sent + 1).file,
         gate' \in {gate, Committed(gate, Boundary(sess.sent + 1))}
  PROVE  Sound'
<1> SUFFICES ASSUME TypeOK, TypeOK', IInv
             PROVE  IInv'
  BY DEF Typed, Sound
<1> DEFINE s == sess.sent
           t == sess.sent + 1
<1>a. /\ s \in Nat /\ committed \in Nat /\ LogType /\ sess.up /\ proc = "up"
      /\ t \in Nat /\ t \in 0 .. MaxEntries /\ t \in 0 .. committed /\ s <= t
  <2>1. s \in Nat /\ committed \in 0 .. MaxEntries /\ MaxEntries \in Nat /\ LogType
    BY SessionFacts DEF IInv
  <2>2. sess.up /\ proc = "up"
    BY DEF Streaming
  <2> QED BY SMTT(40), <2>1, <2>2
<1>b. sess'.up /\ sess'.sent = t /\ sess'.at = 0 /\ ~handing' /\ NextRow' = 0
  BY SMTT(40), <1>a DEF TypeOK, NextRow, EntryDone
<1>c. LogGrows /\ (\A u : Boundary(u)' = Boundary(u))
  BY SMTT(40), LogFixed DEF LogGrows, TypeOK
<1>1. Emitted' = Emitted
  <2>0. gate \in CommitGateType /\ Boundary(t) \in BinlogPosition /\ Resumable(Boundary(t))
    BY <1>a, BoundaryType DEF TypeOK
  <2>1. gate'.handed = gate.handed
    <3>1. CASE gate' = gate
      BY <3>1
    <3>2. CASE gate' = Committed(gate, Boundary(t))
      BY SMTT(40), <2>0, <3>2, CommittedFacts
    <3> QED BY <3>1, <3>2
  <2> QED BY <2>1 DEF Emitted
<1>2. QueueStands
  BY <1>c, <1>1, QueueStill
<1>3. \A c \in Waiting : c[1] \in Nat /\ c[1] <= t
  <2>1. \A c \in Waiting : Precedes(c, <<t, NextRow>>)
    BY <1>a DEF IInv, SessionIsSound
  <2> QED BY SMTT(40), <1>a, <2>1, WaitingType DEF Precedes
<1>4. Passed(t)
  <2>1. ASSUME NEW u \in 1 .. t, NEW i \in DOMAIN Rows(u), Contract!Owed(u, i)
        PROVE  Accounted(u, i, Emitted)
    <3>1. CASE u \in 1 .. s
      BY <1>a, <2>1, <3>1 DEF IInv, StreamedIsAccounted
    <3>2. CASE u = t
      <4>1. i \in 1 .. NextRow - 1
        BY <3>2
      <4> QED BY <1>a, <2>1, <3>2, <4>1 DEF IInv, StreamedIsAccounted
    <3>3. u \in 1 .. s \/ u = t
      BY SMTT(40), <1>a
    <3> QED BY <3>1, <3>2, <3>3
  <2> QED BY <1>3, <2>1 DEF Passed
<1>5. SessionIsSound'
  <2>1. sess'.sent <= committed'
    BY SMTT(40), <1>a, <1>b
  <2>2. currentFile' = Boundary(sess.sent)'.file
    <3>1. Boundary(sess.sent)' = Boundary(t)
      BY <1>b DEF Boundary, Rotations
    <3> QED BY <3>1
  <2>3. \A c \in Waiting' : Precedes(c, <<sess'.sent + 1, NextRow'>>)
    <3> SUFFICES ASSUME NEW c \in Waiting' PROVE Precedes(c, <<t + 1, 0>>)
      BY <1>b
    <3>1. c \in Waiting
      BY <1>2 DEF QueueStands, Shrinks
    <3> QED BY SMTT(40), <1>a, <1>3, <3>1 DEF Precedes
  <2>4. proc' # "down" /\ sess'.up /\ ~handing' /\ sess'.at = 0
    BY <1>a, <1>b
  <2> QED BY <2>1, <2>2, <2>3, <2>4 DEF SessionIsSound
<1>6. sess.sent <= t /\ NextRow' \in {0, 1}
  BY <1>a, <1>b
<1> QED BY <1>a, <1>b, <1>2, <1>4, <1>5, <1>6, BoundaryReached DEF Sound

\* Where the session is when it has passed all the rows of its entry.
LEMMA AtEndFacts ==
  ASSUME Typed, Sound, AtEnd
  PROVE  /\ Streaming /\ ~handing /\ sess.sent < committed
         /\ \A i \in DOMAIN Rows(sess.sent + 1) : i \in 1 .. NextRow - 1
         /\ currentFile = Boundary(sess.sent).file
         /\ Boundary(sess.sent + 1).file = Boundary(sess.sent).file
<1> TypeOK /\ IInv
  BY DEF Typed, Sound
<1>1. Streaming /\ sess.up /\ sess.at # 0 /\ sess.at = Len(Entry.rows) + 1
  BY DEF AtEnd, Streaming
<1>2. /\ LogType /\ sess.sent + 1 \in 1 .. MaxEntries /\ Entry.rows = Rows(sess.sent + 1)
      /\ sess.sent \in Nat /\ Entry = binlog[sess.sent + 1]
  BY <1>1, SessionFacts DEF IInv
<1>3. Len(Entry.rows) \in Nat /\ DOMAIN Rows(sess.sent + 1) = 1 .. Len(Entry.rows)
  BY <1>2, EntryFacts
<1>4. /\ sess.sent < committed /\ currentFile = Boundary(sess.sent).file /\ Entry.form # "rotate"
      /\ handing => sess.at <= Len(Entry.rows)
  BY <1>1 DEF IInv, SessionIsSound
<1>5. ~handing
  BY SMTT(40), <1>1, <1>3, <1>4
<1>6. NextRow - 1 = Len(Entry.rows)
  BY SMTT(40), <1>1, <1>3, <1>5 DEF NextRow
<1> QED BY <1>1, <1>2, <1>3, <1>4, <1>5, <1>6, SameFile

\* A transaction ends; the XID of a compressed one carries no position.
LEMMA OnXIDKeeps ==
  ASSUME SetLaws, Typed, Typed', Sound, OnXID
  PROVE  Sound'
<1> SUFFICES ASSUME TypeOK, TypeOK', IInv
             PROVE  IInv'
  BY DEF Typed, Sound
<1>1. /\ UNCHANGED <<publisherVars, binlog, committed, offsetFile, handing, acked, skipped, proc>>
      /\ UNCHANGED currentFile /\ HandleEvent(NoEvent) /\ EntryDone /\ AtEnd
      /\ gate' = Committed(gate, IF Entry.form = "packed" THEN [Boundary(sess.sent) EXCEPT !.pos = 0]
                                 ELSE Boundary(sess.sent + 1))
  BY DEF OnXID, publisherVars, dbVars, restVars, handlerVars
<1>2. gate' \in {gate, Committed(gate, Boundary(sess.sent + 1))}
  <2>1. ~Resumable([Boundary(sess.sent) EXCEPT !.pos = 0])
    BY SMTT(40) DEF Resumable, minBinlogPosition, Boundary
  <2>2. Committed(gate, [Boundary(sess.sent) EXCEPT !.pos = 0]) = gate
    BY <2>1 DEF Committed
  <2> QED BY <1>1, <2>2
<1> QED BY <1>1, <1>2, AtEndFacts, EntryClosed DEF Sound

\* A DDL statement ends.
LEMMA OnDDLKeeps ==
  ASSUME SetLaws, Typed, Typed', Sound, OnDDL
  PROVE  Sound'
<1> SUFFICES ASSUME TypeOK, TypeOK', IInv
             PROVE  IInv'
  BY DEF Typed, Sound
<1>1. /\ UNCHANGED <<chan, publisherVars, binlog, committed, offsetFile, handing, acked, skipped, proc>>
      /\ UNCHANGED currentFile /\ EntryDone /\ AtEnd
      /\ gate' = Committed(gate, Boundary(sess.sent + 1))
  BY DEF OnDDL, pubVars, publisherVars, dbVars, restVars, handlerVars
<1> QED BY <1>1, AtEndFacts, EntryClosed DEF Sound

\* The log goes on in the next file.
LEMMA OnRotateKeeps ==
  ASSUME SetLaws, Typed, Typed', Sound, OnRotate
  PROVE  Sound'
<1> SUFFICES ASSUME TypeOK, TypeOK', IInv
             PROVE  IInv'
  BY DEF Typed, Sound
<1>1. /\ UNCHANGED <<chan, publisherVars, binlog, committed, offsetFile, handing, acked, skipped, proc>>
      /\ Streaming /\ sess.at = 0 /\ sess.sent < committed /\ Entry.form = "rotate"
      /\ currentFile' = Boundary(sess.sent + 1).file /\ EntryDone
      /\ gate' = Committed(gate, Boundary(sess.sent + 1))
  BY DEF OnRotate, AtEntry, pubVars, publisherVars, dbVars, restVars
<1>2. ~handing
  BY <1>1 DEF IInv, SessionIsSound
<1>3. LogType /\ sess.sent + 1 \in 1 .. MaxEntries /\ Entry = binlog[sess.sent + 1]
  <2>1. sess.sent \in Nat /\ committed \in 0 .. MaxEntries /\ MaxEntries \in Nat /\ LogType
    BY SessionFacts DEF IInv
  <2> QED BY SMTT(40), <1>1, <2>1 DEF Entry
<1>4. DOMAIN Rows(sess.sent + 1) = {}
  <2>1. Len(Rows(sess.sent + 1)) = 0 /\ DOMAIN Rows(sess.sent + 1) = 1 .. Len(Rows(sess.sent + 1))
    BY <1>1, <1>3, EntryFacts
  <2> QED BY SMTT(40), <2>1
<1> QED BY <1>1, <1>2, <1>4, EntryClosed DEF Sound

-----------------------------------------------------------------------------
(***************************************************************************)
(* The step that emits.                                                    *)
(***************************************************************************)
\* The event's change is the last to wait, unless the publisher has gone.
Grows(d) ==
  /\ UNCHANGED <<binlog, committed, skipped, gate, acked, offsetFile, sess, proc, currentFile, txn>>
  /\ UNCHANGED <<cur, pub, ctxDone, stream, remembered>>
  /\ ~handing /\ handing' /\ Emitted' = Emitted + 1
  /\ \A c \in Waiting : Precedes(c, d)
  /\ IF pub = "exited" THEN Waiting = {} /\ Waiting' = {} ELSE Waiting' = Waiting \cup {d}

\* The row the session is at, and the event made of it.
LEMMA EmitFacts ==
  ASSUME SetLaws, Typed, Typed', Sound, EmitToBus
  PROVE  /\ AtRow /\ Entry.rows[sess.at] # "filtered" /\ HandleEvent(RowEvent) /\ cur' = cur
         /\ sess.sent \in Nat /\ sess.at \in Nat /\ sess.at # 0
         /\ Grows(<<sess.sent + 1, sess.at>>)
<1> TypeOK /\ TypeOK' /\ IInv
  BY DEF Typed, Sound
<1>1. AtRow /\ Entry.rows[sess.at] # "filtered" /\ HandleEvent(RowEvent)
  BY DEF EmitToBus, RowEvent
<1>2. /\ UNCHANGED <<binlog, committed, skipped, gate, acked, offsetFile, sess, proc, currentFile, txn>>
      /\ UNCHANGED <<cur, pub, ctxDone, stream, remembered>> /\ handing'
  BY DEF EmitToBus, publisherVars, restVars, dbVars
<1>3. /\ sess.up /\ ~handing /\ NextRow = sess.at /\ sess.sent \in Nat /\ sess.at \in Nat
      /\ sess.at # 0
  BY <1>1, RowFacts, SessionFacts DEF IInv, AtRow
<1>4. Emitted' = Emitted + 1
  <2>1. gate.handed \in Nat /\ Emitted = gate.handed
    BY <1>3, EmittedType
  <2>2. Emitted' = gate.handed + 1
    BY <1>2 DEF Emitted
  <2> QED BY <2>1, <2>2
<1>5. \A c \in Waiting : Precedes(c, <<sess.sent + 1, sess.at>>)
  BY <1>3 DEF IInv, SessionIsSound
<1>6. /\ RowEvent \in Event /\ IsPublishable(RowEvent)
      /\ RowEvent.change = <<sess.sent + 1, sess.at>>
  BY <1>1, RowEventType DEF IInv
<1>7. IF pub # "exited" THEN Queue' = Queue \cup {RowEvent} ELSE Queue' = Queue
  BY <1>1, <1>2, <1>6, QueuePush DEF TypeOK
<1>8. CASE pub = "exited"
  <2>1. chan = <<>> /\ cur = NoEvent
    BY <1>8 DEF IInv, QueueInOrder
  <2>2. Queue = {}
    BY SMTT(40), <2>1, KindFacts DEF Queue
  <2>3. Waiting = {} /\ Waiting' = {}
    BY <1>7, <1>8, <2>2 DEF Waiting
  <2> QED BY <1>1, <1>2, <1>3, <1>4, <1>5, <1>8, <2>3 DEF Grows
<1>9. CASE pub # "exited"
  <2>1. Waiting' = Waiting \cup {<<sess.sent + 1, sess.at>>}
    BY SMTT(40), <1>6, <1>7, <1>9 DEF Waiting
  <2> QED BY <1>1, <1>2, <1>3, <1>4, <1>5, <1>9, <2>1 DEF Grows
<1> QED BY <1>8, <1>9

\* The count of what waits.
LEMMA GrowsCounted ==
  ASSUME SetLaws, Typed, Sound, NEW s \in Nat, NEW i \in Nat, Grows(<<s, i>>)
  PROVE  /\ WaitingIsCounted' /\ acked < Emitted + 1
         /\ <<s, i>> \notin Waiting /\ Waiting \subseteq Waiting'
<1> TypeOK /\ IInv
  BY DEF Typed, Sound
<1>1. <<s, i>> \notin Waiting
  BY SMTT(40) DEF Grows, Precedes
<1>2. IsFiniteSet(Waiting) /\ acked + Cardinality(Waiting) <= Emitted
  BY DEF IInv, WaitingIsCounted
<1>3. Cardinality(Waiting) \in Nat /\ acked \in Nat /\ Emitted \in Nat
  BY <1>2, CountType, EmittedType DEF TypeOK
<1>4. CASE pub = "exited"
  <2>1. Waiting = {} /\ Waiting' = {} /\ acked' = acked /\ Emitted' = Emitted + 1
    BY <1>4 DEF Grows
  <2>2. acked' + Cardinality(Waiting') <= Emitted' /\ acked < Emitted + 1
    BY SMTT(40), <1>2, <1>3, <2>1
  <2> QED BY <1>1, <1>2, <2>1, <2>2 DEF WaitingIsCounted
<1>5. CASE pub # "exited"
  <2>1. Waiting' = Waiting \cup {<<s, i>>} /\ acked' = acked /\ Emitted' = Emitted + 1
    BY <1>5 DEF Grows
  <2>2. IsFiniteSet(Waiting') /\ Cardinality(Waiting') = Cardinality(Waiting) + 1
    BY <1>1, <1>2, <2>1, CountAdd
  <2>3. acked' + Cardinality(Waiting') <= Emitted' /\ acked < Emitted + 1
    BY SMTT(40), <1>2, <1>3, <2>1, <2>2
  <2> QED BY <1>1, <2>1, <2>2, <2>3 DEF WaitingIsCounted
<1> QED BY <1>4, <1>5

\* A mark before the new change goes on dividing.
LEMMA GrowsDivides ==
  ASSUME SetLaws, Typed, Sound, NEW s \in Nat, NEW i \in Nat, Grows(<<s, i>>),
         NEW n \in Nat, NEW t \in Nat, t < s, Divides(n, t)
  PROVE  Divides(n, t)'
<1> TypeOK /\ IInv
  BY DEF Typed, Sound
<1>0. Waiting \subseteq Waiting' /\ <<s, i>> \notin Waiting /\ Emitted \in Nat
  BY GrowsCounted, EmittedType
<1>1. ASSUME NEW c \in Waiting', c[1] <= t
      PROVE  Cardinality(WaitingAfter(t)') = Emitted' - n
  <2>1. pub # "exited" /\ Waiting' = Waiting \cup {<<s, i>>} /\ Emitted' = Emitted + 1
    BY <1>1 DEF Grows
  <2>2. c \in Waiting
    BY SMTT(40), <1>1, <2>1
  <2>3. Cardinality(WaitingAfter(t)) = Emitted - n
    BY <1>1, <2>2 DEF Divides
  <2>4. WaitingAfter(t)' = WaitingAfter(t) \cup {<<s, i>>} /\ <<s, i>> \notin WaitingAfter(t)
    BY SMTT(40), <1>0, <2>1 DEF WaitingAfter
  <2>5. IsFiniteSet(WaitingAfter(t))
    <3>1. IsFiniteSet(Waiting) /\ WaitingAfter(t) \in SUBSET Waiting
      BY DEF IInv, WaitingIsCounted, WaitingAfter
    <3> QED BY <3>1, CountSubset
  <2>6. Cardinality(WaitingAfter(t)') = Cardinality(WaitingAfter(t)) + 1
    BY <2>4, <2>5, CountAdd
  <2> QED BY SMTT(40), <1>0, <2>1, <2>3, <2>6
<1>2. ASSUME NEW u \in 1 .. t, NEW j \in DOMAIN Rows(u)', Contract!Owed(u, j)'
      PROVE  \/ <<u, j>> \in Stored' \/ <<u, j>> \in Waiting' \/ (Halted' /\ acked' < n)
  <2>1. Contract!Owed(u, j) /\ j \in DOMAIN Rows(u)
    BY <1>2 DEF Grows, Contract!Owed, Rows
  <2>2. Accounted(u, j, n)
    BY <2>1 DEF Divides
  <2>3. Stored' = Stored /\ (Halted' <=> Halted) /\ acked' = acked
    BY DEF Grows, Stored, Halted
  <2> QED BY <1>0, <2>2, <2>3 DEF Accounted
<1> QED BY <1>1, <1>2 DEF Divides, Accounted

\* The buffer stays in log order.
LEMMA EmitQueue ==
  ASSUME SetLaws, Typed, Typed', Sound, EmitToBus
  PROVE  QueueInOrder' /\ EventsAreChanges' /\ MessagesAreChanges'
<1> TypeOK /\ TypeOK' /\ IInv
  BY DEF Typed, Sound
<1> DEFINE d == <<sess.sent + 1, sess.at>>
<1>a. /\ AtRow /\ Entry.rows[sess.at] # "filtered" /\ HandleEvent(RowEvent) /\ cur' = cur
      /\ Grows(d)
  BY EmitFacts
<1>b. /\ UNCHANGED <<binlog, committed, pub, stream, remembered>>
      /\ \A c \in Waiting : Precedes(c, d)
  BY <1>a DEF Grows
<1>c. LogGrows
  BY SMTT(40), <1>b DEF LogGrows, TypeOK
<1>d. /\ RowEvent \in Event /\ IsPublishable(RowEvent) /\ RowEvent.id = Id(sess.sent + 1, sess.at)
      /\ RowEvent.change = d /\ RowEvent.kind = Rows(sess.sent + 1)[sess.at]
  BY <1>a, RowEventType DEF IInv
<1>1. MessagesAreChanges'
  BY <1>b, <1>c, MessagesKept DEF IInv, LogGrows
<1>2. EventsAreChanges'
  <2>1. (\A t : Rows(t)' = Rows(t)) /\ \A x, c : Names(x, c) => Names(x, c)'
    BY <1>c, LogFixed, NamesKept DEF LogGrows
  <2> SUFFICES ASSUME NEW f \in Queue'
               PROVE  Names(f.id, f.change)' /\ Rows(f.change[1])[f.change[2]] = f.kind
    BY <2>1 DEF EventsAreChanges, Names, IsChange
  <2>2. f \in Queue \/ f = RowEvent
    <3>1. IF pub # "exited" THEN Queue' = Queue \cup {RowEvent} ELSE Queue' = Queue
      BY <1>a, <1>d, QueuePush DEF TypeOK
    <3> QED BY <3>1
  <2>3. CASE f \in Queue
    BY <2>1, <2>3 DEF IInv, EventsAreChanges
  <2>4. CASE f = RowEvent
    <3>1. /\ sess.sent + 1 \in 1 .. committed /\ sess.at \in DOMAIN Rows(sess.sent + 1)
          /\ Rows(sess.sent + 1)[sess.at] # "filtered"
      BY <1>a, RowFacts DEF IInv
    <3>2. f.change[1] = sess.sent + 1 /\ f.change[2] = sess.at
      BY SMTT(40), <1>d, <2>4
    <3>3. Names(f.id, f.change)
      BY <1>d, <2>4, <3>1, <3>2 DEF Names, IsChange
    <3> QED BY <1>d, <2>1, <2>4, <3>2, <3>3
  <2> QED BY <2>2, <2>3, <2>4
<1>3. QueueInOrder'
  <2>1. CASE pub = "exited"
    <3>1. UNCHANGED <<chan, cur, pub>>
      BY <1>a, <1>b, <2>1 DEF HandleEvent
    <3> QED BY <3>1 DEF IInv, QueueInOrder
  <2>2. CASE pub # "exited"
    <3> DEFINE e == RowEvent
               n == Len(chan)
    <3>1. chan' = Append(chan, e)
      BY <1>a, <2>2 DEF HandleEvent
    <3> HIDE DEF d
    <3>2. /\ n \in Nat /\ Len(chan') = n + 1 /\ \A k \in 1 .. n : chan'[k] = chan[k]
          /\ chan'[n + 1] = e
      <4>1. e \in Event /\ chan \in Seq(Event)
        BY <1>d DEF TypeOK, PubTypeOK
      <4> HIDE DEF e
      <4> QED BY SMTT(40), <3>1, <4>1
    <3>3. /\ \A k \in 1 .. n : IsPublishable(chan[k]) => Precedes(chan[k].change, d)
          /\ IsPublishable(cur) => Precedes(cur.change, d)
      BY <1>b, QueueMembers DEF Waiting
    <3>4. \A k \in 1 .. n + 1 : k \in 1 .. n \/ k = n + 1
      BY SMTT(40), <3>2
    <3>5. ASSUME NEW j \in 1 .. Len(chan'), NEW k \in 1 .. Len(chan'), j < k,
                 IsPublishable(chan'[j]), IsPublishable(chan'[k])
          PROVE  Precedes(chan'[j].change, chan'[k].change)
      <4>1. j \in 1 .. n /\ chan'[j] = chan[j]
        BY SMTT(40), <3>2, <3>5
      <4>2. CASE k = n + 1
        BY <1>d, <3>2, <3>3, <3>5, <4>1, <4>2
      <4>3. CASE k \in 1 .. n
        BY <3>2, <3>5, <4>1, <4>3 DEF IInv, QueueInOrder
      <4> QED BY <3>2, <3>4, <4>2, <4>3
    <3>6. ASSUME NEW k \in 1 .. Len(chan'), cur' # NoEvent, IsPublishable(chan'[k])
          PROVE  Precedes(cur'.change, chan'[k].change)
      <4>0. cur' = cur /\ IsPublishable(cur)
        BY <1>a, <3>6 DEF IInv, QueueInOrder
      <4>2. CASE k = n + 1
        BY <1>d, <3>2, <3>3, <4>0, <4>2
      <4>3. CASE k \in 1 .. n
        BY <3>2, <3>6, <4>0, <4>3 DEF IInv, QueueInOrder
      <4> QED BY <3>2, <3>4, <4>2, <4>3
    <3>7. /\ cur' = NoEvent \/ IsPublishable(cur')
          /\ pub' = "wait" => cur' # NoEvent
          /\ pub' \in {"await", "exited"} => cur' = NoEvent
          /\ pub' # "exited"
      BY <1>a, <1>b, <2>2 DEF IInv, QueueInOrder
    <3> QED BY <3>5, <3>6, <3>7 DEF QueueInOrder, Precedes, IsPublishable
  <2> QED BY <2>1, <2>2
<1> QED BY <1>1, <1>2, <1>3

\* The session has given away one row more.
LEMMA EmitSession ==
  ASSUME SetLaws, Typed, Typed', Sound, EmitToBus
  PROVE  SessionIsSound'
<1> TypeOK /\ TypeOK' /\ IInv
  BY DEF Typed, Sound
<1> DEFINE t == sess.sent + 1
           i == sess.at
<1>a. AtRow /\ Entry.rows[i] # "filtered" /\ i \in Nat /\ i # 0 /\ sess.sent \in Nat /\ Grows(<<t, i>>)
  BY EmitFacts
<1>b. /\ UNCHANGED <<binlog, committed, gate, acked, sess, proc, currentFile, txn>>
      /\ handing' /\ ~handing /\ \A c \in Waiting' : c \in Waiting \/ c = <<t, i>>
      /\ \A c \in Waiting : Precedes(c, <<t, i>>)
  BY <1>a DEF Grows
<1>c. sess.up /\ proc = "up" /\ i <= Len(Entry.rows) /\ NextRow = i /\ NextRow' = i + 1
      /\ Entry.rows = Rows(t)
  BY SMTT(40), <1>a, <1>b, SessionFacts DEF AtRow, Streaming, NextRow, IInv
<1>1. /\ currentFile = Boundary(sess.sent).file /\ txn = Inside(sess.sent, 1)
      /\ sess.sent < committed /\ sess.sent <= committed /\ Entry.form # "rotate"
      /\ i <= Len(Entry.rows) + 1
      /\ Entry.form = "packed" => txnRows = Cardinality(EmittedBefore(t, i))
  BY <1>a, <1>c DEF IInv, SessionIsSound
<1>2. /\ Boundary(sess.sent)' = Boundary(sess.sent) /\ Inside(sess.sent, 1)' = Inside(sess.sent, 1)
      /\ EmittedBefore(sess.sent + 1, NextRow)' = EmittedBefore(t, i + 1) /\ Entry' = Entry
  BY <1>b, <1>c DEF Boundary, Rotations, Inside, EmittedBefore, Rows, Entry
<1>3. Entry.form = "packed" => txnRows' = Cardinality(EmittedBefore(t, i + 1))
  <2>1. txnRows' = txnRows + (IF Entry.form = "packed" THEN 1 ELSE 0)
    BY DEF EmitToBus
  <2>2. i >= 1 /\ Rows(t)[i] # "filtered"
    BY SMTT(40), <1>a, <1>c
  <2>3. Cardinality(EmittedBefore(t, i + 1)) =
          Cardinality(EmittedBefore(t, i)) + (IF Rows(t)[i] # "filtered" THEN 1 ELSE 0)
    BY <1>a, <2>2, EmittedBeforeFacts
  <2> QED BY <1>1, <2>1, <2>2, <2>3
<1>4. \A c \in Waiting' : Precedes(c, <<sess'.sent + 1, NextRow'>>)
  <2>1. Precedes(<<t, i>>, <<t, i + 1>>)
    BY SMTT(40), <1>a DEF Precedes
  <2>2. \A c \in Waiting : Precedes(c, <<t, i + 1>>)
    BY SMTT(40), <1>a, <1>b, WaitingType DEF Precedes
  <2> QED BY <1>b, <1>c, <2>1, <2>2
<1>5. /\ proc' # "down" /\ sess'.up /\ sess'.sent <= committed' /\ sess'.sent < committed'
      /\ sess'.at <= Len(Entry'.rows) + 1 /\ Entry'.form # "rotate"
      /\ sess'.at # 0 /\ sess'.at <= Len(Entry'.rows) /\ Entry'.rows[sess'.at] # "filtered"
  BY <1>a, <1>b, <1>c, <1>1, <1>2
<1>6. /\ currentFile' = Boundary(sess.sent)'.file /\ txn' = Inside(sess.sent, 1)'
      /\ Entry'.form = "packed" => txnRows' = Cardinality(EmittedBefore(sess.sent + 1, NextRow)')
  BY <1>b, <1>1, <1>2, <1>3
<1> QED BY <1>4, <1>5, <1>6 DEF SessionIsSound

\* The account, with one event more.
LEMMA EmitAccount ==
  ASSUME SetLaws, Typed, Typed', Sound, EmitToBus
  PROVE  StreamedIsAccounted' /\ QueueHasNoGaps'
<1> TypeOK /\ TypeOK' /\ IInv
  BY DEF Typed, Sound
<1> DEFINE t == sess.sent + 1
           i == sess.at
<1>a. AtRow /\ i \in Nat /\ i # 0 /\ sess.sent \in Nat /\ Grows(<<t, i>>)
  BY EmitFacts
<1>b. /\ sess' = sess /\ sess.up /\ NextRow = i /\ NextRow' = i + 1 /\ t \in Nat
      /\ \A u : Rows(u)' = Rows(u)
      /\ \A u, j : Contract!Owed(u, j)' <=> Contract!Owed(u, j)
  <2>1. sess' = sess /\ binlog' = binlog /\ skipped' = skipped /\ handing' /\ ~handing
    BY <1>a DEF Grows
  <2>2. sess.up /\ NextRow = i /\ NextRow' = i + 1
    BY SMTT(40), <1>a, <2>1 DEF AtRow, Streaming, NextRow
  <2> QED BY SMTT(40), <1>a, <2>1, <2>2 DEF Rows, Contract!Owed
<1>c. /\ Stored' = Stored /\ (Halted' <=> Halted) /\ acked' = acked /\ Emitted' = Emitted + 1
      /\ acked \in Nat /\ Emitted \in Nat /\ (pub = "exited" => Halted)
  BY <1>a, EmittedType DEF Grows, Stored, Halted, TypeOK
<1>d. /\ acked < Emitted + 1 /\ Waiting \subseteq Waiting'
      /\ \A c \in Waiting' : c \in Waiting \/ c = <<t, i>>
      /\ <<t, i>> \in Waiting' \/ pub = "exited"
  <2>1. acked < Emitted + 1 /\ Waiting \subseteq Waiting'
    BY <1>a, <1>b, GrowsCounted
  <2>2. IF pub = "exited" THEN Waiting = {} /\ Waiting' = {} ELSE Waiting' = Waiting \cup {<<t, i>>}
    BY <1>a DEF Grows
  <2> QED BY <2>1, <2>2
<1>1. ASSUME NEW u, NEW j, Accounted(u, j, Emitted)
      PROVE  \/ <<u, j>> \in Stored' \/ <<u, j>> \in Waiting' \/ (Halted' /\ acked' < Emitted')
  BY <1>c, <1>d, <1>1 DEF Accounted
<1>2. \A u \in 1 .. sess.sent : \A j \in DOMAIN Rows(u) :
        Contract!Owed(u, j) => Accounted(u, j, Emitted)
  BY <1>b DEF IInv, StreamedIsAccounted
<1>3. \A j \in 1 .. i - 1 : Contract!Owed(t, j) => Accounted(t, j, Emitted)
  BY <1>b DEF IInv, StreamedIsAccounted
<1>4. \A j \in 1 .. i : Contract!Owed(t, j) =>
        \/ <<t, j>> \in Stored' \/ <<t, j>> \in Waiting' \/ (Halted' /\ acked' < Emitted')
  <2> SUFFICES ASSUME NEW j \in 1 .. i, Contract!Owed(t, j)
               PROVE  \/ <<t, j>> \in Stored' \/ <<t, j>> \in Waiting' \/ (Halted' /\ acked' < Emitted')
    OBVIOUS
  <2>1. CASE j = i
    BY <1>c, <1>d, <2>1
  <2>2. CASE j \in 1 .. i - 1
    BY <1>1, <1>3, <2>2
  <2> QED BY SMTT(40), <1>a, <2>1, <2>2
<1>5. StreamedIsAccounted'
  <2>1. \A u \in 1 .. sess'.sent : \A j \in DOMAIN Rows(u)' :
          Contract!Owed(u, j)' => Accounted(u, j, Emitted)'
    <3> SUFFICES ASSUME NEW u \in 1 .. sess.sent, NEW j \in DOMAIN Rows(u), Contract!Owed(u, j)
                 PROVE  Accounted(u, j, Emitted)'
      BY <1>b
    <3>1. \/ <<u, j>> \in Stored' \/ <<u, j>> \in Waiting' \/ (Halted' /\ acked' < Emitted')
      BY <1>1, <1>2
    <3> QED BY <3>1 DEF Accounted
  <2>2. \A j \in 1 .. NextRow' - 1 :
          Contract!Owed(sess.sent + 1, j)' => Accounted(sess.sent + 1, j, Emitted)'
    <3> SUFFICES ASSUME NEW j \in 1 .. i, Contract!Owed(sess.sent + 1, j)'
                 PROVE  Accounted(sess.sent + 1, j, Emitted)'
      BY SMTT(40), <1>a, <1>b
    <3>1. PICK u : u = t
      OBVIOUS
    <3>2. u = sess'.sent + 1
      BY <1>b, <3>1
    <3>3. Contract!Owed(u, j)'
      BY <3>2 DEF Contract!Owed
    <3>4. Contract!Owed(t, j)
      BY <1>b, <3>1, <3>3
    <3>5. \/ <<t, j>> \in Stored' \/ <<t, j>> \in Waiting' \/ (Halted' /\ acked' < Emitted')
      BY <1>4, <3>4
    <3>6. Accounted(u, j, Emitted)'
      BY <3>1, <3>5 DEF Accounted
    <3> QED BY <3>2, <3>6 DEF Accounted
  <2> QED BY <2>1, <2>2 DEF StreamedIsAccounted
<1>6. QueueHasNoGaps'
  <2> SUFFICES ASSUME NEW c \in Waiting', NEW u \in 1 .. c[1], NEW j \in DOMAIN Rows(u),
                      Precedes(<<u, j>>, c), Contract!Owed(u, j)
               PROVE  <<u, j>> \in Stored' \/ <<u, j>> \in Waiting' \/ Halted'
    BY <1>b DEF QueueHasNoGaps, Precedes
  <2>1. CASE c \in Waiting
    BY <1>c, <1>d, <2>1 DEF IInv, QueueHasNoGaps
  <2>2. CASE c = <<t, i>>
    <3>1. u \in 1 .. t
      BY <2>2
    <3>2. CASE u \in 1 .. sess.sent
      BY <1>1, <1>2, <3>2
    <3>3. CASE u = t
      <4>1. j < i
        BY SMTT(40), <1>b, <2>2, <3>3 DEF Precedes
      <4>2. t \in 1 .. MaxEntries /\ LogType
        BY <1>a, RowFacts, SessionFacts DEF IInv
      <4>3. DOMAIN Rows(t) = 1 .. Len(Rows(t)) /\ Len(Rows(t)) \in Nat
        BY <4>2, EntryFacts
      <4>4. j \in 1 .. i
        BY SMTT(40), <1>a, <3>3, <4>1, <4>3
      <4> QED BY <1>4, <3>3, <4>4
    <3>4. u \in 1 .. sess.sent \/ u = t
      BY SMTT(40), <1>a, <3>1
    <3> QED BY <3>2, <3>3, <3>4
  <2> QED BY <1>d, <2>1, <2>2
<1> QED BY <1>5, <1>6

\* The handler gives a row to the bus.
LEMMA EmitToBusKeeps ==
  ASSUME SetLaws, Typed, Typed', Sound, EmitToBus
  PROVE  Sound'
<1> SUFFICES ASSUME TypeOK, TypeOK', IInv
             PROVE  IInv'
  BY DEF Typed, Sound
<1> DEFINE t == sess.sent + 1
           i == sess.at
<1>a. AtRow /\ i \in Nat /\ sess.sent \in Nat /\ t \in Nat /\ Grows(<<t, i>>)
  BY SMTT(40), EmitFacts
<1>b. UNCHANGED <<binlog, committed, skipped, gate, offsetFile, sess, stream>> /\ sess.up
  BY <1>a DEF Grows, AtRow, Streaming
<1>c. LogGrows
  BY SMTT(40), <1>b DEF LogGrows, TypeOK
<1>1. WaitingIsCounted'
  BY <1>a, GrowsCounted
<1>2. QueueInOrder' /\ EventsAreChanges' /\ MessagesAreChanges'
  BY EmitQueue
<1>3. SessionIsSound'
  BY EmitSession
<1>4. StreamedIsAccounted' /\ QueueHasNoGaps'
  BY EmitAccount
<1>5. /\ Marks' = Marks
      /\ \A k \in 1 .. Len(gate'.commits) : gate'.commits[k].pos \in Boundaries'
  BY <1>b, <1>c, MarksKept DEF IInv
<1>6. CommitsAreAccounted'
  <2>1. ASSUME NEW m \in Marks
        PROVE  m[1] <= gate'.handed /\ (sess'.up => m[2] <= sess'.sent) /\ Divides(m[1], m[2])'
    <3>1. m[1] <= gate.handed /\ m[2] <= sess.sent /\ Divides(m[1], m[2])
      BY <1>b DEF IInv, CommitsAreAccounted
    <3>2. m[1] \in Nat /\ m[2] \in Nat
      BY MarkType
    <3>3. m[2] < t
      BY SMTT(40), <1>a, <3>1, <3>2
    <3>4. Divides(m[1], m[2])'
      BY <1>a, <3>1, <3>2, <3>3, GrowsDivides
    <3> QED BY <1>b, <3>1, <3>4
  <2> QED BY <1>5, <2>1 DEF CommitsAreAccounted
<1>7. CommitsInOrder'
  BY <1>b, <1>c, OrderKept DEF IInv
<1>8. PositionsAreDelivered'
  <2>1. Settled' = Settled
    BY SMTT(40), <1>b DEF Settled, Contract!DeliveredUpTo, Contract!Owed, Stored
  <2>2. Boundaries \subseteq Boundaries' /\ \A p : Rank(p)' = Rank(p)
    BY <1>c, BoundariesKept, LogFixed DEF LogGrows
  <2> QED BY <1>b, <1>5, <2>1, <2>2 DEF IInv, PositionsAreDelivered
<1>9. SkippedIsPrefix'
  BY <1>b, <1>c, SkippedKept DEF IInv
<1> QED BY <1>1, <1>2, <1>3, <1>4, <1>6, <1>7, <1>8, <1>9 DEF IInv

=============================================================================
