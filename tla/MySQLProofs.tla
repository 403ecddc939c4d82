---------------------------- MODULE MySQLProofs -----------------------------
(***************************************************************************)
(* The offset saver, the end and the start of the process keep the         *)
(* invariant; what follows from it for the MySQL pipeline: its safety      *)
(* invariants, the offset that never retreats, and the delivery contract.  *)
(***************************************************************************)
EXTENDS MySQLStepProofs

\* The prover of the leaves that name none, and its time limit.
USE ZenonT(40)

-----------------------------------------------------------------------------
(***************************************************************************)
(* The offset saver and the process.                                       *)
(***************************************************************************)

\* What the gate lets the saver write is a boundary with everything before it
\* stored, behind everything the gate still holds.
LEMMA GateSettles ==
  ASSUME SetLaws, Typed, Sound
  PROVE  LET s == Confirmable(gate, acked)
         IN  /\ s \in CommitGateType /\ s.handed = gate.handed
             /\ s.confirmable \in Boundaries \cup {NoPosition} /\ Rank(s.confirmable) \in Settled
             /\ s.confirmable # NoPosition => Rank(offsetFile) <= Rank(s.confirmable)
             /\ sess.up => Rank(s.confirmable) <= sess.sent
             /\ \A k \in 1 .. Len(s.commits) :
                  /\ s.commits[k].pos \in Boundaries
                  /\ <<s.commits[k].lastHanded, Rank(s.commits[k].pos)>> \in Marks
                  /\ Rank(s.confirmable) <= Rank(s.commits[k].pos)
             /\ \A j, k \in 1 .. Len(s.commits) : j < k =>
                  /\ s.commits[j].lastHanded < s.commits[k].lastHanded
                  /\ Rank(s.commits[j].pos) <= Rank(s.commits[k].pos)
<1> TypeOK /\ IInv
  BY DEF Typed, Sound
<1> DEFINE s == Confirmable(gate, acked)
           g == gate.commits
<1>0. gate \in CommitGateType /\ acked \in Nat
  BY DEF TypeOK
<1>1. s \in CommitGateType /\ s.handed = gate.handed
  BY SMTT(30), <1>0, ConfirmableFacts
<1>2. PICK n \in 0 .. Len(g) :
        /\ \A k \in 1 .. n : g[k].lastHanded <= acked
        /\ Len(s.commits) = Len(g) - n
        /\ \A k \in 1 .. Len(s.commits) : s.commits[k] = g[k + n]
        /\ n = 0 => s.confirmable = gate.confirmable
        /\ n # 0 => s.confirmable = g[n].pos
  BY <1>0, ConfirmableFacts
<1> HIDE DEF s
<1>3. /\ Len(g) \in Nat /\ \A k \in 1 .. Len(g) : g[k].lastHanded \in Nat
      /\ \A p : Rank(p) \in 0 .. MaxEntries /\ Rank(p) \in Nat
  BY SMTT(40), <1>0, GateFields, RankType
<1>4. \A k \in 1 .. Len(g) : /\ g[k].pos \in Boundaries
                             /\ <<g[k].lastHanded, Rank(g[k].pos)>> \in Marks
  BY DEF IInv, CommitsAreAccounted, Marks
<1>5. ASSUME NEW k \in 1 .. Len(g)
      PROVE  /\ Rank(offsetFile) <= Rank(g[k].pos) /\ Rank(gate.confirmable) <= Rank(g[k].pos)
             /\ sess.up => Rank(g[k].pos) <= sess.sent
             /\ Divides(g[k].lastHanded, Rank(g[k].pos))
  <2> DEFINE m == <<g[k].lastHanded, Rank(g[k].pos)>>
  <2>1. m \in Marks /\ m[1] = g[k].lastHanded /\ m[2] = Rank(g[k].pos)
    BY <1>4
  <2> HIDE DEF m
  <2>2. /\ Rank(offsetFile) <= m[2] /\ Rank(gate.confirmable) <= m[2]
        /\ (sess.up => m[2] <= sess.sent) /\ Divides(m[1], m[2])
    BY <2>1 DEF IInv, CommitsAreAccounted, PositionsAreDelivered
  <2> QED BY <2>1, <2>2
<1>6. \A j, k \in 1 .. Len(g) : j < k => /\ g[j].lastHanded < g[k].lastHanded
                                         /\ Rank(g[j].pos) <= Rank(g[k].pos)
  BY DEF IInv, CommitsInOrder
<1>7. /\ s.confirmable \in Boundaries \cup {NoPosition} /\ Rank(s.confirmable) \in Settled
      /\ s.confirmable # NoPosition => Rank(offsetFile) <= Rank(s.confirmable)
      /\ sess.up => Rank(s.confirmable) <= sess.sent
  <2>1. CASE n = 0
    BY <1>2, <2>1 DEF IInv, PositionsAreDelivered
  <2>2. CASE n # 0
    <3>1. n \in 1 .. Len(g) /\ s.confirmable = g[n].pos /\ g[n].lastHanded <= acked
      BY SMTT(40), <1>2, <1>3, <2>2
    <3>2. Contract!DeliveredUpTo(Rank(g[n].pos))
      BY <1>3, <1>5, <3>1, AckedIsStored DEF IInv
    <3> QED BY <1>3, <1>4, <1>5, <3>1, <3>2 DEF Settled
  <2> QED BY <2>1, <2>2
<1>8. \A k \in 1 .. Len(s.commits) : k + n \in 1 .. Len(g) /\ s.commits[k] = g[k + n]
  BY SMTT(40), <1>2, <1>3
<1>9. ASSUME NEW k \in 1 .. Len(s.commits)
      PROVE  /\ s.commits[k].pos \in Boundaries
             /\ <<s.commits[k].lastHanded, Rank(s.commits[k].pos)>> \in Marks
             /\ Rank(s.confirmable) <= Rank(s.commits[k].pos)
  <2>1. k + n \in 1 .. Len(g) /\ s.commits[k] = g[k + n]
    BY <1>8
  <2>2. Rank(s.confirmable) <= Rank(g[k + n].pos)
    <3>1. CASE n = 0
      BY <1>2, <1>5, <2>1, <3>1
    <3>2. CASE n # 0
      <4>1. n \in 1 .. Len(g) /\ n < k + n /\ s.confirmable = g[n].pos
        BY SMTT(40), <1>2, <1>3, <3>2
      <4> QED BY <1>6, <2>1, <4>1
    <3> QED BY <3>1, <3>2
  <2> QED BY <1>4, <2>1, <2>2
<1>10. ASSUME NEW j \in 1 .. Len(s.commits), NEW k \in 1 .. Len(s.commits), j < k
       PROVE  /\ s.commits[j].lastHanded < s.commits[k].lastHanded
              /\ Rank(s.commits[j].pos) <= Rank(s.commits[k].pos)
  <2>1. j + n < k + n
    BY SMTT(40), <1>2, <1>3, <1>10
  <2> QED BY <1>6, <1>8, <2>1
<1> QED BY <1>1, <1>7, <1>9, <1>10 DEF s

\* The saver's tick.
LEMMA OffsetSaverKeeps ==
  ASSUME SetLaws, Typed, Typed', Sound, OffsetSaver
  PROVE  Sound'
<1> SUFFICES ASSUME TypeOK, TypeOK', IInv
             PROVE  IInv'
  BY DEF Typed, Sound
<1> DEFINE s == Confirmable(gate, acked)
<1>a. /\ UNCHANGED <<chan, publisherVars, binlog, committed, sess, handing, acked, proc, skipped>>
      /\ UNCHANGED <<currentFile, txn, txnRows>> /\ proc = "up" /\ gate' = s
  BY DEF OffsetSaver, pubVars, publisherVars, dbVars, handlerVars
<1>b. ToSave = s.confirmable
  BY DEF ToSave
<1>c. offsetFile' = offsetFile \/ (offsetFile' = s.confirmable /\ s.confirmable # NoPosition)
  <2>1. CASE SaveIsDue
    <3>1. Save(ToSave) /\ ToSave # NoPosition
      BY SMTT(40), <2>1 DEF OffsetSaver, SaveIsDue, NoPosition
    <3> QED BY <1>b, <3>1 DEF Save
  <2>2. CASE ~SaveIsDue
    BY <2>2 DEF OffsetSaver
  <2> QED BY <2>1, <2>2
<1>1. /\ s \in CommitGateType /\ s.handed = gate.handed
      /\ s.confirmable \in Boundaries \cup {NoPosition} /\ Rank(s.confirmable) \in Settled
      /\ s.confirmable # NoPosition => Rank(offsetFile) <= Rank(s.confirmable)
      /\ sess.up => Rank(s.confirmable) <= sess.sent
      /\ \A k \in 1 .. Len(s.commits) :
           /\ s.commits[k].pos \in Boundaries
           /\ <<s.commits[k].lastHanded, Rank(s.commits[k].pos)>> \in Marks
           /\ Rank(s.confirmable) <= Rank(s.commits[k].pos)
      /\ \A j, k \in 1 .. Len(s.commits) : j < k =>
           /\ s.commits[j].lastHanded < s.commits[k].lastHanded
           /\ Rank(s.commits[j].pos) <= Rank(s.commits[k].pos)
  BY GateSettles
<1> HIDE DEF s
<1>2. LogGrows /\ Emitted' = Emitted /\ NextRow' = NextRow
  BY SMTT(40), <1>a, <1>1 DEF LogGrows, TypeOK, Emitted, NextRow
<1>3. QueueStands
  BY <1>a, <1>2, QueueStill
<1>4. /\ \A p : Rank(p)' = Rank(p) /\ Rank(p) \in Nat
      /\ Settled \subseteq Settled' /\ Boundaries \subseteq Boundaries'
  BY SMTT(40), <1>2, <1>3, LogFixed, RankType, SettledKept, BoundariesKept DEF LogGrows, QueueStands
<1>5. SessionIsSound'
  <2>1. \A c \in Waiting' : c \in Waiting
    BY <1>3 DEF QueueStands, Shrinks
  <2>2. Entry' = Entry
    BY <1>a DEF Entry
  <2>3. /\ Boundary(sess.sent)' = Boundary(sess.sent) /\ Inside(sess.sent, 1)' = Inside(sess.sent, 1)
        /\ EmittedBefore(sess.sent + 1, NextRow)' = EmittedBefore(sess.sent + 1, NextRow)
    BY <1>a, <1>2 DEF Boundary, Rotations, Inside, EmittedBefore, Rows
  <2>4. proc' # "down"
    BY <1>a
  <2> QED BY <1>a, <1>2, <2>1, <2>2, <2>3, <2>4 DEF IInv, SessionIsSound
<1>6. StreamedIsAccounted'
  BY <1>a, <1>2, <1>3, StreamedKept DEF IInv, QueueStands
<1>7. \A m \in Marks' : /\ m \in Marks /\ Rank(s.confirmable) <= m[2]
  <2> SUFFICES ASSUME NEW m \in Marks' PROVE m \in Marks /\ Rank(s.confirmable) <= m[2]
    OBVIOUS
  <2>1. PICK k \in 1 .. Len(s.commits) : m = <<s.commits[k].lastHanded, Rank(s.commits[k].pos)>>
    BY <1>a, <1>4 DEF Marks
  <2> QED BY <1>1, <2>1
<1>8. CommitsAreAccounted'
  <2>1. gate'.handed \in Nat /\ gate'.handed >= gate.handed /\ sess'.sent \in Nat /\ sess'.sent >= sess.sent
    BY SMTT(40), <1>a, <1>1, GateFields DEF TypeOK
  <2>2. \A k \in 1 .. Len(gate'.commits) : gate'.commits[k].pos \in Boundaries'
    BY <1>a, <1>1, <1>4
  <2> QED BY <1>a, <1>3, <1>7, <2>1, <2>2, CommitsKept DEF IInv, QueueStands
<1>9. CommitsInOrder'
  BY <1>a, <1>1, <1>4 DEF CommitsInOrder
<1>10. PositionsAreDelivered'
  <2>1. \A p \in {offsetFile', gate'.confirmable} :
          p \in Boundaries' \cup {NoPosition} /\ Rank(p)' \in Settled'
    <3>1. \A p \in {offsetFile, s.confirmable} :
            p \in Boundaries \cup {NoPosition} /\ Rank(p) \in Settled
      BY <1>1 DEF IInv, PositionsAreDelivered
    <3> QED BY <1>a, <1>c, <1>4, <3>1
  <2>2. Rank(offsetFile)' \in {Rank(offsetFile), Rank(s.confirmable)} /\ Rank(gate.confirmable)' = Rank(s.confirmable)
    BY <1>a, <1>c, <1>4
  <2>3. gate'.confirmable # NoPosition => Rank(offsetFile)' <= Rank(gate.confirmable)'
    BY SMTT(40), <1>a, <1>1, <1>4, <2>2
  <2>4. \A m \in Marks' : Rank(offsetFile)' <= m[2] /\ Rank(gate.confirmable)' <= m[2]
    BY <1>7, <2>2 DEF IInv, PositionsAreDelivered
  <2>5. sess'.up => Rank(offsetFile)' <= sess'.sent /\ Rank(gate.confirmable)' <= sess'.sent
    BY <1>a, <1>1, <2>2 DEF IInv, PositionsAreDelivered
  <2> QED BY <2>1, <2>3, <2>4, <2>5 DEF PositionsAreDelivered
<1> QED BY <1>3, <1>5, <1>6, <1>8, <1>9, <1>10, ListenerMoves DEF Sound

\* A process that ends leaves a log, a stream and an offset.
LEMMA EndKeeps ==
  ASSUME SetLaws, Typed, Typed', Sound, MemoryLost, NEW q \in Boundaries \cup {NoPosition},
         Rank(q) \in Settled, offsetFile' = q
  PROVE  Sound'
<1> SUFFICES ASSUME TypeOK, TypeOK', IInv
             PROVE  IInv'
  BY DEF Typed, Sound
<1>a. /\ chan' = <<>> /\ cur' = NoEvent /\ pub' = "await" /\ ~ctxDone'
      /\ UNCHANGED <<stream, remembered, binlog, committed, skipped>>
      /\ sess' = NoSession /\ ~handing' /\ gate' = newCommitGate /\ acked' = 0 /\ proc' = "down"
  BY DEF MemoryLost, PubEnds, dbVars
<1>b. LogGrows
  BY SMTT(40), <1>a DEF LogGrows, TypeOK
<1>c. /\ gate'.handed = 0 /\ gate'.commits = <<>> /\ gate'.confirmable = NoPosition
      /\ ~sess'.up /\ sess'.sent = 0 /\ sess'.at = 0
  BY <1>a DEF newCommitGate, NoSession
<1>1. Queue' = {} /\ Waiting' = {}
  BY <1>a, QueueEmpty DEF Waiting
<1>2. WaitingIsCounted'
  <2>1. Emitted' = 0 /\ IsFiniteSet(Waiting') /\ Cardinality(Waiting') = 0
    BY SMTT(40), <1>a, <1>c, <1>1, CountEmpty DEF Emitted
  <2> QED BY SMTT(40), <1>a, <2>1 DEF WaitingIsCounted
<1>3. QueueInOrder'
  BY SMTT(40), <1>a DEF QueueInOrder
<1>4. MessagesAreChanges' /\ EventsAreChanges'
  <2>1. MessagesAreChanges'
    BY <1>a, <1>b, MessagesKept DEF IInv, LogGrows
  <2> QED BY <1>1, <2>1 DEF EventsAreChanges
<1>5. SessionIsSound'
  <2>1. ProcessIsDown'
    BY <1>a DEF ProcessIsDown
  <2>2. 0 <= committed'
    BY SMTT(40), <1>a DEF TypeOK
  <2> QED BY <1>a, <1>c, <2>1, <2>2 DEF SessionIsSound
<1>6. StreamedIsAccounted' /\ CommitsInOrder' /\ QueueHasNoGaps'
  BY SMTT(40), <1>1, <1>c DEF StreamedIsAccounted, CommitsInOrder, QueueHasNoGaps
<1>7. Marks' = {} /\ CommitsAreAccounted'
  <2>1. Marks' = {}
    BY SMTT(40), <1>c DEF Marks
  <2> QED BY SMTT(40), <1>c, <2>1 DEF CommitsAreAccounted
<1>8. PositionsAreDelivered'
  <2>1. /\ Settled' = Settled
    BY SMTT(40), <1>a DEF Settled, Contract!DeliveredUpTo, Contract!Owed, Stored
  <2>2. Boundaries \subseteq Boundaries' /\ \A p : Rank(p)' = Rank(p)
    BY <1>b, BoundariesKept, LogFixed DEF LogGrows
  <2>3. 0 \in Settled
    BY SMTT(40), MySQLAssumption DEF Settled, Contract!DeliveredUpTo
  <2>4. \A p \in {offsetFile', gate'.confirmable} :
          p \in Boundaries' \cup {NoPosition} /\ Rank(p)' \in Settled'
    BY <1>c, <2>1, <2>2, <2>3, RankOfNone
  <2> QED BY <1>c, <1>7, <2>4 DEF PositionsAreDelivered
<1>9. SkippedIsPrefix'
  BY <1>a, <1>b, SkippedKept DEF IInv
<1> QED BY <1>2, <1>3, <1>4, <1>5, <1>6, <1>7, <1>8, <1>9 DEF IInv

\* The process crashes.
LEMMA CrashKeeps ==
  ASSUME SetLaws, Typed, Typed', Sound, Crash
  PROVE  Sound'
<1> SUFFICES ASSUME TypeOK, TypeOK', IInv
             PROVE  IInv'
  BY DEF Typed, Sound
<1>1. offsetFile \in Boundaries \cup {NoPosition} /\ Rank(offsetFile) \in Settled
  BY DEF IInv, PositionsAreDelivered
<1> QED BY <1>1, EndKeeps DEF Crash, Sound

\* The process stops, with a last save.
LEMMA StopKeeps ==
  ASSUME SetLaws, Typed, Typed', Sound, StopProcess
  PROVE  Sound'
<1> SUFFICES ASSUME TypeOK, TypeOK', IInv
             PROVE  IInv'
  BY DEF Typed, Sound
<1>1. offsetFile \in Boundaries \cup {NoPosition} /\ Rank(offsetFile) \in Settled
  BY DEF IInv, PositionsAreDelivered
<1>2. ToSave \in Boundaries \cup {NoPosition} /\ Rank(ToSave) \in Settled
  BY GateSettles DEF ToSave
<1>3. MemoryLost /\ offsetFile' \in {offsetFile, ToSave}
  BY DEF StopProcess
<1> QED BY <1>1, <1>2, <1>3, EndKeeps DEF Sound

\* Where a process starts, and what it skips.
LEMMA StartFacts ==
  ASSUME SetLaws, Typed, Typed', Sound, resolveStartPosition
  PROVE  /\ startPos \in Boundaries /\ startPos = Boundary(Rank(startPos))
         /\ offsetFile' \in {offsetFile, startPos} /\ Rank(offsetFile) <= Rank(startPos)
         /\ skipped \subseteq skipped'
         /\ IF offsetFile = NoPosition THEN skipped' = 1 .. committed /\ Rank(startPos) = committed
            ELSE skipped' = skipped /\ startPos = offsetFile
<1> TypeOK /\ TypeOK' /\ IInv
  BY DEF Typed, Sound
<1>a. committed \in 0 .. MaxEntries /\ MaxEntries \in Nat /\ committed \in 0 .. committed
  BY SMTT(40), MySQLAssumption DEF TypeOK
<1>b. \A p : Rank(p) \in Nat
  BY SMTT(40), RankType
<1>1. CASE offsetFile = NoPosition
  <2>1. startPos = Boundary(committed) /\ Rank(startPos) = committed
    BY <1>a, <1>1, RankOfBoundary DEF startPos
  <2>2. Save(startPos) /\ skipped' = skipped \cup (1 .. committed)
    BY <1>1 DEF resolveStartPosition
  <2>3. skipped' = 1 .. committed
    BY SMTT(40), <1>a, <2>2 DEF IInv, SkippedIsPrefix
  <2>4. offsetFile' \in {offsetFile, startPos}
    BY <2>2 DEF Save
  <2>5. Rank(offsetFile) <= Rank(startPos)
    BY SMTT(40), <1>b, <1>1, RankOfNone
  <2>6. startPos \in Boundaries
    BY <1>a, <2>1 DEF Boundaries
  <2> QED BY <1>1, <2>1, <2>2, <2>3, <2>4, <2>5, <2>6
<1>2. CASE offsetFile # NoPosition
  <2>1. startPos = offsetFile /\ offsetFile' = offsetFile /\ skipped' = skipped
    BY <1>2 DEF startPos, resolveStartPosition
  <2>2. offsetFile \in Boundaries
    BY <1>2 DEF IInv, PositionsAreDelivered
  <2> QED BY SMTT(40), <1>b, <1>2, <2>1, <2>2, BoundaryOfRank
<1> QED BY <1>1, <1>2

\* A process starts at a boundary that has everything owed before it stored.
LEMMA StartKeeps ==
  ASSUME SetLaws, Typed, Typed', Sound, StartProcess
  PROVE  Sound'
<1> SUFFICES ASSUME TypeOK, TypeOK', IInv
             PROVE  IInv'
  BY DEF Typed, Sound
<1>a. /\ UNCHANGED <<chan, publisherVars, binlog, committed, handing, gate, acked, txn, txnRows>>
      /\ proc = "down" /\ proc' = "up" /\ resolveStartPosition
      /\ currentFile' = startPos.file /\ sess' = [up |-> TRUE, sent |-> Rank(startPos), at |-> 0]
  BY DEF StartProcess, pubVars, publisherVars, dbVars
<1>b. /\ chan = <<>> /\ cur = NoEvent /\ ~handing /\ gate = newCommitGate /\ acked = 0
  BY <1>a DEF IInv, SessionIsSound, ProcessIsDown
<1>c. UNCHANGED <<cur, pub, ctxDone, stream, remembered>>
  BY <1>a DEF publisherVars
<1>d. LogGrows
  BY SMTT(40), <1>a DEF LogGrows, TypeOK
<1>e. /\ gate'.commits = <<>> /\ gate'.confirmable = NoPosition /\ Emitted' = Emitted
      /\ sess'.up /\ sess'.sent = Rank(startPos) /\ sess'.at = 0 /\ ~handing' /\ NextRow' = 0
  BY SMTT(40), <1>a, <1>b DEF newCommitGate, NextRow, Emitted
<1>1. Queue' = {} /\ Waiting' = {} /\ Queue = {} /\ Waiting = {}
  BY <1>a, <1>b, <1>c, QueueEmpty, QueueUnchanged DEF Waiting
<1>2. WaitingIsCounted' /\ QueueInOrder' /\ EventsAreChanges'
  <2>1. WaitingIsCounted'
    BY <1>a, <1>1, <1>e DEF IInv, WaitingIsCounted
  <2>2. QueueInOrder'
    BY <1>a, <1>c DEF IInv, QueueInOrder
  <2>3. EventsAreChanges'
    BY <1>1 DEF EventsAreChanges
  <2> QED BY <2>1, <2>2, <2>3
<1>3. MessagesAreChanges'
  BY <1>c, <1>d, MessagesKept DEF IInv, LogGrows
<1>4. /\ startPos \in Boundaries /\ startPos = Boundary(Rank(startPos))
      /\ offsetFile' \in {offsetFile, startPos} /\ Rank(offsetFile) <= Rank(startPos)
      /\ skipped \subseteq skipped'
      /\ IF offsetFile = NoPosition THEN skipped' = 1 .. committed /\ Rank(startPos) = committed
         ELSE skipped' = skipped /\ startPos = offsetFile
  BY <1>a, StartFacts
<1>5. Settled \subseteq Settled'
  <2>1. \A t, i : Contract!Owed(t, i)' => Contract!Owed(t, i)
    BY <1>a, <1>4 DEF Contract!Owed
  <2>2. Stored' = Stored /\ (Halted' <=> Halted) /\ acked' = acked /\ binlog' = binlog
    BY <1>a, <1>c DEF Stored, Halted
  <2>3. Shrinks
    BY <1>1, <1>e, <2>1, <2>2 DEF Shrinks
  <2> QED BY <2>3, SettledKept
<1>6. Rank(startPos) \in Settled'
  <2>1. CASE offsetFile # NoPosition
    <3>1. Rank(offsetFile) \in Settled
      BY DEF IInv, PositionsAreDelivered
    <3> QED BY <1>4, <1>5, <2>1, <3>1
  <2>2. CASE offsetFile = NoPosition
    <3>0. committed \in 0 .. MaxEntries /\ MaxEntries \in Nat
      BY MySQLAssumption DEF TypeOK
    <3>1. \A u \in 1 .. committed : \A i : ~Contract!Owed(u, i)'
      BY <1>4, <2>2 DEF Contract!Owed
    <3>2. \A u \in 1 .. committed : \A i \in DOMAIN Rows(u)' : Contract!Owed(u, i)' => <<u, i>> \in Stored'
      BY <3>1
    <3>3. Contract!DeliveredUpTo(committed)'
      <4>1. PICK n : n = committed
        OBVIOUS
      <4>2. Contract!DeliveredUpTo(n)'
        BY <3>0, <3>2, <4>1, DeliveredFactsNext
      <4> QED BY <1>a, <4>1, <4>2
    <3> QED BY <1>a, <1>4, <2>2, <3>0, <3>3 DEF Settled
  <2> QED BY <2>1, <2>2
<1>7. /\ Rank(startPos) \in 0 .. committed /\ Rank(startPos) \in 0 .. MaxEntries
  BY <1>4, BoundaryOfRank
<1>8. SessionIsSound'
  <2>1. sess'.sent <= committed' /\ proc' # "down" /\ sess'.at = 0
    BY SMTT(40), <1>a, <1>e, <1>7 DEF TypeOK
  <2>2. currentFile' = Boundary(sess.sent)'.file
    <3>1. PICK n : n = Rank(startPos)
      OBVIOUS
    <3>2. sess'.sent = n /\ startPos = Boundary(n)
      BY <1>4, <1>e, <3>1
    <3>3. Boundary(sess.sent)' = Boundary(n)
      BY <1>a, <3>2 DEF Boundary, Rotations
    <3> QED BY <1>a, <3>2, <3>3
  <2>3. \A c \in Waiting' : Precedes(c, <<sess'.sent + 1, NextRow'>>)
    BY <1>1
  <2> QED BY <1>e, <2>1, <2>2, <2>3 DEF SessionIsSound
<1>9. StreamedIsAccounted'
  <2>1. PICK n \in 0 .. MaxEntries : n = Rank(startPos)
    BY <1>7
  <2>2. Contract!DeliveredUpTo(n)'
    BY <1>6, <2>1 DEF Settled
  <2>3. \A u \in 1 .. n : \A i \in DOMAIN Rows(u)' : Contract!Owed(u, i)' => <<u, i>> \in Stored'
    BY <2>2, DeliveredFactsNext
  <2>4. \A u \in 1 .. sess'.sent : \A i \in DOMAIN Rows(u)' :
          Contract!Owed(u, i)' => Accounted(u, i, Emitted)'
    BY <1>e, <2>1, <2>3 DEF Accounted
  <2>5. 1 .. NextRow' - 1 = {}
    BY SMTT(40), <1>e
  <2> QED BY <2>4, <2>5 DEF StreamedIsAccounted
<1>10. Marks' = {} /\ CommitsAreAccounted' /\ CommitsInOrder' /\ QueueHasNoGaps'
  <2>1. Marks' = {}
    BY SMTT(40), <1>e DEF Marks
  <2> QED BY SMTT(40), <1>e, <1>1, <2>1 DEF CommitsAreAccounted, CommitsInOrder, QueueHasNoGaps
<1>11. PositionsAreDelivered'
  <2>0. 0 \in Settled' /\ \A p : Rank(p)' = Rank(p) /\ Rank(p) \in Nat
    <3>1. 0 \in Settled
      BY SMTT(40), MySQLAssumption DEF Settled, Contract!DeliveredUpTo
    <3> QED BY SMTT(40), <1>5, <1>d, <3>1, LogFixed, RankType DEF LogGrows
  <2>1. Boundaries \subseteq Boundaries'
    BY <1>d, BoundariesKept
  <2>2. offsetFile \in Boundaries \cup {NoPosition} /\ Rank(offsetFile) \in Settled
    BY DEF IInv, PositionsAreDelivered
  <2>3. \A p \in {offsetFile', gate'.confirmable} :
          p \in Boundaries' \cup {NoPosition} /\ Rank(p)' \in Settled'
    BY <1>4, <1>5, <1>6, <1>e, <2>0, <2>1, <2>2, RankOfNone
  <2>4. sess'.up => Rank(offsetFile)' <= sess'.sent /\ Rank(gate.confirmable)' <= sess'.sent
    BY SMTT(40), <1>4, <1>e, <2>0, RankOfNone
  <2> QED BY <1>e, <1>10, <2>3, <2>4 DEF PositionsAreDelivered
<1>12. SkippedIsPrefix'
  <2>1. CASE offsetFile = NoPosition
    <3>1. committed' \in 0 .. committed' /\ skipped' = 1 .. committed'
      BY SMTT(40), <1>a, <1>4, <2>1 DEF TypeOK
    <3> QED BY <3>1 DEF SkippedIsPrefix
  <2>2. CASE offsetFile # NoPosition
    BY <1>4, <1>d, <2>2, SkippedKept DEF IInv
  <2> QED BY <2>1, <2>2
<1> QED BY <1>2, <1>3, <1>8, <1>9, <1>10, <1>11, <1>12 DEF IInv

\* Every step keeps the invariant.
LEMMA InvariantStep ==
  ASSUME SetLaws, Typed, Sound, [Next]_vars
  PROVE  Typed' /\ Sound'
<1> SUFFICES ASSUME TypeOK, IInv
             PROVE  TypeOK' /\ IInv'
  BY DEF Typed, Sound
<1>1. CASE UNCHANGED vars
  <2>1. TypeOK'
    BY SMTT(40), <1>1 DEF vars, TypeOK, PubTypeOK
  <2>2. proc = "up" \/ UNCHANGED <<chan, cur, pub, ctxDone, acked>>
    BY <1>1 DEF vars
  <2>3. /\ UNCHANGED <<chan, publisherVars, binlog, committed, offsetFile, sess, handing, gate, acked>>
        /\ UNCHANGED <<currentFile, txn, txnRows, proc, skipped>>
    BY <1>1 DEF vars, publisherVars
  <2>4. LogGrows /\ Emitted' = Emitted /\ NextRow' = NextRow
    BY SMTT(40), <2>3 DEF LogGrows, TypeOK, Emitted, NextRow
  <2>5. QueueStands
    BY <2>3, <2>4, QueueStill
  <2>6. SessionIsSound'
    BY <2>2, <2>3, <2>4, <2>5, SessionKept DEF IInv, QueueStands, Shrinks
  <2>7. StreamedIsAccounted'
    BY <2>3, <2>4, <2>5, StreamedKept DEF IInv, QueueStands
  <2>8. gate'.handed >= gate.handed /\ sess'.sent >= sess.sent
    BY SMTT(40), <2>3, GateFields DEF TypeOK
  <2> QED BY <2>1, <2>3, <2>5, <2>6, <2>7, <2>8, EntriesStand DEF Typed, Sound
<1>2. CASE Next
  <2>0. TypeOK'
    BY <1>2, TypeStep DEF IInv, Typed
  <2>1. CASE DbCommit \/ StartProcess \/ Crash \/ StopProcess \/ OffsetSaver \/ CanalFails
    BY <2>0, <2>1, DbCommitKeeps, StartKeeps, CrashKeeps, StopKeeps, OffsetSaverKeeps, CanalFailsKeeps
       DEF Typed, Sound
  <2>2. CASE CanalCalls
    BY <2>0, <2>2, OnGTIDKeeps, EmitToBusKeeps, EmitHandKeeps, FilteredRowKeeps, OnXIDKeeps,
       OnDDLKeeps, OnRotateKeeps DEF CanalCalls, Typed, Sound
  <2>3. CASE PublishAndObserve
    BY <2>0, <2>3, ListenerWaits DEF PublishAndObserve, Typed, Sound
  <2>4. CASE PublisherRuns
    BY <2>0, <2>4, ListenerWaits DEF PublisherRuns, Typed, Sound
  <2>5. CASE NatsChanges
    BY <2>0, <2>5, ListenerWaits DEF NatsChanges, Typed, Sound
  <2>6. CASE Signal \/ MainReacts
    BY <2>0, <2>6, ListenerWaits DEF Signal, MainReacts, Typed, Sound
  <2>7. CASE WindowMoves
    BY <2>0, <2>7, ListenerWaits DEF WindowMoves, Typed, Sound
  <2> QED BY <1>2, <2>0, <2>1, <2>2, <2>3, <2>4, <2>5, <2>6, <2>7 DEF Next
<1> QED BY <1>1, <1>2


\* The offset file only names boundaries that have everything before them
\* stored, and the gate's entries wait on different counts.
LEMMA InvariantImplies ==
  ASSUME Typed, Sound
  PROVE  OffsetIsDelivered /\ OffsetIsBoundary /\ OneEntryPerEvent
<1> TypeOK /\ IInv
  BY DEF Typed, Sound
<1>1. OffsetIsDelivered
  BY DEF IInv, PositionsAreDelivered, Settled, OffsetIsDelivered
<1>2. OffsetIsBoundary
  BY DEF IInv, PositionsAreDelivered, Boundaries, OffsetIsBoundary
<1>3. \A k \in 1 .. Len(gate.commits) : gate.commits[k].lastHanded <= gate.handed
  <2> SUFFICES ASSUME NEW k \in 1 .. Len(gate.commits)
               PROVE  gate.commits[k].lastHanded <= gate.handed
    OBVIOUS
  <2> DEFINE m == <<gate.commits[k].lastHanded, Rank(gate.commits[k].pos)>>
  <2>1. m \in Marks
    BY DEF Marks
  <2>2. m[1] <= gate.handed
    BY <2>1 DEF IInv, CommitsAreAccounted
  <2> QED BY <2>2
<1>4. OneEntryPerEvent
  BY <1>3 DEF IInv, CommitsInOrder, OneEntryPerEvent
<1> QED BY <1>1, <1>2, <1>4





-----------------------------------------------------------------------------
\* What waits for the publisher and is no change is the empty marker.
MarkersAreEmpty ==
  \A k \in 1 .. Len(chan) : chan[k] = NoEvent \/ IsPublishable(chan[k])

\* What is on the bus stays the empty marker or an event to publish.
LEMMA MarkersStep ==
  ASSUME SetLaws, Typed, Sound, MarkersAreEmpty, [Next]_vars
  PROVE  MarkersAreEmpty'
<1> TypeOK /\ IInv
  BY DEF Typed, Sound
<1>0. PubTypeOK /\ chan \in Seq(Event) /\ Len(chan) \in Nat
  BY SMTT(40) DEF TypeOK, PubTypeOK
<1>1. CASE chan' = chan
  BY <1>1 DEF MarkersAreEmpty
<1>2. CASE chan' = <<>>
  BY SMTT(40), <1>2 DEF MarkersAreEmpty
<1>3. CASE chan # <<>> /\ chan' = Tail(chan)
  <2>1. Len(chan') = Len(chan) - 1 /\ \A k \in 1 .. Len(chan') : chan'[k] = chan[k + 1]
    BY SMTT(40), <1>0, <1>3
  <2>2. \A k \in 1 .. Len(chan') : k + 1 \in 1 .. Len(chan)
    BY SMTT(40), <1>0, <2>1
  <2> QED BY <2>1, <2>2 DEF MarkersAreEmpty
<1>4. ASSUME NEW e \in Event, HandleEvent(e), e = NoEvent \/ IsPublishable(e)
      PROVE  MarkersAreEmpty'
  <2>1. CASE chan' = Append(chan, e)
    <3>1. /\ Len(chan') = Len(chan) + 1 /\ chan'[Len(chan) + 1] = e
          /\ \A k \in 1 .. Len(chan) : chan'[k] = chan[k]
      BY SMTT(40), <1>0, <2>1
    <3>2. \A k \in 1 .. Len(chan') : k \in 1 .. Len(chan) \/ k = Len(chan) + 1
      BY SMTT(40), <1>0, <3>1
    <3> QED BY <1>4, <3>1, <3>2 DEF MarkersAreEmpty
  <2> QED BY <1>1, <1>4, <2>1 DEF HandleEvent
<1>5. CASE UNCHANGED vars
  BY <1>1, <1>5 DEF vars
<1>6. CASE DbCommit \/ StartProcess \/ OffsetSaver \/ CanalFails
  BY <1>1, <1>6 DEF DbCommit, StartProcess, OffsetSaver, CanalFails, pubVars
<1>7. CASE Crash \/ StopProcess
  BY <1>2, <1>7 DEF Crash, StopProcess, MemoryLost, PubEnds
<1>8. CASE OnGTID \/ EmitHand \/ FilteredRow \/ OnDDL \/ OnRotate
  BY <1>1, <1>8 DEF OnGTID, EmitHand, FilteredRow, OnDDL, OnRotate, pubVars
<1>9. CASE OnXID
  BY <1>4, <1>9, KindFacts DEF OnXID
<1>10. CASE EmitToBus
  <2>1. HandleEvent(RowEvent) /\ AtRow /\ Entry.rows[sess.at] # "filtered"
    BY <1>10 DEF EmitToBus, RowEvent
  <2>2. RowEvent \in Event /\ IsPublishable(RowEvent)
    BY <2>1, RowEventType DEF IInv
  <2> QED BY <1>4, <2>1, <2>2
<1>11. CASE PublishAndObserve \/ PublisherRuns \/ NatsChanges \/ Signal \/ MainReacts \/ WindowMoves
  <2>1. chan' = chan \/ chan' = <<>> \/ (chan # <<>> /\ chan' = Tail(chan))
    BY <1>11 DEF PublishAndObserve, PublisherRuns, NatsChanges, Signal, MainReacts, WindowMoves,
       PublishAcked, PublisherStep, AwaitStream, AwaitFatal, Take, LoopCancelled, PublishAckLost,
       PublishDisconnected, PublishTooLarge, PublishCancelled, WaitOver, WaitClosed, Exit,
       NatsConnect, NatsDisconnect, NatsClosed, CancelContext, WindowExpires
  <2> QED BY <1>1, <1>2, <1>3, <2>1
<1> QED BY <1>5, <1>6, <1>7, <1>8, <1>9, <1>10, <1>11 DEF Next, CanalCalls

\* Two messages with one id come from one change, by the invariant.
LEMMA IdsFollow ==
  ASSUME SetLaws, Typed, Sound, MarkersAreEmpty
  PROVE  IdNamesOneChange
<1> TypeOK /\ IInv
  BY DEF Typed, Sound
<1> DEFINE All == {stream[k] : k \in 1 .. Len(stream)} \cup {chan[k] : k \in 1 .. Len(chan)} \cup {cur}
           Named(e) == Names(e.id, e.change) /\ e.change = <<e.change[1], e.change[2]>>
           Empty(e) == e.id = <<0, 0>> /\ e.change = <<0, 0>>
<1>1. ASSUME NEW e \in All PROVE Named(e) \/ Empty(e)
  <2>1. ASSUME NEW k \in 1 .. Len(stream), e = stream[k] PROVE Named(e)
    <3>1. Names(stream[k].id, stream[k].change)
      BY DEF IInv, MessagesAreChanges
    <3>2. stream[k].change = <<stream[k].change[1], stream[k].change[2]>>
      BY MessageType DEF TypeOK
    <3> QED BY <2>1, <3>1, <3>2
  <2>2. ASSUME e \in Queue PROVE Named(e)
    <3>1. Names(e.id, e.change)
      BY <2>2 DEF IInv, EventsAreChanges
    <3>2. e.change = <<e.change[1], e.change[2]>>
      BY <2>2, QueueType DEF TypeOK
    <3> QED BY <3>1, <3>2
  <2>3. e = NoEvent => Empty(e)
    BY SMTT(40) DEF NoEvent
  <2>4. \A k \in 1 .. Len(chan) : e = chan[k] => e \in Queue \/ e = NoEvent
    BY QueueMembers DEF MarkersAreEmpty
  <2>5. e = cur => e \in Queue \/ e = NoEvent
    BY QueueMembers DEF IInv, QueueInOrder
  <2> QED BY <1>1, <2>1, <2>2, <2>3, <2>4, <2>5
<1>2. ASSUME NEW e, Named(e) PROVE e.id # <<0, 0>> /\ e.change # <<0, 0>>
  <2> DEFINE t == e.change[1]
             i == e.change[2]
  <2>1. IsRow(t, i) /\ t \in Nat \ {0} /\ e.id = Id(t, i)
    BY <1>2, NamesRow
  <2>2. e.id # <<0, 0>>
    <3>1. LogType
      BY SessionFacts DEF IInv
    <3> HIDE DEF t, i
    <3> QED BY <2>1, <3>1, IdType
  <2>3. e.change # <<0, 0>>
    BY SMTT(40), <2>1, <1>2
  <2> QED BY <2>2, <2>3
<1>3. ASSUME NEW e, NEW f, Named(e), Named(f) PROVE (e.id = f.id) <=> (e.change = f.change)
  <2>1. ASSUME e.id = f.id PROVE e.change = f.change
    <3>1. Names(e.id, e.change) /\ Names(e.id, f.change)
      BY <1>3, <2>1
    <3>2. e.change[1] = f.change[1] /\ e.change[2] = f.change[2]
      BY SMTT(40), <3>1, NamesOne
    <3> QED BY <1>3, <3>2
  <2>2. ASSUME e.change = f.change PROVE e.id = f.id
    BY <1>3, <2>2 DEF Names
  <2> QED BY <2>1, <2>2
<1>4. ASSUME NEW e \in All, NEW f \in All PROVE (e.id = f.id) <=> (e.change = f.change)
  <2>1. (Named(e) \/ Empty(e)) /\ (Named(f) \/ Empty(f))
    BY <1>1
  <2>2. CASE Named(e) /\ Named(f)
    BY <1>3, <2>2
  <2>3. CASE Named(e) /\ Empty(f)
    BY <1>2, <2>3
  <2>4. CASE Empty(e) /\ Named(f)
    BY <1>2, <2>4
  <2>5. CASE Empty(e) /\ Empty(f)
    BY <2>5
  <2> QED BY <2>1, <2>2, <2>3, <2>4, <2>5
<1> QED BY <1>4 DEF IdNamesOneChange


\* The offset file stays, or comes to name a boundary that is no earlier; only a
\* start without an offset names one that is not delivered yet.
LEMMA OffsetStep ==
  ASSUME SetLaws, Typed, Sound, [Next]_vars
  PROVE  \/ UNCHANGED <<offsetFile, skipped>>
         \/ StartProcess
         \/ /\ OffsetSaver \/ StopProcess
            /\ offsetFile' \in Boundaries /\ Rank(offsetFile) <= Rank(offsetFile')
            /\ Rank(offsetFile') \in Settled
<1> TypeOK /\ IInv
  BY DEF Typed, Sound
<1>1. CASE UNCHANGED vars \/ DbCommit \/ Crash \/ CanalFails
  BY <1>1 DEF vars, DbCommit, Crash, MemoryLost, CanalFails
<1>2. CASE CanalCalls
  BY <1>2 DEF CanalCalls, OnGTID, EmitToBus, EmitHand, FilteredRow, OnXID, OnDDL, OnRotate, restVars
<1>3. CASE PublishAndObserve \/ PublisherRuns \/ NatsChanges \/ Signal \/ MainReacts \/ WindowMoves
  BY <1>3 DEF PublishAndObserve, PublisherRuns, NatsChanges, Signal, MainReacts, WindowMoves, listenerVars
<1>4. CASE OffsetSaver \/ StopProcess
  <2>1. /\ ToSave \in Boundaries \cup {NoPosition} /\ Rank(ToSave) \in Settled
        /\ ToSave # NoPosition => Rank(offsetFile) <= Rank(ToSave)
    BY GateSettles DEF ToSave
  <2>2. offsetFile' = offsetFile \/ (SaveIsDue /\ offsetFile' = ToSave)
    BY <1>4 DEF OffsetSaver, StopProcess, Save
  <2>3. skipped' = skipped
    BY <1>4 DEF OffsetSaver, StopProcess, MemoryLost
  <2>4. SaveIsDue => ToSave # NoPosition
    BY SMTT(40) DEF SaveIsDue, NoPosition
  <2> QED BY <1>4, <2>1, <2>2, <2>3, <2>4
<1> QED BY <1>1, <1>2, <1>3, <1>4 DEF Next

\* No step moves the offset file back.
LEMMA OffsetForward ==
  ASSUME SetLaws, Typed, Sound, [Next]_vars
  PROVE  ~Before(offsetFile', offsetFile)
<1> TypeOK /\ IInv
  BY DEF Typed, Sound
<1>0. /\ offsetFile \in Boundaries \cup {NoPosition}
      /\ offsetFile.file \in Nat /\ offsetFile.pos \in Nat
  BY DEF IInv, PositionsAreDelivered, TypeOK, BinlogPosition
<1>1. CASE offsetFile' = offsetFile
  BY SMTT(40), <1>0, <1>1 DEF Before
<1>2. CASE offsetFile = NoPosition
  <2>1. TypeOK'
    BY InvariantStep DEF Typed
  <2>2. offsetFile'.file \in Nat /\ offsetFile'.pos \in Nat
    BY <2>1 DEF TypeOK, BinlogPosition
  <2> QED BY SMTT(40), <1>2, <2>2 DEF Before, NoPosition
<1>3. CASE offsetFile # NoPosition /\ offsetFile' \in Boundaries /\ Rank(offsetFile) <= Rank(offsetFile')
  <2>1. /\ offsetFile = Boundary(Rank(offsetFile)) /\ Rank(offsetFile) \in 0 .. MaxEntries
        /\ offsetFile' = Boundary(Rank(offsetFile')) /\ Rank(offsetFile') \in 0 .. MaxEntries
    BY <1>0, <1>3, BoundaryOfRank
  <2> QED BY <1>3, <2>1, NotBefore
<1>4. CASE StartProcess
  <2>1. offsetFile = NoPosition \/ offsetFile' = offsetFile
    BY <1>4 DEF StartProcess, resolveStartPosition
  <2> QED BY <1>1, <1>2, <2>1
<1> QED BY <1>1, <1>2, <1>3, <1>4, OffsetStep


-----------------------------------------------------------------------------

\* The event the publisher sends is a change that has everything owed before it
\* stored.
LEMMA PublishInOrder ==
  ASSUME Typed, Sound, CanSend
  PROVE  /\ cur \in Queue /\ Names(cur.id, cur.change) /\ cur.change \in Waiting
         /\ \A t \in 1 .. cur.change[1] : \A i \in DOMAIN Rows(t) :
              Precedes(<<t, i>>, cur.change) /\ Contract!Owed(t, i) => <<t, i>> \in Stored
<1> TypeOK /\ IInv
  BY DEF Typed, Sound
<1>1. cur # NoEvent /\ IsPublishable(cur) /\ ~Halted
  BY DEF CanSend, Publishing, IInv, QueueInOrder, Halted
<1>2. cur \in Queue
  BY <1>1, QueueMembers
<1>3. cur.change \in Waiting /\ Names(cur.id, cur.change)
  BY <1>2 DEF Waiting, IInv, EventsAreChanges
<1>4. ASSUME NEW c \in Waiting, Precedes(c, cur.change) PROVE FALSE
  <2>1. PICK e \in Queue : c = e.change
    BY <1>4 DEF Waiting
  <2>2. /\ c[1] \in Nat /\ c[2] \in Nat /\ cur.change[1] \in Nat /\ cur.change[2] \in Nat
    BY <1>3, <1>4, WaitingType
  <2>3. e = cur \/ Precedes(cur.change, c)
    <3>1. CASE e = cur
      BY <3>1
    <3>2. ASSUME NEW k \in 1 .. Len(chan), e = chan[k] PROVE Precedes(cur.change, c)
      <4>1. IsPublishable(chan[k])
        BY <3>2 DEF Queue
      <4> QED BY <1>1, <2>1, <3>2, <4>1 DEF IInv, QueueInOrder
    <3> QED BY <3>1, <3>2, QueueMembers
  <2> QED BY SMTT(40), <1>4, <2>1, <2>2, <2>3 DEF Precedes
<1>5. ASSUME NEW t \in 1 .. cur.change[1], NEW i \in DOMAIN Rows(t),
             Precedes(<<t, i>>, cur.change), Contract!Owed(t, i)
      PROVE  <<t, i>> \in Stored
  <2>1. <<t, i>> \in Stored \/ <<t, i>> \in Waiting \/ Halted
    BY <1>3, <1>5 DEF IInv, QueueHasNoGaps
  <2> QED BY <1>1, <1>4, <1>5, <2>1
<1> QED BY <1>2, <1>3, <1>5

\* Storing the event in hand delivers its change, after everything owed before.
LEMMA StoreDelivers ==
  ASSUME SetLaws, Typed, Sound, Store(cur), CanSend, UNCHANGED <<binlog, committed, offsetFile, skipped>>
  PROVE  Contract!Deliver
<1> TypeOK /\ IInv
  BY DEF Typed, Sound
<1>1. cur \in Queue /\ Names(cur.id, cur.change) /\ cur.change \in Waiting
  BY PublishInOrder
<1>2. Stored' = Stored \cup {cur.change}
  BY <1>1, StoreFacts DEF IInv
<1>3. PICK t, i : cur.change = <<t, i>> /\ t \in Nat /\ i \in Nat
  BY <1>1, WaitingType
<1>4. t \in 1 .. committed /\ i \in DOMAIN Rows(t) /\ committed \in 0 .. MaxEntries
  BY SMTT(40), <1>1, <1>3 DEF Names, IsChange, TypeOK
<1>5. \A u \in 1 .. t : \A j \in DOMAIN Rows(u) :
        (u < t \/ (u = t /\ j < i)) /\ Contract!Owed(u, j) => <<u, j>> \in Stored
  BY SMTT(40), <1>3, PublishInOrder DEF Precedes
<1>6. t \in 1 .. MaxEntries /\ t - 1 \in 0 .. MaxEntries
  BY SMTT(40), <1>3, <1>4, MySQLAssumption
<1>7. Contract!DeliveredUpTo(t - 1)
  <2>1. \A u \in 1 .. t - 1 : u \in 1 .. t /\ u < t
    BY SMTT(40), <1>3
  <2>2. \A u \in 1 .. t - 1 : \A j \in DOMAIN Rows(u) : Contract!Owed(u, j) => <<u, j>> \in Stored
    BY <1>5, <2>1
  <2>3. PICK s \in 0 .. MaxEntries : s = t - 1
    BY <1>6
  <2>4. Contract!DeliveredUpTo(s)
    BY <2>2, <2>3, DeliveredFacts
  <2> QED BY <2>3, <2>4
<1>8. \A j \in 1 .. i - 1 : Contract!Owed(t, j) => <<t, j>> \in Stored
  <2>1. t \in 1 .. t /\ \A j \in 1 .. i - 1 : j < i
    BY SMTT(40), <1>3, <1>4
  <2>2. \A j : Contract!Owed(t, j) => j \in DOMAIN Rows(t)
    BY <1>6, OwedFacts
  <2> QED BY <1>5, <2>1, <2>2
<1>9. Contract!DeliveredBefore(t, i)
  BY <1>7, <1>8 DEF Contract!DeliveredBefore
<1>10. i \in DOMAIN [u \in 1 .. MaxEntries |-> binlog[u].rows][t]
  BY <1>4, <1>6 DEF Rows
<1>11. Rank(offsetFile)' = Rank(offsetFile)
  BY DEF Rank, Before, Boundary, Rotations
<1> QED BY <1>2, <1>3, <1>4, <1>9, <1>10, <1>11 DEF Contract!Deliver

\* The contract's position: behind both the offset and what was skipped.
LEMMA PositionIs ==
  ASSUME SetLaws, NEW r \in Nat, NEW n \in Nat
  PROVE  /\ Max({r, Cardinality(1 .. n)}) \in {r, n}
         /\ Max({r, Cardinality(1 .. n)}) >= r /\ Max({r, Cardinality(1 .. n)}) >= n
<1>1. Cardinality(1 .. n) = n
  BY SMTT(40), CountInterval
<1>2. r + n \in Nat /\ {r, n} \in SUBSET (0 .. r + n)
  BY SMTT(40)
<1>3. Max({r, n}) \in {r, n} /\ \A y \in {r, n} : Max({r, n}) >= y
  BY <1>2, MaxIsGreatest
<1> QED BY <1>1, <1>3

\* What the contract takes as confirmed is a delivered prefix of the log.
LEMMA PositionFacts ==
  ASSUME Typed, Sound
  PROVE  \E n \in 0 .. committed : skipped = 1 .. n /\ Contract!DeliveredUpTo(n)
<1> TypeOK /\ IInv
  BY DEF Typed, Sound
<1>1. PICK n \in 0 .. committed : skipped = 1 .. n
  BY DEF IInv, SkippedIsPrefix
<1>2. n \in 0 .. MaxEntries /\ \A u \in 1 .. n : u \in 1 .. MaxEntries
  BY SMTT(40), MySQLAssumption DEF TypeOK
<1>3. \A u \in 1 .. n : \A i : ~Contract!Owed(u, i)
  BY <1>1, <1>2, OwedFacts
<1> QED BY <1>1, <1>2, <1>3, DeliveredFacts

\* A save of the gate's position confirms what is delivered.
LEMMA SaveConfirms ==
  ASSUME SetLaws, Typed, Sound, UNCHANGED <<binlog, committed, skipped, stream>>,
         offsetFile' \in Boundaries, Rank(offsetFile) <= Rank(offsetFile'), Rank(offsetFile') \in Settled
  PROVE  Contract!Confirm
<1> TypeOK /\ IInv
  BY DEF Typed, Sound
<1>1. PICK n \in 0 .. committed : skipped = 1 .. n /\ Contract!DeliveredUpTo(n)
  BY PositionFacts
<1>2. PICK r, q : r = Rank(offsetFile) /\ q = Rank(offsetFile')
  OBVIOUS
<1>3. /\ r \in Nat /\ q \in Nat /\ n \in Nat /\ committed \in Nat /\ q <= committed /\ n <= committed
      /\ r <= q
  BY SMTT(40), <1>1, <1>2, RankType, BoundaryOfRank DEF TypeOK
<1>4. Rank(offsetFile)' = q
  BY <1>2 DEF Rank, Before, Boundary, Rotations
<1>5. Contract!DeliveredUpTo(q)
  BY <1>2 DEF Settled
<1> DEFINE x == Max({r, Cardinality(skipped)})
           y == Max({q, Cardinality(skipped)})
<1>6. x \in {r, n} /\ x >= r /\ x >= n /\ y \in {q, n} /\ y >= q /\ y >= n
  BY <1>1, <1>3, PositionIs
<1>7. y \in x .. committed
  <2> HIDE DEF x, y
  <2> QED BY SMTT(40), <1>3, <1>6
<1>8. Contract!DeliveredUpTo(y)
  <2> HIDE DEF y
  <2> QED BY <1>1, <1>5, <1>6
<1>9. Stored' = Stored
  BY DEF Stored
<1> QED BY <1>2, <1>4, <1>7, <1>8, <1>9 DEF Contract!Confirm

\* A start without an offset sets the resume point anew, at the master's
\* position; one with an offset changes nothing the contract speaks of.
LEMMA StartRestarts ==
  ASSUME SetLaws, Typed, Sound, StartProcess
  PROVE  Contract!Restart \/ UNCHANGED Contract!vars
<1> TypeOK /\ IInv
  BY DEF Typed, Sound
<1>0. TypeOK' /\ UNCHANGED <<binlog, committed, stream>> /\ resolveStartPosition
  BY TypeStep DEF StartProcess, pubVars, dbVars, Next, IInv, Typed
<1>1. /\ offsetFile' \in {offsetFile, startPos}
      /\ IF offsetFile = NoPosition THEN skipped' = 1 .. committed /\ Rank(startPos) = committed
         ELSE skipped' = skipped /\ startPos = offsetFile
  BY <1>0, StartFacts DEF Typed
<1>2. Stored' = Stored
  BY <1>0 DEF Stored
<1>3. PICK r, q : r = Rank(offsetFile) /\ q = Rank(offsetFile')
  OBVIOUS
<1>4. Rank(offsetFile)' = q
  BY <1>0, <1>3 DEF Rank, Before, Boundary, Rotations
<1>5. CASE offsetFile # NoPosition
  <2>1. q = r /\ skipped' = skipped
    BY <1>1, <1>3, <1>5
  <2>2. UNCHANGED Contract!vars
    BY <1>0, <1>2, <1>3, <1>4, <2>1 DEF Contract!vars
  <2> QED BY <2>2
<1>6. CASE offsetFile = NoPosition
  <2>1. PICK n \in 0 .. committed : skipped = 1 .. n
    BY PositionFacts
  <2>2. committed \in Nat /\ n \in Nat /\ n <= committed
    BY SMTT(40), <2>1 DEF TypeOK
  <2>3. r = 0 /\ q \in {0, committed} /\ skipped' = 1 .. committed
    BY <1>1, <1>3, <1>6, RankOfNone
  <2> DEFINE x == Max({r, Cardinality(skipped)})
             y == Max({q, Cardinality(skipped')})
  <2>4. x = n
    <3>1. x \in {r, n} /\ x >= n
      BY <2>1, <2>2, <2>3, PositionIs
    <3> HIDE DEF x
    <3> QED BY SMTT(40), <2>2, <2>3, <3>1
  <2>5. y = committed
    <3>1. y \in {q, committed} /\ y >= committed
      BY <2>2, <2>3, PositionIs
    <3> HIDE DEF y
    <3> QED BY SMTT(40), <2>2, <2>3, <3>1
  <2>6. skipped' = skipped \cup ((n + 1) .. committed)
    BY SMTT(40), <2>1, <2>2, <2>3
  <2>7. Contract!Restart
    BY <1>0, <1>2, <1>3, <1>4, <2>4, <2>5, <2>6 DEF Contract!Restart
  <2> QED BY <2>7
<1> QED BY <1>5, <1>6

\* Every step of the pipeline is a step of the contract, or leaves all that it
\* speaks of alone.
LEMMA ContractStep ==
  ASSUME SetLaws, Typed, Sound, [Next]_vars
  PROVE  [Contract!Next]_(Contract!vars)
<1> TypeOK /\ IInv
  BY DEF Typed, Sound
<1>0. ASSUME UNCHANGED <<binlog, committed, offsetFile, skipped, stream>>
      PROVE  UNCHANGED Contract!vars
  <2>1. Rank(offsetFile)' = Rank(offsetFile)
    BY <1>0 DEF Rank, Before, Boundary, Rotations
  <2> QED BY <1>0, <2>1 DEF Contract!vars, Stored
<1>1. CASE Store(cur) /\ CanSend /\ UNCHANGED <<binlog, committed, offsetFile, skipped>>
  BY <1>1, StoreDelivers DEF Contract!Next
<1>2. CASE DbCommit
  <2>1. Rank(offsetFile)' = Rank(offsetFile)
    <3>1. UNCHANGED <<binlog, offsetFile>>
      BY <1>2 DEF DbCommit
    <3> QED BY <3>1 DEF Rank, Before, Boundary, Rotations
  <2>2. Contract!Commit
    BY <1>2, <2>1 DEF DbCommit, Contract!Commit, Stored, pubVars
  <2> QED BY <2>2 DEF Contract!Next
<1>3. CASE StartProcess
  BY <1>3, StartRestarts DEF Contract!Next
<1>4. CASE OffsetSaver \/ StopProcess
  <2>1. UNCHANGED <<binlog, committed, skipped, stream>>
    BY <1>4 DEF OffsetSaver, StopProcess, MemoryLost, PubEnds, pubVars, dbVars
  <2>2. proc = "up"
    BY <1>4 DEF OffsetSaver, StopProcess, MemoryLost
  <2>3. CASE offsetFile' = offsetFile
    BY <1>0, <2>1, <2>3
  <2>4. CASE /\ offsetFile' \in Boundaries /\ Rank(offsetFile) <= Rank(offsetFile')
             /\ Rank(offsetFile') \in Settled
    BY <2>1, <2>4, SaveConfirms DEF Contract!Next
  <2> QED BY <2>2, <2>3, <2>4, OffsetStep DEF StartProcess
<1>5. CASE Crash \/ CanalFails
  <2>1. UNCHANGED <<binlog, committed, offsetFile, skipped, stream>>
    BY <1>5 DEF Crash, CanalFails, MemoryLost, PubEnds, pubVars, dbVars
  <2> QED BY <1>0, <2>1
<1>6. CASE CanalCalls
  <2>1. UNCHANGED <<binlog, committed, offsetFile, skipped, stream>>
    BY <1>6 DEF CanalCalls, OnGTID, EmitToBus, EmitHand, FilteredRow, OnXID, OnDDL, OnRotate,
       restVars, dbVars, pubVars, publisherVars
  <2> QED BY <1>0, <2>1
<1>7. CASE PublishAndObserve \/ PublisherRuns
  <2>1. UNCHANGED <<binlog, committed, offsetFile, skipped>>
    BY <1>7 DEF PublishAndObserve, PublisherRuns, listenerVars, dbVars
  <2>2. stream' = stream \/ (Store(cur) /\ CanSend)
    BY <1>7 DEF PublishAndObserve, PublisherRuns, PublishAcked, PublisherStep, AwaitStream, AwaitFatal,
       Take, LoopCancelled, PublishAckLost, PublishDisconnected, PublishTooLarge, PublishCancelled,
       WaitOver, WaitClosed
  <2> QED BY <1>0, <1>1, <2>1, <2>2
<1>8. CASE NatsChanges \/ Signal \/ MainReacts \/ WindowMoves
  <2>1. UNCHANGED <<binlog, committed, offsetFile, skipped, stream>>
    BY <1>8 DEF NatsChanges, Signal, MainReacts, WindowMoves, listenerVars, dbVars, CancelContext,
       NatsConnect, NatsDisconnect, NatsClosed, WindowExpires
  <2> QED BY <1>0, <2>1
<1>9. CASE UNCHANGED vars
  BY <1>0, <1>9 DEF vars
<1> QED BY <1>2, <1>3, <1>4, <1>5, <1>6, <1>7, <1>8, <1>9 DEF Next

-----------------------------------------------------------------------------
(***************************************************************************)
(* The theorems. The laws of finite sets and of the natural numbers the    *)
(* lemmas assume come from the library, which nothing above needs.         *)
(***************************************************************************)
INSTANCE FiniteSetTheorems

\* The laws the lemmas assume, from the library.
LEMMA SetLawsHold == SetLaws
<1> DEFINE R == OpToRel(<, Nat)
<1>1. ASSUME NEW T \in SUBSET Nat, T # {}
      PROVE  \E x \in T : \A y \in T : x <= y
  <2>1. IsWellFoundedOn(R, Nat)
    BY NatLessThanWellFounded
  <2>2. PICK x \in T : \A y \in T : ~ (<<y, x>> \in R)
    <3> HIDE DEF R
    <3> QED BY <1>1, <2>1, WFMin
  <2>3. R = {ss \in Nat \X Nat : ss[1] < ss[2]}
    BY DEF OpToRel
  <2>4. \A y \in T : x <= y
    <3> HIDE DEF R
    <3> TAKE y \in T
    <3>1. ~ (<<y, x>> \in R)
      BY <2>2
    <3> QED BY SMTT(40), <3>1, <2>3
  <2> QED BY <2>4
<1>2. \A a, b \in Int :
        IsFiniteSet(a .. b) /\ Cardinality(a .. b) = IF a > b THEN 0 ELSE b - a + 1
  BY FS_Interval
<1>3. IsFiniteSet({}) /\ Cardinality({}) = 0
  BY FS_EmptySet
<1>4. ASSUME NEW S, IsFiniteSet(S)
      PROVE  /\ Cardinality(S) \in Nat /\ (Cardinality(S) = 0 <=> S = {})
             /\ \A T \in SUBSET S :
                  /\ IsFiniteSet(T) /\ Cardinality(T) <= Cardinality(S)
                  /\ Cardinality(S) = Cardinality(T) => S = T
  BY <1>4, FS_CardinalityType, FS_EmptySet, FS_Subset
<1>5. ASSUME NEW S, IsFiniteSet(S), NEW x
      PROVE  /\ IsFiniteSet(S \cup {x}) /\ IsFiniteSet(S \ {x})
             /\ Cardinality(S \cup {x}) = Cardinality(S) + (IF x \in S THEN 0 ELSE 1)
             /\ Cardinality(S \ {x}) = Cardinality(S) - (IF x \in S THEN 1 ELSE 0)
  <2>1. Cardinality(S) \in Nat
    BY <1>5, FS_CardinalityType
  <2>2. /\ IsFiniteSet(S \cup {x}) /\ IsFiniteSet(S \ {x})
        /\ Cardinality(S \cup {x}) = IF x \in S THEN Cardinality(S) ELSE Cardinality(S) + 1
        /\ Cardinality(S \ {x}) = IF x \in S THEN Cardinality(S) - 1 ELSE Cardinality(S)
    BY <1>5, FS_AddElement, FS_RemoveElement
  <2> QED BY SMTT(40), <2>1, <2>2
<1> QED BY <1>1, <1>2, <1>3, <1>4, <1>5 DEF SetLaws

\* The invariant holds for every log and every bound.
THEOREM Invariant == Spec => [](TypeOK /\ IInv)
<1>1. Init => TypeOK /\ IInv
  BY SetLawsHold, InitHolds DEF Typed, Sound
<1>2. TypeOK /\ IInv /\ [Next]_vars => TypeOK' /\ IInv'
  BY SetLawsHold, InvariantStep DEF Typed, Sound
<1> QED BY <1>1, <1>2, PTL DEF Spec

\* The offset file only names positions up to which JetStream stores whatever
\* it is owed, whichever acks are counted early or lost and wherever the process
\* ends (commitGate, saveConfirmedOffset, Stop).
THEOREM OffsetDelivered == Spec => []OffsetIsDelivered
<1>1. TypeOK /\ IInv => OffsetIsDelivered
  BY InvariantImplies DEF Typed, Sound
<1> QED BY <1>1, Invariant, PTL

\* The offset file only names starts of entries: Committed drops what cannot be
\* resumed from, and OnRotate keeps the file of every position right.
THEOREM OffsetBoundary == Spec => []OffsetIsBoundary
<1>1. TypeOK /\ IInv => OffsetIsBoundary
  BY InvariantImplies DEF Typed, Sound
<1> QED BY <1>1, Invariant, PTL

\* The gate holds at most one entry per handed event (Committed).
THEOREM OneEntry == Spec => []OneEntryPerEvent
<1>1. TypeOK /\ IInv => OneEntryPerEvent
  BY InvariantImplies DEF Typed, Sound
<1> QED BY <1>1, Invariant, PTL

\* Every variable keeps its type.
THEOREM TypesHold == Spec => []TypeOK
BY Invariant, PTL

\* A source id names one change, whatever entries share a position: it holds the
\* position, the index and the format apart (rowIDs, OnRotate, OnGTID).
THEOREM IdsNameChanges == Spec => []IdNamesOneChange
<1>1. Init => MarkersAreEmpty
  BY SMTT(40) DEF Init, PubInit, MarkersAreEmpty
<1>2. TypeOK /\ IInv /\ MarkersAreEmpty /\ [Next]_vars => MarkersAreEmpty'
  BY SetLawsHold, MarkersStep DEF Typed, Sound
<1>3. TypeOK /\ IInv /\ MarkersAreEmpty => IdNamesOneChange
  BY SetLawsHold, IdsFollow DEF Typed, Sound
<1> QED BY <1>1, <1>2, <1>3, Invariant, PTL DEF Spec

\* The offset file never goes back to an earlier position, whatever fails and
\* restarts in between (saveConfirmedOffset, Stop, resolveStartPosition).
THEOREM OffsetHolds == Spec => OffsetNeverRetreats
<1>1. TypeOK /\ IInv /\ [Next]_vars => [~Before(offsetFile', offsetFile)]_vars
  BY SetLawsHold, OffsetForward DEF Typed, Sound
<1> QED BY <1>1, Invariant, PTL DEF Spec, OffsetNeverRetreats

\* The MySQL half keeps the contract for every log and every bound: a row is
\* stored only after every row owed before it, the offset moves only over stored
\* rows, and only a start without an offset leaves any out (commitGate,
\* publishLoop, resolveStartPosition).
THEOREM KeepsContract == Spec => ImplementsContract
<1>1. Init => Contract!Init
  <2> SUFFICES ASSUME Init PROVE Contract!Init
    OBVIOUS
  <2>1. [t \in 1 .. MaxEntries |-> binlog[t].rows] \in [1 .. MaxEntries -> Seq(RowKind)]
    BY MySQLAssumption DEF Init
  <2>2. Stored = {} /\ skipped = 1 .. 0 /\ Rank(offsetFile) = 0
    BY SMTT(40), SetLawsHold, RankOfNone DEF Init, PubInit, Stored
  <2>3. Max({Rank(offsetFile), Cardinality(skipped)}) = 0
    BY SMTT(40), SetLawsHold, <2>2, PositionIs
  <2> QED BY <2>1, <2>2, <2>3 DEF Init, Contract!Init
<1>2. TypeOK /\ IInv /\ [Next]_vars => [Contract!Next]_(Contract!vars)
  BY SetLawsHold, ContractStep DEF Typed, Sound
<1> QED BY <1>1, <1>2, Invariant, PTL DEF Spec, ImplementsContract, Contract!Spec
=============================================================================
