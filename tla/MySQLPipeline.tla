--------------------------- MODULE MySQLPipeline ---------------------------
(***************************************************************************)
(* The MySQL half of the watcher from the binlog to the stream: canal's    *)
(* goroutine calls the handler's OnGTID, OnRow, OnXID, OnDDL and OnRotate  *)
(* (internal/mysql/listener.go), which hand events to the bus and          *)
(* boundaries to the commit gate; the publisher (module Publisher) stores  *)
(* the events and counts its acks in the gate; the offset saver writes the *)
(* gate's position to the offset file (offset.go), where the next process  *)
(* resumes.                                                                *)
(*                                                                         *)
(* The server and the canal library are external.  `binlog' is what the    *)
(* server will ever write, one entry per transaction, DDL statement or     *)
(* rotation, and `committed' how much of it is written.  A position keeps  *)
(* its file and its offset: every entry is Span wide, starts with its GTID *)
(* event, and its rows events end at offsets of their own.                 *)
(***************************************************************************)
EXTENDS CommitGate, Publisher, FiniteSets, FiniteSetsExt

CONSTANTS
  Entries,      \* the binlog entries the server may write
  MaxEntries,   \* bound on the entries of a behaviour
  Span,         \* width of an entry
  FileSpan,     \* more than the end of any file
  MaxCrashes,   \* bound on process exits and crashes
  MaxSaveFails, \* bound on failed writes of the offset file
  MaxExpiries   \* bound on ids leaving JetStream's duplicate window

\* A transaction, a compressed one, a DDL statement or a rotation; rows[i] is
\* the kind of its i-th row and event[i] the rows event that holds it.
EntryForm == {"txn", "packed", "ddl", "rotate"}
RowKind == (DOMAIN Fitting \ {"marker"}) \cup {"filtered"}
Deliverable == {"row", "large", "wide"}

ASSUME MySQLAssumption ==
  /\ MaxEntries \in Nat
  /\ Span \in Nat \ {0}
  /\ FileSpan \in Nat /\ FileSpan > minBinlogPosition + MaxEntries * Span
  /\ {MaxCrashes, MaxSaveFails, MaxExpiries} \subseteq Nat
  /\ \A e \in Entries :
       /\ e.form \in EntryForm /\ e.rows \in Seq(RowKind)
       /\ e.event \in [DOMAIN e.rows -> 1 .. Span - 2]
       /\ \A i, j \in DOMAIN e.rows : i < j => e.event[i] <= e.event[j]
       /\ e.form = "ddl" => Len(e.rows) = 1 /\ e.rows[1] # "filtered"
       /\ e.form = "rotate" => e.rows = <<>>

VARIABLES
  binlog, committed,  \* the server's log
  offsetFile,         \* content of the offset file, NoPosition when missing
  savedOffset,        \* the listener's copy of its last save
  sess,               \* how far canal has called the handler
  handing,            \* emit is between HandleEvent and Hand
  gate, acked,        \* the commit gate
  currentFile,        \* the handler's binlog file
  txn, txnRows,       \* the handler's open transaction
  mysqlFailed,        \* the listener's failed channel holds an error
  proc,               \* whether the process runs
  skipped,            \* entries before a start at the master's position
  used                \* how often each bounded event happened

dbVars == <<binlog, committed>>
handlerVars == <<currentFile, txn, txnRows>>
vars == <<chan, cur, pub, nats, failed, ctxDone, stream, remembered,
          binlog, committed, offsetFile, savedOffset, sess, handing, gate, acked,
          currentFile, txn, txnRows, mysqlFailed, proc, skipped, used>>

NoSession == [up |-> FALSE, sent |-> 0, at |-> 0]

TypeOK ==
  /\ PubTypeOK
  /\ binlog \in [1 .. MaxEntries -> Entries] /\ committed \in 0 .. MaxEntries
  /\ offsetFile \in BinlogPosition /\ savedOffset \in BinlogPosition
  /\ sess \in [up : BOOLEAN, sent : 0 .. MaxEntries, at : Nat]
  /\ handing \in BOOLEAN
  /\ gate \in CommitGateType /\ acked \in Nat
  /\ currentFile \in Nat /\ txn \in BinlogPosition /\ txnRows \in Nat
  /\ mysqlFailed \in BOOLEAN /\ proc \in {"up", "down"}
  /\ skipped \in SUBSET (1 .. MaxEntries)
  /\ used \in [crashes : 0 .. MaxCrashes, saves : 0 .. MaxSaveFails,
               expiries : 0 .. MaxExpiries]

Init ==
  /\ PubInit
  /\ binlog \in [1 .. MaxEntries -> Entries] /\ committed = 0
  /\ offsetFile = NoPosition /\ savedOffset = NoPosition
  /\ sess = NoSession /\ handing = FALSE
  /\ gate = newCommitGate /\ acked = 0
  /\ currentFile = 0 /\ txn = NoPosition /\ txnRows = 0
  /\ mysqlFailed = FALSE /\ proc = "down" /\ skipped = {}
  /\ used = [crashes |-> 0, saves |-> 0, expiries |-> 0]

Use(what) == used' = [used EXCEPT ![what] = @ + 1]

(***************************************************************************)
(* Binlog positions.                                                       *)
(***************************************************************************)
Rotations(t) == {u \in 1 .. t : binlog[u].form = "rotate"}

\* Where the entry after the t-th starts: a rotation opens a new file.
Boundary(t) ==
  [file |-> 1 + Cardinality(Rotations(t)),
   pos  |-> minBinlogPosition + Span * (t - Max({0} \cup Rotations(t)))]

\* Offset d inside the entry after the t-th.
Inside(t, d) == [Boundary(t) EXCEPT !.pos = @ + d]

Before(p, q) == p.file < q.file \/ (p.file = q.file /\ p.pos < q.pos)

\* How many entries end at or before p: those a start at p does not re-read.
Rank(p) == Cardinality({t \in 1 .. MaxEntries : ~Before(p, Boundary(t))})

(***************************************************************************)
(* The server.                                                             *)
(***************************************************************************)
DbCommit ==
  /\ committed < MaxEntries
  /\ committed' = committed + 1
  /\ UNCHANGED <<pubVars, binlog, offsetFile, savedOffset, sess, handing, gate, acked,
                 handlerVars, mysqlFailed, proc, skipped, used>>

(***************************************************************************)
(* The process.                                                            *)
(***************************************************************************)
\* Wrong: the listener remembers a save that failed.
SaveAlwaysRemembered(p) ==
  /\ savedOffset' = p
  /\ \/ offsetFile' = p /\ UNCHANGED used
     \/ used.saves < MaxSaveFails /\ Use("saves") /\ UNCHANGED offsetFile

\* FileOffsetStore.Save, atomic by its rename, and the listener's copy of it.
Save(p) ==
  \/ offsetFile' = p /\ savedOffset' = p /\ UNCHANGED used
  \/ used.saves < MaxSaveFails /\ Use("saves") /\ UNCHANGED <<offsetFile, savedOffset>>

\* saveConfirmedOffset: the position to write, and whether it is written.
ToSave == Confirmable(gate, acked).confirmable

\* Wrong: does not ask whether the gate has a position yet.
SaveIsDueUnchecked == ToSave # savedOffset

SaveIsDue == ToSave.file # 0 /\ ToSave # savedOffset

\* resolveStartPosition: the saved offset, or the master's position, which is
\* then saved.
startPos == IF offsetFile = NoPosition THEN Boundary(committed) ELSE offsetFile
resolveStartPosition ==
  IF offsetFile = NoPosition
  THEN Save(startPos) /\ skipped' = skipped \cup (1 .. committed)
  ELSE UNCHANGED <<offsetFile, savedOffset, skipped, used>>

\* Start, up to canal running from that position.
StartProcess ==
  /\ proc = "down" /\ proc' = "up"
  /\ resolveStartPosition
  /\ currentFile' = startPos.file
  /\ sess' = [up |-> TRUE, sent |-> Rank(startPos), at |-> 0]
  /\ UNCHANGED <<pubVars, dbVars, handing, gate, acked, txn, txnRows, mysqlFailed>>

MemoryLost ==
  /\ used.crashes < MaxCrashes /\ Use("crashes")
  /\ proc = "up" /\ proc' = "down"
  /\ PubEnds
  /\ sess' = NoSession /\ handing' = FALSE
  /\ gate' = newCommitGate /\ acked' = 0 /\ savedOffset' = NoPosition
  /\ currentFile' = 0 /\ txn' = NoPosition /\ txnRows' = 0
  /\ mysqlFailed' = FALSE
  /\ UNCHANGED <<dbVars, skipped>>

\* A crash, or a stop whose last save fails.
Crash == MemoryLost /\ UNCHANGED offsetFile

Streaming == proc = "up" /\ sess.up
Entry == binlog[sess.sent + 1]
AtRow == Streaming /\ sess.at # 0 /\ sess.at <= Len(Entry.rows) /\ ~handing

\* Canal is between two calls of the handler, or stopped; one call of OnRow
\* handles all the rows of a rows event.
HandlerIdle ==
  /\ ~handing
  /\ sess.up /\ sess.at > 1 /\ sess.at <= Len(Entry.rows)
       => Entry.event[sess.at] # Entry.event[sess.at - 1]

\* Wrong: Stop writes the position canal has read up to.
StopAtCanalPosition ==
  /\ ctxDone /\ HandlerIdle
  /\ MemoryLost
  /\ offsetFile' = IF sess.up THEN Boundary(sess.sent) ELSE offsetFile

\* Stop: canal and the saver end, then the confirmed offset is written.
StopProcess ==
  /\ ctxDone /\ HandlerIdle
  /\ MemoryLost
  /\ offsetFile' = IF SaveIsDue THEN ToSave ELSE offsetFile

\* A tick of the offset saver.
OffsetSaver ==
  /\ proc = "up"
  /\ gate' = Confirmable(gate, acked)
  /\ IF SaveIsDue THEN Save(ToSave) ELSE UNCHANGED <<offsetFile, savedOffset, used>>
  /\ UNCHANGED <<pubVars, dbVars, sess, handing, acked, handlerVars, mysqlFailed, proc, skipped>>

\* RunFrom returns an error while the listener runs: reported to main.
CanalFails ==
  /\ Streaming /\ HandlerIdle /\ used.crashes < MaxCrashes
  /\ sess' = NoSession /\ mysqlFailed' = TRUE
  /\ UNCHANGED <<pubVars, dbVars, offsetFile, savedOffset, handing, gate, acked, handlerVars,
                 proc, skipped, used>>

(***************************************************************************)
(* The event handler, on canal's goroutine.                                *)
(***************************************************************************)
restVars == <<dbVars, offsetFile, savedOffset, acked, mysqlFailed, proc, skipped, used>>
publisherVars == <<cur, pub, nats, failed, ctxDone, stream, remembered>>

AtEntry == Streaming /\ sess.at = 0 /\ sess.sent < committed
AtEnd == Streaming /\ sess.at # 0 /\ sess.at = Len(Entry.rows) + 1
EntryDone == sess' = [sess EXCEPT !.sent = @ + 1, !.at = 0]

\* Wrong: the boundary is where the GTID event ends.
OnGTIDEnd ==
  /\ AtEntry /\ Entry.form # "rotate"
  /\ LET gtid == Inside(sess.sent, 1)
     IN  /\ txn' = [file |-> currentFile, pos |-> gtid.pos]
         /\ gate' = Committed(gate, [file |-> currentFile, pos |-> gtid.pos])
  /\ txnRows' = 0
  /\ sess' = [sess EXCEPT !.at = 1]
  /\ UNCHANGED <<pubVars, restVars, handing, currentFile>>

\* The transaction is named by the end of its GTID event; its start is a
\* boundary.
OnGTID ==
  /\ AtEntry /\ Entry.form # "rotate"
  /\ txn' = [file |-> currentFile, pos |-> Inside(sess.sent, 1).pos]
  /\ gate' = Committed(gate, [file |-> currentFile, pos |-> Boundary(sess.sent).pos])
  /\ txnRows' = 0
  /\ sess' = [sess EXCEPT !.at = 1]
  /\ UNCHANGED <<pubVars, restVars, handing, currentFile>>

\* A source id: a position, an index, and which of the three formats it has.
SourceID(p, index, format) == <<FileSpan * p.file + p.pos, 3 * index + format>>

\* A row is named by the end of its rows event and its index there; inside a
\* compressed transaction by the transaction and its index there; a DDL
\* statement by its end.
rowID(i) ==
  CASE Entry.form = "txn" ->
         SourceID([file |-> currentFile, pos |-> Inside(sess.sent, 1 + Entry.event[i]).pos],
                  i - Min({j \in DOMAIN Entry.rows : Entry.event[j] = Entry.event[i]}), 0)
    [] Entry.form = "packed" -> SourceID(txn, txnRows, 1)
    [] Entry.form = "ddl" -> SourceID(Boundary(sess.sent + 1), 0, 2)

\* emit, first half: the bus takes the event.
EmitToBus ==
  /\ AtRow /\ Entry.rows[sess.at] # "filtered"
  /\ HandleEvent([seq |-> 0, id |-> rowID(sess.at), change |-> <<sess.sent + 1, sess.at>>,
                  kind |-> Entry.rows[sess.at], form |-> "full"])
  /\ txnRows' = txnRows + (IF Entry.form = "packed" THEN 1 ELSE 0)
  /\ handing' = TRUE
  /\ UNCHANGED <<publisherVars, restVars, sess, gate, currentFile, txn>>

\* emit, second half: the gate counts it.  The publisher may have been first.
EmitHand ==
  /\ Streaming /\ handing
  /\ gate' = Hand(gate) /\ handing' = FALSE
  /\ sess' = [sess EXCEPT !.at = @ + 1]
  /\ UNCHANGED <<pubVars, restVars, handlerVars>>

\* Canal passes no rows of a table its filter leaves out.
FilteredRow ==
  /\ AtRow /\ Entry.rows[sess.at] = "filtered"
  /\ sess' = [sess EXCEPT !.at = @ + 1]
  /\ UNCHANGED <<pubVars, restVars, handing, gate, handlerVars>>

\* Inside a compressed payload the XID has position 0.
OnXID ==
  /\ AtEnd /\ Entry.form \in {"txn", "packed"}
  /\ HandleEvent(NoEvent)
  /\ gate' = Committed(gate, IF Entry.form = "packed" THEN [Boundary(sess.sent) EXCEPT !.pos = 0]
                             ELSE Boundary(sess.sent + 1))
  /\ EntryDone
  /\ UNCHANGED <<publisherVars, restVars, handing, handlerVars>>

\* OnDDL once its event is emitted.
OnDDL ==
  /\ AtEnd /\ Entry.form = "ddl"
  /\ gate' = Committed(gate, Boundary(sess.sent + 1))
  /\ EntryDone
  /\ UNCHANGED <<pubVars, restVars, handing, handlerVars>>

\* Wrong: the handler keeps the old file's name.
OnRotateKeepsFile ==
  /\ AtEntry /\ Entry.form = "rotate"
  /\ gate' = Committed(gate, Boundary(sess.sent + 1))
  /\ EntryDone
  /\ UNCHANGED <<pubVars, restVars, handing, handlerVars>>

OnRotate ==
  /\ AtEntry /\ Entry.form = "rotate"
  /\ currentFile' = Boundary(sess.sent + 1).file
  /\ gate' = Committed(gate, Boundary(sess.sent + 1))
  /\ EntryDone
  /\ UNCHANGED <<pubVars, restVars, handing, txn, txnRows>>

(***************************************************************************)
(* The publisher, with the gate's observer, and main.                      *)
(***************************************************************************)
listenerVars == <<dbVars, offsetFile, savedOffset, sess, handing, gate, handlerVars,
                  mysqlFailed, proc, skipped>>

\* Every published event of this pipeline has the listener's prefix.
PublishAndObserve ==
  /\ proc = "up" /\ PublishAcked
  /\ acked' = acked + 1
  /\ UNCHANGED <<listenerVars, used>>

\* A missing stream ends the process, which the bound must allow.
PublisherRuns ==
  /\ proc = "up" /\ PublisherStep
  /\ failed' => failed \/ used.crashes < MaxCrashes
  /\ UNCHANGED <<listenerVars, acked, used>>

NatsChanges ==
  /\ proc = "up"
  /\ \/ NatsConnect \/ NatsDisconnect
     \/ used.crashes < MaxCrashes /\ NatsClosed
  /\ UNCHANGED <<listenerVars, acked, used>>

\* A signal ends the process.
Signal ==
  /\ proc = "up" /\ used.crashes < MaxCrashes /\ CancelContext
  /\ UNCHANGED <<listenerVars, acked, used>>

\* Wrong: main waits for the publisher's failure only.
MainIgnoresMySQL ==
  /\ proc = "up" /\ failed /\ CancelContext
  /\ UNCHANGED <<listenerVars, acked, used>>

\* waitForShutdown returns on a failure, and main cancels the context.
MainReacts ==
  /\ proc = "up" /\ (failed \/ mysqlFailed) /\ CancelContext
  /\ UNCHANGED <<listenerVars, acked, used>>

WindowMoves ==
  /\ used.expiries < MaxExpiries /\ Use("expiries")
  /\ \E id \in remembered : WindowExpires(id)
  /\ UNCHANGED <<listenerVars, acked>>

CanalCalls ==
  \/ OnGTID \/ EmitToBus \/ EmitHand \/ FilteredRow \/ OnXID \/ OnDDL \/ OnRotate

Next ==
  \/ DbCommit
  \/ StartProcess \/ Crash \/ StopProcess \/ OffsetSaver \/ CanalFails
  \/ CanalCalls
  \/ PublishAndObserve \/ PublisherRuns \/ NatsChanges \/ Signal \/ MainReacts \/ WindowMoves

Spec == Init /\ [][Next]_vars

(***************************************************************************)
(* Fairness.  Canal calls the handler while the log has entries; a blocked *)
(* call goes on whenever there is room (weak: only the publisher makes     *)
(* room, and only canal takes it).  The saver ticks; a save succeeds if    *)
(* tried again and again, which the bound on failures guarantees.  main    *)
(* reacts and stops; the client reconnects; the broker sooner or later     *)
(* acks (strong: attempts may keep failing in between).                    *)
(***************************************************************************)
Fairness ==
  /\ WF_vars(StartProcess \/ MainReacts \/ StopProcess)
  /\ WF_vars(CanalCalls) /\ WF_vars(OffsetSaver)
  /\ WF_vars(NatsChanges /\ NatsConnect)
  /\ WF_vars(PublisherRuns /\ (Take \/ PublishDisconnected \/ WaitClosed))
  /\ SF_vars(PublisherRuns /\ (AwaitStream \/ AwaitFatal \/ WaitOver))
  /\ SF_vars(PublisherRuns /\ (PublishCancelled \/ LoopCancelled))
  /\ SF_vars(PublishAndObserve \/ (PublisherRuns /\ PublishTooLarge))

FairSpec == Spec /\ Fairness

-----------------------------------------------------------------------------
(***************************************************************************)
(* What the pipeline promises.                                             *)
(***************************************************************************)
Contract == INSTANCE DeliveryContract
              WITH MaxTxns <- MaxEntries, ChangeKind <- RowKind,
                   wal <- [t \in 1 .. MaxEntries |-> binlog[t].rows],
                   position <- Max({Rank(offsetFile), Cardinality(skipped)}),
                   delivered <- Stored

\* The offset file never names a position past an entry that has a deliverable
\* row JetStream does not store (commitGate, saveConfirmedOffset, Stop), though
\* the gate only counts and an ack may be counted before its event is.
OffsetIsDelivered == Contract!DeliveredUpTo(Rank(offsetFile))

\* The offset file only ever names the start of an entry, never a place inside
\* a transaction or an offset no event has (Committed, OnGTID, OnRotate).
OffsetIsBoundary ==
  offsetFile # NoPosition => \E t \in 0 .. committed : offsetFile = Boundary(t)

\* Over saves, stops, crashes and restarts the offset file never moves back.
OffsetNeverRetreats == [][~Before(offsetFile', offsetFile)]_vars

\* A source id names one change, in every process, over file rotations and for
\* rows that share a binlog position (rowIDs, OnRotate, OnGTID): the duplicate
\* window drops every repeat of a change and nothing but repeats.
IdNamesOneChange ==
  \A e, f \in {stream[k] : k \in 1 .. Len(stream)}
             \cup {chan[k] : k \in 1 .. Len(chan)} \cup {cur} :
    (e.id = f.id) <=> (e.change = f.change)

\* The gate holds at most one entry per handed event: entries wait on
\* different counts, in order (Committed).
OneEntryPerEvent ==
  /\ \A j, k \in 1 .. Len(gate.commits) :
       j < k => gate.commits[j].lastHanded < gate.commits[k].lastHanded
  /\ \A k \in 1 .. Len(gate.commits) : gate.commits[k].lastHanded <= gate.handed

\* The pipeline implements the contract it shares with Postgres's: a row is
\* only stored after every row owed before it, and the offset only passes what
\* is stored.
ImplementsContract == Contract!Spec

\* Whatever is committed is delivered in the end, through outages, crashes,
\* failed saves and canal errors.
EventuallyDelivered ==
  \A t \in 1 .. MaxEntries : committed >= t ~> Contract!DeliveredUpTo(t)

\* The offset catches up, with a compressed transaction once another entry
\* follows it (OnGTID, OnRotate), so a later start replays nothing old.
OffsetCatchesUp ==
  \A t \in 1 .. MaxEntries :
    committed > t \/ (committed = t /\ binlog[t].form # "packed")
      ~> Rank(offsetFile) >= t \/ t \in skipped
=============================================================================
