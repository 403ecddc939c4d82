------------------------------ MODULE AckGate ------------------------------
(***************************************************************************)
(* The Postgres ack gate, internal/postgres/ackgate.go: which log position *)
(* may be confirmed to the primary.  The gate is a value (the fields of    *)
(* the Go struct) and every method an operator on it; the listener's       *)
(* actions in PgPipeline apply them.  The atomic counter `acked', the only *)
(* field the publisher's goroutine writes, is passed as an argument.       *)
(*                                                                         *)
(* A log position (LSN) is abstracted to its rank: the number of           *)
(* transactions whose commit record ends at or before it.  The gate only   *)
(* compares positions and takes maxima, and rank preserves both.           *)
(***************************************************************************)
EXTENDS Integers, Sequences, FiniteSetsExt

CONSTANT MaxLsn     \* the highest position the log can reach

ASSUME MaxLsnAssumption == MaxLsn \in Nat

Lsn == 0 .. MaxLsn

\* type pendingCommit: a commit's end, and the last event handed before it.
PendingCommit == [lastSequence : Nat, end : Lsn]

Gate == [handed : Nat, inTxn : BOOLEAN,
         commits : Seq(PendingCommit), confirmable : Lsn]

newAckGate == [handed |-> 0, inTxn |-> FALSE, commits |-> <<>>, confirmable |-> 0]

Begin(g) == [g EXCEPT !.inTxn = TRUE]

\* Hand numbers the event with the new value of `handed'.
Hand(g) == [g EXCEPT !.handed = @ + 1]

\* Wrong: leaves a refused event waiting for an ack.
UnhandNothing(g) == g

Unhand(g) == [g EXCEPT !.handed = @ - 1]

\* Wrong: one entry per commit.
SharesNoEntry(g) == FALSE

\* Commits that wait on the same last event share one entry.
SharesLastEntry(g) ==
  /\ g.commits # <<>>
  /\ g.commits[Len(g.commits)].lastSequence = g.handed

\* Wrong: the commit does not wait for its transaction's last event.
CommittedEarly(g, end) ==
  [g EXCEPT !.inTxn = FALSE,
            !.commits = Append(@, [lastSequence |-> Max({g.handed - 1, 0}), end |-> end])]

Committed(g, end) ==
  LET last == Len(g.commits)
      shared == [lastSequence |-> g.handed, end |-> Max({g.commits[last].end, end})]
      fresh == [lastSequence |-> g.handed, end |-> end]
  IN  [g EXCEPT !.inTxn = FALSE,
                !.commits = IF SharesLastEntry(g)
                            THEN [g.commits EXCEPT ![last] = shared]
                            ELSE Append(g.commits, fresh)]

NewSession(g) == [g EXCEPT !.inTxn = FALSE]

\* How many entries the loop of settle passes before it breaks.
SettledPrefix(commits, acked) ==
  CHOOSE n \in 0 .. Len(commits) :
    /\ \A i \in 1 .. n : commits[i].lastSequence <= acked
    /\ n < Len(commits) => commits[n + 1].lastSequence > acked

\* Wrong: takes the last settled commit's end for the highest.
settleLast(g, acked) ==
  LET n == SettledPrefix(g.commits, acked)
  IN  [g EXCEPT !.commits = SubSeq(@, n + 1, Len(@)),
                !.confirmable = IF n = 0 THEN @ ELSE g.commits[n].end]

settle(g, acked) ==
  LET n == SettledPrefix(g.commits, acked)
  IN  [g EXCEPT !.commits = SubSeq(@, n + 1, Len(@)),
                !.confirmable = Max({@} \cup {g.commits[i].end : i \in 1 .. n})]

Pending(g, acked) == g.handed > acked

\* Wrong: confirms a keepalive position inside a transaction.
IdleInTxn(g, acked, position) ==
  LET s == settle(g, acked)
  IN  IF s.commits # <<>> \/ Pending(s, acked)
      THEN s
      ELSE [s EXCEPT !.confirmable = Max({@, position})]

Idle(g, acked, position) ==
  LET s == settle(g, acked)
  IN  IF s.inTxn \/ s.commits # <<>> \/ Pending(s, acked)
      THEN s
      ELSE [s EXCEPT !.confirmable = Max({@, position})]

\* Flush settles and returns the confirmable position of the settled gate.
Flush(g, acked) == settle(g, acked).confirmable

\* storeMax, as ObservePublished applies it; sequence 0 is not this listener's.
ObservePublished(acked, sequence) ==
  IF sequence = 0 THEN acked ELSE Max({acked, sequence})
=============================================================================
