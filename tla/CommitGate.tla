----------------------------- MODULE CommitGate -----------------------------
(***************************************************************************)
(* The MySQL commit gate, internal/mysql/ackgate.go: which binlog position *)
(* may be written to the offset file.  Unlike the Postgres gate it numbers *)
(* no event: it counts the events handed and the events acked.             *)
(*                                                                         *)
(* As in AckGate the gate is a value, its methods are operators, and the   *)
(* counter `acked' of the publisher's goroutine is an argument.            *)
(***************************************************************************)
EXTENDS Integers, Sequences

\* type BinlogPosition; an empty file name is file 0.
BinlogPosition == [file : Nat, pos : Nat]
NoPosition == [file |-> 0, pos |-> 0]

minBinlogPosition == 4

\* A place replication can resume from.
Resumable(p) == p.file # 0 /\ p.pos >= minBinlogPosition

CommitGateType ==
  [handed : Nat, commits : Seq([lastHanded : Nat, pos : BinlogPosition]),
   confirmable : BinlogPosition]

newCommitGate == [handed |-> 0, commits |-> <<>>, confirmable |-> NoPosition]

Hand(g) == [g EXCEPT !.handed = @ + 1]

\* Wrong: one entry per boundary.
CommittedApart(g, p) ==
  IF Resumable(p)
  THEN [g EXCEPT !.commits = Append(@, [lastHanded |-> g.handed, pos |-> p])]
  ELSE g

\* Boundaries that wait on the same handed events share one entry.
Committed(g, p) ==
  LET last == Len(g.commits)
      entry == [lastHanded |-> g.handed, pos |-> p]
  IN  IF ~Resumable(p) THEN g
      ELSE IF last > 0 /\ g.commits[last].lastHanded = g.handed
      THEN [g EXCEPT !.commits[last] = entry]
      ELSE [g EXCEPT !.commits = Append(@, entry)]

\* How many entries the loop of Confirmable passes before it breaks.
SettledPrefix(g, acked) ==
  CHOOSE n \in 0 .. Len(g.commits) :
    /\ \A k \in 1 .. n : g.commits[k].lastHanded <= acked
    /\ n < Len(g.commits) => g.commits[n + 1].lastHanded > acked

\* Wrong: also takes the boundary whose events are all acked but one.
ConfirmableEarly(g, acked) ==
  LET n == SettledPrefix(g, acked + 1)
  IN  [g EXCEPT !.commits = SubSeq(@, n + 1, Len(@)),
                !.confirmable = IF n = 0 THEN @ ELSE g.commits[n].pos]

\* The gate after Confirmable, which returns its confirmable position.
Confirmable(g, acked) ==
  LET n == SettledPrefix(g, acked)
  IN  [g EXCEPT !.commits = SubSeq(@, n + 1, Len(@)),
                !.confirmable = IF n = 0 THEN @ ELSE g.commits[n].pos]
=============================================================================
