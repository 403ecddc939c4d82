-------------------------- MODULE DeliveryContract --------------------------
(***************************************************************************)
(* What the watcher promises about one database, whichever it is (README,  *)
(* "Ack ordering"): the resume position kept by the source only moves past *)
(* a transaction once JetStream stores every change of it that can be      *)
(* delivered, and the stream never gets ahead of a change it still lacks.  *)
(* The one exception is announced: a resume point that is set anew skips   *)
(* what was committed before it.                                           *)
(***************************************************************************)
EXTENDS Integers, Sequences

CONSTANTS
  MaxTxns,      \* transactions the database ever commits
  ChangeKind,   \* kinds of changes
  Deliverable   \* those the stream can hold

VARIABLES
  wal,        \* wal[t]: the changes of the t-th transaction, by kind
  committed,  \* how many transactions are committed
  position,   \* the resume position: transactions up to it are not re-read
  skipped,    \* transactions a resume point set anew left out
  delivered   \* changes <<transaction, index>> that JetStream stores

vars == <<wal, committed, position, skipped, delivered>>

\* A change of transaction t the stream must come to hold.
Owed(t, i) ==
  /\ t \notin skipped
  /\ i \in DOMAIN wal[t]
  /\ wal[t][i] \in Deliverable

DeliveredUpTo(t) ==
  \A u \in 1 .. t : \A i \in DOMAIN wal[u] : Owed(u, i) => <<u, i>> \in delivered

DeliveredBefore(t, i) ==
  /\ DeliveredUpTo(t - 1)
  /\ \A j \in 1 .. i - 1 : Owed(t, j) => <<t, j>> \in delivered

Init ==
  /\ wal \in [1 .. MaxTxns -> Seq(ChangeKind)]
  /\ committed = 0 /\ position = 0
  /\ skipped = {} /\ delivered = {}

Commit ==
  /\ committed < MaxTxns
  /\ committed' = committed + 1
  /\ UNCHANGED <<wal, position, skipped, delivered>>

\* A change is stored only after every change owed before it.
Deliver ==
  /\ \E t \in 1 .. committed : \E i \in DOMAIN wal[t] :
       /\ DeliveredBefore(t, i)
       /\ delivered' = delivered \cup {<<t, i>>}
  /\ UNCHANGED <<wal, committed, position, skipped>>

Confirm ==
  /\ position' \in position .. committed
  /\ DeliveredUpTo(position')
  /\ UNCHANGED <<wal, committed, skipped, delivered>>

\* The resume point is set anew, at the end of the log.
Restart ==
  /\ position' = committed
  /\ skipped' = skipped \cup ((position + 1) .. committed)
  /\ UNCHANGED <<wal, committed, delivered>>

Next == Commit \/ Deliver \/ Confirm \/ Restart

Spec == Init /\ [][Next]_vars
=============================================================================
