---------------------------- MODULE Subscription ----------------------------
(***************************************************************************)
(* What the listeners and the publisher rely on: one subscription that     *)
(* HandleEvent feeds in a single step.  It blocks its caller while the     *)
(* buffer is full, keeps each caller's order, and is forgotten as a whole  *)
(* when the subscription ends.  This is the bus as module Publisher        *)
(* assumes it.                                                             *)
(***************************************************************************)
EXTENDS Integers, Sequences

CONSTANTS Producers, EventTables, Capacity

VARIABLES
  on,      \* the subscription is held
  chan,    \* its buffer, oldest first
  handled  \* handled[p]: how many of p's events HandleEvent has dealt with

vars == <<on, chan, handled>>

Init == on = FALSE /\ chan = <<>> /\ handled = [p \in Producers |-> 0]

Handle(p, tbl) ==
  /\ handled' = [handled EXCEPT ![p] = @ + 1]
  /\ IF on
     THEN /\ Len(chan) < Capacity
          /\ chan' = Append(chan, [from |-> p, n |-> handled[p] + 1, table |-> tbl])
     ELSE UNCHANGED chan
  /\ UNCHANGED on

Receive == chan # <<>> /\ chan' = Tail(chan) /\ UNCHANGED <<on, handled>>
Begin == ~on /\ on' = TRUE /\ UNCHANGED <<chan, handled>>
End == on /\ on' = FALSE /\ chan' = <<>> /\ UNCHANGED handled

Next ==
  \/ \E p \in Producers, tbl \in EventTables : Handle(p, tbl)
  \/ Receive \/ Begin \/ End

Spec == Init /\ [][Next]_vars
=============================================================================
