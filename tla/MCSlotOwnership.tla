-------------------------- MODULE MCSlotOwnership --------------------------
(* Deployments of two watchers for model checking SlotOwnership. *)
EXTENDS SlotOwnership, TLC

CONSTANTS w1, w2, a, b

\* Every watcher has a slot of its own.
OwnSlots == w1 :> a @@ w2 :> b

\* A rolling update: the successor has its predecessor's slot.
SharedSlot == w1 :> a @@ w2 :> a

\* One of them comes back.
OneRestarts == w1 :> 2 @@ w2 :> 1

TwoWatchers == {OwnSlots, SharedSlot}

\* What the theorem that owners keep their slots assumes holds here.
ASSUME StaleIsLong == Beat + Skew < Stale
=============================================================================
