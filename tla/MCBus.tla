------------------------------- MODULE MCBus -------------------------------
(* Goroutines for model checking Bus: as in main, two listeners, the       *)
(* publisher as the one subscriber, a health request and a shutdown.       *)
EXTENDS Bus, TLC

CONSTANTS p1, p2

PublisherTopic == [s \in Subscribers |-> AllTables]

TwoAndOne == p1 :> 2 @@ p2 :> 1

\* What the theorem that Bus implements Subscription assumes holds here.
ASSUME MainHasOneSubscriber == OneSubscriber
=============================================================================
