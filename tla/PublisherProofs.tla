-------------------------- MODULE PublisherProofs ---------------------------
(***************************************************************************)
(* Facts about the publisher that both pipelines use: greatest elements,   *)
(* types, what a step does to the queue of events and to the stream.       *)
(***************************************************************************)
EXTENDS Publisher, FiniteSets, FiniteSetsExt, TLAPS

(***************************************************************************)
(* The laws of the natural numbers and of finite sets that the proofs use. *)
(* The lemmas assume them, and the modules that conclude, PgProofs and     *)
(* MySQLProofs, prove them (SetLawsHold): an obligation grows with every   *)
(* theorem in scope, and the library's are many.                           *)
(***************************************************************************)
SetLaws ==
  /\ \A T \in SUBSET Nat : T # {} => \E x \in T : \A y \in T : x <= y
  /\ \A a, b \in Int :
       IsFiniteSet(a .. b) /\ Cardinality(a .. b) = IF a > b THEN 0 ELSE b - a + 1
  /\ IsFiniteSet({}) /\ Cardinality({}) = 0
  /\ \A S : IsFiniteSet(S) =>
       /\ Cardinality(S) \in Nat /\ (Cardinality(S) = 0 <=> S = {})
       /\ \A T \in SUBSET S :
            /\ IsFiniteSet(T) /\ Cardinality(T) <= Cardinality(S)
            /\ Cardinality(S) = Cardinality(T) => S = T
       /\ \A x :
            /\ IsFiniteSet(S \cup {x}) /\ IsFiniteSet(S \ {x})
            /\ Cardinality(S \cup {x}) = Cardinality(S) + (IF x \in S THEN 0 ELSE 1)
            /\ Cardinality(S \ {x}) = Cardinality(S) - (IF x \in S THEN 1 ELSE 0)

\* Every non-empty set of naturals has a least element.
LEMMA LeastElement ==
  ASSUME SetLaws, NEW T \in SUBSET Nat, T # {}
  PROVE  \E x \in T : \A y \in T : x <= y
BY Zenon DEF SetLaws

\* An interval is finite, and how many numbers are in it.
LEMMA CountInterval ==
  ASSUME SetLaws, NEW a \in Int, NEW b \in Int
  PROVE  IsFiniteSet(a .. b) /\ Cardinality(a .. b) = IF a > b THEN 0 ELSE b - a + 1
BY Zenon DEF SetLaws

\* A finite set has a size, and only the empty set's is zero.
LEMMA CountType ==
  ASSUME SetLaws, NEW S, IsFiniteSet(S)
  PROVE  Cardinality(S) \in Nat
BY Zenon DEF SetLaws

\* The empty set is the one without an element to count.
LEMMA CountEmpty ==
  ASSUME SetLaws
  PROVE  /\ IsFiniteSet({}) /\ Cardinality({}) = 0
         /\ \A S : IsFiniteSet(S) => (Cardinality(S) = 0 <=> S = {})
BY Zenon DEF SetLaws

\* A subset is no larger, and smaller if it is not the whole set.
LEMMA CountSubset ==
  ASSUME SetLaws, NEW S, IsFiniteSet(S), NEW T \in SUBSET S
  PROVE  /\ IsFiniteSet(T) /\ Cardinality(T) <= Cardinality(S)
         /\ Cardinality(S) = Cardinality(T) => S = T
BY Zenon DEF SetLaws

\* An element more or less changes the size by at most one.
LEMMA CountAdd ==
  ASSUME SetLaws, NEW S, NEW x, IsFiniteSet(S)
  PROVE  /\ IsFiniteSet(S \cup {x})
         /\ Cardinality(S \cup {x}) =
              IF x \in S THEN Cardinality(S) ELSE Cardinality(S) + 1
<1>1. /\ IsFiniteSet(S \cup {x}) /\ Cardinality(S) \in Nat
      /\ Cardinality(S \cup {x}) = Cardinality(S) + (IF x \in S THEN 0 ELSE 1)
  BY Zenon DEF SetLaws
<1> QED BY <1>1

\* Without a member a set counts one less.
LEMMA CountRemove ==
  ASSUME SetLaws, NEW S, NEW x, IsFiniteSet(S)
  PROVE  /\ IsFiniteSet(S \ {x})
         /\ Cardinality(S \ {x}) =
              IF x \in S THEN Cardinality(S) - 1 ELSE Cardinality(S)
<1>1. /\ IsFiniteSet(S \ {x}) /\ Cardinality(S) \in Nat
      /\ Cardinality(S \ {x}) = Cardinality(S) - (IF x \in S THEN 1 ELSE 0)
  BY Zenon DEF SetLaws
<1> QED BY <1>1

\* Max of a set of bounded naturals is its greatest element.
LEMMA MaxIsGreatest ==
  ASSUME SetLaws, NEW N \in Nat, NEW S \in SUBSET (0 .. N), S # {}
  PROVE  Max(S) \in S /\ \A y \in S : Max(S) >= y
<1> DEFINE T == {n \in 0 .. N : N - n \in S}
<1>1. T # {}
  <2>1. PICK y \in S : TRUE
    BY ZenonT(40)
  <2>2. N - y \in T
    BY <2>1
  <2> QED BY ZenonT(40), <2>2
<1>2. PICK x \in T : \A y \in T : x <= y
  <2> HIDE DEF T
  <2>1. T \in SUBSET Nat
    BY DEF T
  <2> QED BY <2>1, <1>1, LeastElement
<1>3. \A y \in S : N - x >= y
  <2> TAKE y \in S
  <2>1. N - y \in T
    OBVIOUS
  <2> QED BY <2>1, <1>2
<1>4. N - x \in S
  BY <1>2
<1> QED BY ZenonT(40), <1>3, <1>4 DEF Max

-----------------------------------------------------------------------------
(***************************************************************************)
(* Types.                                                                  *)
(***************************************************************************)
\* The kinds of events, and the marker being one that is not published.
LEMMA KindFacts ==
  /\ DOMAIN Fitting = {"row", "large", "wide", "huge", "marker"}
  /\ NoEvent \in Event /\ ~IsPublishable(NoEvent)
<1>1. DOMAIN Fitting = {"row", "large", "wide", "huge", "marker"}
  BY DEF Fitting
<1>2. NoEvent \in Event /\ ~IsPublishable(NoEvent)
  BY <1>1 DEF NoEvent, Event, Form, IsPublishable
<1> QED BY <1>1, <1>2

\* The publisher starts well typed.
LEMMA PubInitType == PubInit => PubTypeOK
<1> SUFFICES ASSUME PubInit PROVE PubTypeOK
  OBVIOUS
<1> USE DEF PubInit
<1>1. failed \in BOOLEAN /\ ctxDone \in BOOLEAN /\ remembered \in SUBSET (Nat \X Nat)
  BY Zenon
<1>2. chan \in Seq(Event) /\ stream \in Seq(Message) /\ Len(chan) <= BufCap
  BY PublisherAssumption
<1> QED BY <1>1, <1>2, KindFacts DEF PubTypeOK

\* HandleEvent respects the capacity of the bus buffer.
LEMMA HandleEventType ==
  ASSUME PubTypeOK, NEW e \in Event, HandleEvent(e)
  PROVE  chan' \in Seq(Event) /\ Len(chan') <= BufCap
<1>1. chan \in Seq(Event) /\ Len(chan) <= BufCap /\ BufCap \in Nat
  BY PublisherAssumption DEF PubTypeOK
<1>2. CASE pub = "exited"
  BY <1>1, <1>2 DEF HandleEvent
<1>3. CASE pub # "exited"
  <2>1. Len(chan) < BufCap /\ chan' = Append(chan, e)
    BY <1>3 DEF HandleEvent
  <2> QED BY <1>1, <2>1
<1> QED BY <1>2, <1>3

\* What JetStream stores and remembers keeps its type.
LEMMA StoreType ==
  ASSUME PubTypeOK, NEW e \in Event, Store(e)
  PROVE  stream' \in Seq(Message) /\ remembered' \in SUBSET (Nat \X Nat)
<1>1. [id |-> e.id, change |-> e.change, form |-> e.form] \in Message /\ e.id \in Nat \X Nat
  BY DEF Event, Message
<1>2. stream \in Seq(Message) /\ remembered \in SUBSET (Nat \X Nat)
  BY DEF PubTypeOK
<1> DEFINE m == [id |-> e.id, change |-> e.change, form |-> e.form]
<1>3. /\ stream' \in {stream, Append(stream, m)}
      /\ remembered' \in {remembered, remembered \cup {e.id}}
  BY DEF Store
<1> HIDE DEF m
<1>4. Append(stream, m) \in Seq(Message)
  BY <1>1, <1>2 DEF m
<1> QED BY ZenonT(40), <1>1, <1>2, <1>3, <1>4

\* Truncating an event changes nothing but its form.
LEMMA SmallerType ==
  ASSUME NEW e \in Event, e.form # "stripped"
  PROVE  /\ [e EXCEPT !.form = Smaller[e.form]] \in Event
         /\ [e EXCEPT !.form = Smaller[e.form]].seq = e.seq
         /\ [e EXCEPT !.form = Smaller[e.form]].id = e.id
         /\ [e EXCEPT !.form = Smaller[e.form]].change = e.change
         /\ [e EXCEPT !.form = Smaller[e.form]].kind = e.kind
<1>1. e.form \in {"full", "truncated"}
  BY DEF Event, Form
<1>2. Smaller[e.form] \in Form
  BY <1>1 DEF Smaller, Form
<1> HIDE DEF Smaller
<1> QED BY <1>2 DEF Event

\* Every step of the publisher and of its environment is well typed.
LEMMA PublisherTypes ==
  ASSUME PubTypeOK,
         \/ PublisherStep \/ PublishAcked \/ NatsConnect \/ NatsDisconnect \/ NatsClosed
         \/ CancelContext \/ PubEnds \/ \E id \in remembered : WindowExpires(id)
  PROVE  PubTypeOK'
<1> USE DEF PubTypeOK
<1>a. <<>> \in Seq(Event) /\ Len(<<>>) <= BufCap /\ NoEvent \in Event /\ BufCap \in Nat
  BY PublisherAssumption, KindFacts
<1>1. CASE AwaitStream
  BY <1>1 DEF AwaitStream
<1>2. CASE AwaitFatal
  BY <1>2, <1>a DEF AwaitFatal, Exit
<1>3. CASE Take
  <2>1. Tail(chan) \in Seq(Event) /\ Len(Tail(chan)) <= BufCap /\ Head(chan) \in Event
    BY <1>3, <1>a DEF Take
  <2>2. /\ chan' = Tail(chan) /\ cur' \in {Head(chan), NoEvent}
        /\ UNCHANGED <<pub, nats, failed, ctxDone, stream, remembered>>
    BY <1>3 DEF Take
  <2> QED BY <1>a, <2>1, <2>2
<1>4. CASE LoopCancelled
  BY <1>4, <1>a DEF LoopCancelled, Exit
<1>5. CASE PublishAckLost
  BY <1>5, StoreType DEF PublishAckLost
<1>6. CASE PublishDisconnected
  BY <1>6 DEF PublishDisconnected
<1>7. CASE PublishTooLarge
  <2>1. cur' \in Event
    BY <1>7, <1>a, SmallerType DEF PublishTooLarge
  <2> QED BY <1>7, <2>1 DEF PublishTooLarge
<1>8. CASE PublishCancelled
  BY <1>8, <1>a DEF PublishCancelled
<1>9. CASE WaitOver
  BY <1>9 DEF WaitOver
<1>10. CASE WaitClosed
  BY <1>10, <1>a DEF WaitClosed, Exit
<1>11. CASE PublishAcked
  BY <1>11, <1>a, StoreType DEF PublishAcked
<1>12. CASE NatsConnect \/ NatsDisconnect \/ NatsClosed
  BY ZenonT(40), <1>12 DEF NatsConnect, NatsDisconnect, NatsClosed
<1>13. CASE CancelContext
  BY <1>13 DEF CancelContext
<1>14. CASE PubEnds
  BY ZenonT(40), <1>14, <1>a DEF PubEnds
<1>15. CASE \E id \in remembered : WindowExpires(id)
  BY <1>15 DEF WindowExpires
<1> QED BY <1>1, <1>2, <1>3, <1>4, <1>5, <1>6, <1>7, <1>8, <1>9, <1>10, <1>11, <1>12,
           <1>13, <1>14, <1>15 DEF PublisherStep

-----------------------------------------------------------------------------
(***************************************************************************)
(* The publisher's queue.                                                  *)
(***************************************************************************)
LEMMA QueueType ==
  ASSUME PubTypeOK
  PROVE  \A e \in Queue : /\ e \in Event /\ e.seq \in Nat /\ IsPublishable(e)
                          /\ e.change = <<e.change[1], e.change[2]>>
                          /\ e.change[1] \in Nat /\ e.change[2] \in Nat
<1>1. \A e \in Queue : e \in Event /\ IsPublishable(e)
  BY DEF Queue, PubTypeOK
<1> QED BY <1>1 DEF Event

\* The queue is what waits in the buffer and what the publisher holds.
LEMMA QueueMembers ==
  /\ \A k \in 1 .. Len(chan) : IsPublishable(chan[k]) => chan[k] \in Queue
  /\ IsPublishable(cur) => cur \in Queue
  /\ \A e \in Queue : e = cur \/ \E k \in 1 .. Len(chan) : e = chan[k]
BY DEF Queue

\* A step that touches neither buffer nor publisher keeps the queue.
LEMMA QueueUnchanged ==
  ASSUME UNCHANGED <<chan, cur>>
  PROVE  Queue' = Queue
BY DEF Queue

\* HandleEvent adds a publishable event to the queue of a running publisher.
LEMMA QueuePush ==
  ASSUME PubTypeOK, NEW e \in Event, HandleEvent(e), cur' = cur
  PROVE  IF pub # "exited" /\ IsPublishable(e) THEN Queue' = Queue \cup {e} ELSE Queue' = Queue
<1>1. CASE pub = "exited"
  BY <1>1, QueueUnchanged DEF HandleEvent
<1>2. CASE pub # "exited"
  <2>1. chan' = Append(chan, e) /\ chan \in Seq(Event)
    BY <1>2 DEF HandleEvent, PubTypeOK
  <2>2. /\ Len(chan') = Len(chan) + 1 /\ chan'[Len(chan) + 1] = e /\ Len(chan) \in Nat
        /\ \A k \in 1 .. Len(chan) : chan'[k] = chan[k]
    BY <2>1
  <2>3. {chan'[k] : k \in 1 .. Len(chan')} = {chan[k] : k \in 1 .. Len(chan)} \cup {e}
    BY <2>2
  <2> QED BY ZenonT(40), <1>2, <2>3 DEF Queue
<1> QED BY <1>1, <1>2

\* Taking an event from the buffer keeps the queue.
LEMMA QueueTake ==
  ASSUME PubTypeOK, Take
  PROVE  Queue' = Queue
<1>1. /\ chan \in Seq(Event) /\ chan # <<>> /\ chan' = Tail(chan) /\ cur = NoEvent
      /\ cur' = IF IsPublishable(Head(chan)) THEN Head(chan) ELSE NoEvent
  BY DEF Take, PubTypeOK
<1>2. /\ Len(chan) \in Nat \ {0} /\ Len(chan') = Len(chan) - 1 /\ Head(chan) = chan[1]
      /\ \A k \in 1 .. Len(chan') : chan'[k] = chan[k + 1]
  BY <1>1
<1>3. {chan[k] : k \in 1 .. Len(chan)} = {chan'[k] : k \in 1 .. Len(chan')} \cup {Head(chan)}
  <2>1. \A k \in 1 .. Len(chan) : k = 1 \/ (k - 1 \in 1 .. Len(chan') /\ chan[k] = chan'[k - 1])
    BY <1>2
  <2>2. \A k \in 1 .. Len(chan') : k + 1 \in 1 .. Len(chan) /\ chan'[k] = chan[k + 1]
    BY <1>2
  <2>3. 1 \in 1 .. Len(chan) /\ chan[1] = Head(chan)
    BY <1>2
  <2> DEFINE L == {chan[k] : k \in 1 .. Len(chan)}
             R == {chan'[k] : k \in 1 .. Len(chan')}
  <2>4. \A x \in L : x \in R \cup {Head(chan)}
    BY <2>1, <2>3
  <2>5. Head(chan) \in L /\ \A x \in R : x \in L
    BY <2>2, <2>3
  <2> QED BY ZenonT(40), <2>4, <2>5
<1>4. ~IsPublishable(NoEvent)
  BY KindFacts
<1>5. CASE IsPublishable(Head(chan))
  BY ZenonT(40), <1>1, <1>3, <1>4, <1>5 DEF Queue
<1>6. CASE ~IsPublishable(Head(chan))
  BY <1>1, <1>3, <1>4, <1>6 DEF Queue
<1> QED BY <1>5, <1>6

\* With nothing in hand and nothing buffered there is no queue.
LEMMA QueueEmpty ==
  ASSUME chan' = <<>>, cur' = NoEvent
  PROVE  Queue' = {}
BY KindFacts DEF Queue

\* A stored message carries an id and a change.
LEMMA MessageType ==
  ASSUME PubTypeOK, NEW k \in 1 .. Len(stream)
  PROVE  /\ stream[k] \in Message /\ stream[k].id \in Nat \X Nat
         /\ stream[k].change = <<stream[k].change[1], stream[k].change[2]>>
<1>1. stream[k] \in Message
  BY DEF PubTypeOK
<1> QED BY <1>1 DEF Message

\* The stream is what it was, or has one message more: the event's, whose id was
\* in no duplicate window.
LEMMA StoreAppends ==
  ASSUME PubTypeOK, NEW e \in Event, Store(e)
  PROVE  \/ stream' = stream /\ remembered' = remembered
         \/ /\ e.id \notin remembered /\ remembered' = remembered \cup {e.id}
            /\ Len(stream) \in Nat /\ Len(stream') = Len(stream) + 1
            /\ \A k \in 1 .. Len(stream) : stream'[k] = stream[k]
            /\ stream'[Len(stream) + 1].id = e.id
            /\ stream'[Len(stream) + 1].change = e.change
<1>1. CASE e.id \in remembered
  BY <1>1 DEF Store
<1>2. CASE e.id \notin remembered
  <2> DEFINE m == [id |-> e.id, change |-> e.change, form |-> e.form]
  <2>1. stream' = Append(stream, m) /\ remembered' = remembered \cup {e.id} /\ m \in Message
    BY SMTT(25), <1>2 DEF Store, Message, Event
  <2>2. m.id = e.id /\ m.change = e.change
    OBVIOUS
  <2> HIDE DEF m
  <2>3. stream \in Seq(Message)
    BY DEF PubTypeOK
  <2>4. /\ Len(stream) \in Nat /\ Len(stream') = Len(stream) + 1
        /\ \A k \in 1 .. Len(stream) : stream'[k] = stream[k]
        /\ stream'[Len(stream) + 1] = m
    BY SMTT(25), <2>1, <2>3
  <2> QED BY SMTT(25), <1>2, <2>1, <2>2, <2>4
<1> QED BY <1>1, <1>2
=============================================================================
