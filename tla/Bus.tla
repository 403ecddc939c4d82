-------------------------------- MODULE Bus --------------------------------
(***************************************************************************)
(* The event bus, internal/cdc/service.go: producers pass events to every  *)
(* subscriber while they hold the service's lock for reading; subscribing, *)
(* unsubscribing and Shutdown hold it for writing; the health handler      *)
(* counts subscribers as another reader.                                   *)
(*                                                                         *)
(* A goroutine's step is what it does between two points where another one *)
(* can be seen: an atomic, a channel operation, an acquisition of the      *)
(* lock.  What is done under the write lock is one step, release included. *)
(***************************************************************************)
EXTENDS Integers, Sequences

CONSTANTS
  Producers, Subscribers, Readers, Closers,  \* goroutines
  Tables,
  Topic,      \* Topic[s]: the table s subscribes to, or AllTables
  AllTables,
  NoTable,    \* the table of events that have none: DDL, markers
  NoProc,
  BufCap,     \* capacity of a subscriber's channel (defaultChanBuffer)
  MaxEvents   \* bound: MaxEvents[p] is how many events p passes to the bus

ASSUME BusAssumption ==
  /\ Topic \in [Subscribers -> Tables \cup {AllTables}]
  /\ AllTables \notin Tables /\ NoTable \notin Tables
  /\ BufCap \in Nat \ {0} /\ MaxEvents \in [Producers -> Nat]
  /\ NoProc \notin Producers \cup Subscribers \cup Readers \cup Closers
  /\ Producers \cap Subscribers = {} /\ Producers \cap Readers = {}
  /\ Producers \cap Closers = {} /\ Subscribers \cap Readers = {}
  /\ Subscribers \cap Closers = {} /\ Readers \cap Closers = {}

Proc == Producers \cup Subscribers \cup Readers \cup Closers
Topics == Tables \cup {AllTables}
Event == [from : Producers, n : Nat, table : Tables \cup {NoTable}]

VARIABLES
  mu,        \* the lock: who reads, who is queued behind a writer, the writer
  subs,      \* globalSubs (AllTables) and tableSubs, in subscription order
  closed,    \* the service is shut down
  pc,        \* where each goroutine is
  todo,      \* todo[p]: subscribers HandleEvent has yet to deliver to
  sent,      \* sent[p]: valid events p has walked the subscribers with
  got,       \* got[s]: all that was ever put into s's channel
  taken,     \* taken[s]: how much of it s has received
  done,      \* done[s]: s has begun to unsubscribe
  chClosed,  \* chClosed[s]: s's channel is closed
  since      \* since[s][p]: how much p had sent when s subscribed (history)

vars == <<mu, subs, closed, pc, todo, sent, got, taken, done, chClosed, since>>
prodVars == <<todo, sent>>
subVars == <<got, taken, done, chClosed, since>>

Init ==
  /\ mu = [readers |-> {}, queued |-> {}, writer |-> NoProc]
  /\ subs = [t \in Topics |-> <<>>]
  /\ closed = FALSE
  /\ pc = [x \in Proc |-> IF x \in Subscribers THEN "subscribe" ELSE "idle"]
  /\ todo = [p \in Producers |-> <<>>]
  /\ sent = [p \in Producers |-> <<>>]
  /\ got = [s \in Subscribers |-> <<>>]
  /\ taken = [s \in Subscribers |-> 0]
  /\ done = [s \in Subscribers |-> FALSE]
  /\ chClosed = [s \in Subscribers |-> FALSE]
  /\ since = [s \in Subscribers |-> [p \in Producers |-> 0]]

goto(x, l) == pc' = [pc EXCEPT ![x] = l]

(***************************************************************************)
(* sync.RWMutex.  A writer announces itself and then waits for the readers *)
(* inside; readers that come later queue behind it and are let in, all of  *)
(* them, when it unlocks.                                                  *)
(***************************************************************************)
RLock(x) ==
  mu' = IF mu.writer = NoProc THEN [mu EXCEPT !.readers = @ \cup {x}]
        ELSE [mu EXCEPT !.queued = @ \cup {x}]
RUnlock(x) == mu' = [mu EXCEPT !.readers = @ \ {x}]
Reading(x) == x \in mu.readers

WantsLock == {"subscribe", "unsubscribe", "close"}
LockAnnounce(x) ==
  /\ pc[x] \in WantsLock /\ mu.writer = NoProc
  /\ mu' = [mu EXCEPT !.writer = x]
  /\ UNCHANGED <<subs, closed, pc, prodVars, subVars>>
Locked(x) == mu.writer = x /\ mu.readers = {}
Unlock == mu' = [readers |-> mu.queued, queued |-> {}, writer |-> NoProc]

(***************************************************************************)
(* HandleEvent: the check of `closed' comes before the lock.  A call that  *)
(* returns false, the service being closed or the data not JSON, changes   *)
(* nothing on the bus.                                                     *)
(***************************************************************************)
HandleEvent(p) ==
  /\ pc[p] = "idle" /\ Len(sent[p]) < MaxEvents[p]
  /\ ~closed /\ goto(p, "rlock")
  /\ UNCHANGED <<mu, subs, closed, prodVars, subVars>>

HandleRLock(p) ==
  /\ pc[p] = "rlock"
  /\ RLock(p) /\ goto(p, "walk")
  /\ UNCHANGED <<subs, closed, prodVars, subVars>>

Receivers(tbl) == subs[AllTables] \o (IF tbl = NoTable THEN <<>> ELSE subs[tbl])

\* The lists cannot change while p reads, so p walks a copy.
Walk(p, tbl) ==
  /\ pc[p] = "walk" /\ Reading(p)
  /\ sent' = [sent EXCEPT ![p] = Append(@, [from |-> p, n |-> Len(@) + 1, table |-> tbl])]
  /\ todo' = [todo EXCEPT ![p] = Receivers(tbl)]
  /\ goto(p, "deliver")
  /\ UNCHANGED <<mu, subs, closed, subVars>>

Current(p) == sent[p][Len(sent[p])]
Room(s) == Len(got[s]) - taken[s] < BufCap

Put(p, s) ==
  /\ got' = [got EXCEPT ![s] = Append(@, Current(p))]
  /\ todo' = [todo EXCEPT ![p] = Tail(@)]

\* deliver's first select: send, or find the channel full.
DeliverSend(p) ==
  /\ pc[p] = "deliver" /\ todo[p] # <<>> /\ Room(Head(todo[p]))
  /\ Put(p, Head(todo[p]))
  /\ UNCHANGED <<mu, subs, closed, pc, sent, taken, done, chClosed, since>>

DeliverFull(p) ==
  /\ pc[p] = "deliver" /\ todo[p] # <<>> /\ ~Room(Head(todo[p]))
  /\ goto(p, "blocked")
  /\ UNCHANGED <<mu, subs, closed, prodVars, subVars>>

\* deliver's second select: send, or let go of a subscriber that leaves or of
\* a service that was shut down.
BlockedSend(p) ==
  /\ pc[p] = "blocked" /\ Room(Head(todo[p]))
  /\ Put(p, Head(todo[p])) /\ goto(p, "deliver")
  /\ UNCHANGED <<mu, subs, closed, sent, taken, done, chClosed, since>>

\* Wrong: gives up on a full subscriber.
LetGoWhenFull(p) ==
  /\ pc[p] = "blocked"
  /\ todo' = [todo EXCEPT ![p] = Tail(@)] /\ goto(p, "deliver")
  /\ UNCHANGED <<mu, subs, closed, sent, subVars>>

\* Wrong: tries a subscriber that has left again.
LetGoRetries(p) ==
  /\ pc[p] = "blocked" /\ (done[Head(todo[p])] \/ closed)
  /\ goto(p, "deliver")
  /\ UNCHANGED <<mu, subs, closed, prodVars, subVars>>

LetGo(p) ==
  /\ pc[p] = "blocked" /\ (done[Head(todo[p])] \/ closed)
  /\ todo' = [todo EXCEPT ![p] = Tail(@)] /\ goto(p, "deliver")
  /\ UNCHANGED <<mu, subs, closed, sent, subVars>>

HandleReturn(p) ==
  /\ pc[p] = "deliver" /\ todo[p] = <<>>
  /\ RUnlock(p) /\ goto(p, "idle")
  /\ UNCHANGED <<subs, closed, prodVars, subVars>>

(***************************************************************************)
(* Subscribe, SubscribeAll and the functions they return.                  *)
(***************************************************************************)
Subscribed(s) ==
  /\ pc[s] = "subscribe" /\ Locked(s)
  /\ subs' = [subs EXCEPT ![Topic[s]] = Append(@, s)]
  /\ since' = [since EXCEPT ![s] = [p \in Producers |-> Len(sent[p])]]
  /\ Unlock /\ goto(s, "on")
  /\ UNCHANGED <<closed, prodVars, got, taken, done, chClosed>>

\* The subscriber's goroutine, external to the bus: it takes events as it
\* likes, and unsubscribes at will or when its channel is closed and empty.
Receive(s) ==
  /\ pc[s] = "on" /\ taken[s] < Len(got[s])
  /\ taken' = [taken EXCEPT ![s] = @ + 1]
  /\ UNCHANGED <<mu, subs, closed, pc, prodVars, got, done, chClosed, since>>

\* Wrong: asks for the lock before telling blocked producers.
StopAfterLock(s) ==
  /\ pc[s] = "on" /\ goto(s, "unsubscribe")
  /\ UNCHANGED <<mu, subs, closed, prodVars, subVars>>

\* The returned unsub: stop() closes done before the lock is asked for.
Stop(s) ==
  /\ pc[s] = "on" /\ goto(s, "unsubscribe")
  /\ done' = [done EXCEPT ![s] = TRUE]
  /\ UNCHANGED <<mu, subs, closed, prodVars, got, taken, chClosed, since>>

Without(q, s) ==
  IF \E i \in 1 .. Len(q) : q[i] = s
  THEN LET i == CHOOSE j \in 1 .. Len(q) : q[j] = s
       IN SubSeq(q, 1, i - 1) \o SubSeq(q, i + 1, Len(q))
  ELSE q

Unsubscribed(s) ==
  /\ pc[s] = "unsubscribe" /\ Locked(s)
  /\ subs' = [subs EXCEPT ![Topic[s]] = Without(@, s)]
  /\ Unlock /\ goto(s, "gone")
  /\ UNCHANGED <<closed, prodVars, subVars>>

(***************************************************************************)
(* Shutdown: a second call returns at once.                                *)
(***************************************************************************)
Shutdown(c) ==
  /\ pc[c] = "idle"
  /\ closed' = TRUE
  /\ goto(c, IF closed THEN "done" ELSE "close")
  /\ UNCHANGED <<mu, subs, prodVars, subVars>>

Listed == UNION {{subs[t][i] : i \in 1 .. Len(subs[t])} : t \in Topics}

\* Wrong: does not wait for the producers that hold the lock.
CloseUnlocked(c) ==
  /\ pc[c] = "close" /\ mu.writer = c
  /\ chClosed' = [s \in Subscribers |-> chClosed[s] \/ s \in Listed]
  /\ subs' = [t \in Topics |-> <<>>]
  /\ mu' = [readers |-> mu.readers \cup mu.queued, queued |-> {}, writer |-> NoProc]
  /\ goto(c, "done")
  /\ UNCHANGED <<closed, prodVars, got, taken, done, since>>

CloseChannels(c) ==
  /\ pc[c] = "close" /\ Locked(c)
  /\ chClosed' = [s \in Subscribers |-> chClosed[s] \/ s \in Listed]
  /\ subs' = [t \in Topics |-> <<>>]
  /\ Unlock /\ goto(c, "done")
  /\ UNCHANGED <<closed, prodVars, got, taken, done, since>>

(***************************************************************************)
(* TotalSubscriberCount, called by the health handler.                     *)
(***************************************************************************)
CountRLock(r) ==
  /\ pc[r] = "idle" /\ RLock(r) /\ goto(r, "count")
  /\ UNCHANGED <<subs, closed, prodVars, subVars>>

Counted(r) ==
  /\ pc[r] = "count" /\ Reading(r)
  /\ RUnlock(r) /\ goto(r, "idle")
  /\ UNCHANGED <<subs, closed, prodVars, subVars>>

\* Nothing is left to do: the goroutines have returned or wait for events.
AllReturned ==
  /\ \A c \in Closers : pc[c] = "done"
  /\ \A s \in Subscribers : pc[s] = "gone"
  /\ \A p \in Producers : pc[p] = "idle" /\ (closed \/ Len(sent[p]) = MaxEvents[p])
  /\ UNCHANGED vars

Produce(p) ==
  \/ HandleRLock(p) \/ (\E t \in Tables \cup {NoTable} : Walk(p, t))
  \/ DeliverSend(p) \/ DeliverFull(p) \/ BlockedSend(p) \/ LetGo(p) \/ HandleReturn(p)
Count(r) == CountRLock(r) \/ Counted(r)
Write(x) == LockAnnounce(x) \/ Subscribed(x) \/ Unsubscribed(x)
Close(c) == LockAnnounce(c) \/ CloseChannels(c)

Next ==
  \/ \E p \in Producers : HandleEvent(p) \/ Produce(p)
  \/ \E s \in Subscribers : Write(s) \/ Receive(s) \/ Stop(s)
  \/ \E c \in Closers : Shutdown(c) \/ Close(c)
  \/ \E r \in Readers : Count(r)
  \/ AllReturned

Spec == Init /\ [][Next]_vars

(***************************************************************************)
(* Fairness: the scheduler runs every goroutine that can go on; a writer   *)
(* is not overtaken for ever.  Subscribers may stall, and nobody has to    *)
(* unsubscribe or shut down.                                               *)
(***************************************************************************)
FairSpec ==
  /\ Spec
  /\ \A p \in Producers : WF_vars(Produce(p))
  /\ \A s \in Subscribers : WF_vars(Write(s)) /\ SF_vars(LockAnnounce(s))
  /\ \A c \in Closers : WF_vars(Close(c)) /\ SF_vars(LockAnnounce(c))
  /\ \A r \in Readers : WF_vars(Counted(r))

\* Subscribers that keep receiving while they are subscribed.
Consuming == \A s \in Subscribers : WF_vars(Receive(s))

-----------------------------------------------------------------------------
(* Type invariant. *)
TypeOK ==
  /\ mu \in [readers : SUBSET Proc, queued : SUBSET Proc, writer : Proc \cup {NoProc}]
  /\ subs \in [Topics -> Seq(Subscribers)]
  /\ closed \in BOOLEAN
  /\ pc \in [Proc -> {"idle", "rlock", "walk", "deliver", "blocked", "subscribe",
                      "on", "unsubscribe", "gone", "close", "done", "count"}]
  /\ todo \in [Producers -> Seq(Subscribers)]
  /\ sent \in [Producers -> Seq(Event)]
  /\ got \in [Subscribers -> Seq(Event)]
  /\ taken \in [Subscribers -> Nat]
  /\ \A s \in Subscribers : Len(got[s]) - taken[s] \in 0 .. BufCap
  /\ done \in [Subscribers -> BOOLEAN]
  /\ chClosed \in [Subscribers -> BOOLEAN]
  /\ since \in [Subscribers -> [Producers -> Nat]]

(***************************************************************************)
(* No producer is ever about to send on a channel that Shutdown closed,    *)
(* which would panic: deliver (service.go:134-167) runs under the read     *)
(* lock, and Shutdown closes under the write lock what it finds listed.    *)
(***************************************************************************)
NoSendOnClosed ==
  \A p \in Producers : pc[p] \in {"deliver", "blocked"} =>
    \A i \in 1 .. Len(todo[p]) : ~chClosed[todo[p][i]]

\* The numbers of the events of p that concern s, of those p has passed to the
\* subscribers since s subscribed.
Concerning(s, p) ==
  {m \in since[s][p] + 1 .. Len(sent[p]) : Topic[s] \in {AllTables, sent[p][m].table}}

(***************************************************************************)
(* What a subscriber receives is free of gaps, repetitions and exchanges   *)
(* at all times: events that deliver drops when the subscriber leaves or   *)
(* the service shuts down are followed by no other event of the same       *)
(* producer that is received.                                              *)
(***************************************************************************)
ReceivedInOrder ==
  \A s \in Subscribers, p \in Producers : \A j \in 1 .. taken[s] : got[s][j].from = p =>
    LET n == got[s][j].n
    IN /\ n \in Concerning(s, p) /\ got[s][j] = sent[p][n]
       /\ \A i \in 1 .. j - 1 : got[s][i].from = p => got[s][i].n < n
       /\ \A m \in Concerning(s, p) : m < n => \E i \in 1 .. j - 1 : got[s][i] = sent[p][m]

(***************************************************************************)
(* Although the subscriber may stall for ever with a producer blocked on   *)
(* it under the read lock, an unsubscribe, also of that very subscriber,   *)
(* and Shutdown return (service.go:57, 161-164), and so does the health    *)
(* handler's count, which queues behind a waiting writer (190-199).        *)
(***************************************************************************)
CallsReturn ==
  /\ \A s \in Subscribers : pc[s] = "unsubscribe" ~> pc[s] = "gone"
  /\ \A c \in Closers : pc[c] = "close" ~> pc[c] = "done"
  /\ \A r \in Readers : pc[r] = "count" ~> pc[r] = "idle"

\* With subscribers that keep receiving, or leave, every HandleEvent returns
\* (service.go:99-130).
HandleEventReturns ==
  Consuming => \A p \in Producers : pc[p] = "rlock" ~> pc[p] = "idle"

(***************************************************************************)
(* With one subscriber, as in main, the lock, the walk and the two selects *)
(* of deliver amount to a subscription that HandleEvent feeds atomically.  *)
(* It ends when unsub closes done, or when Shutdown sets closed: from then *)
(* on a producer may pass its event over.                                  *)
(***************************************************************************)
OneSubscriber == \E s \in Subscribers : Subscribers = {s} /\ Topic[s] = AllTables
TheSubscriber == CHOOSE s \in Subscribers : TRUE
Held == TheSubscriber \in Listed /\ ~done[TheSubscriber] /\ ~closed
Buffered == SubSeq(got[TheSubscriber], taken[TheSubscriber] + 1, Len(got[TheSubscriber]))
HeldBuffer == IF Held THEN Buffered ELSE <<>>
Handled == [p \in Producers |-> Len(sent[p]) - (IF todo[p] = <<>> THEN 0 ELSE 1)]

TheSubscription == INSTANCE Subscription WITH
  EventTables <- Tables \cup {NoTable},
  Capacity <- BufCap,
  on <- Held,
  chan <- HeldBuffer,
  handled <- Handled

\* The bus, locks and channels included, implements the subscription that the
\* pipelines are modelled with (service.go:99-167).
ImplementsSubscription == TheSubscription!Spec
=============================================================================
