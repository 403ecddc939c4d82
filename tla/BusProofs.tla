----------------------------- MODULE BusProofs ------------------------------
(***************************************************************************)
(* Proofs about the event bus, for any number of producers, subscribers,   *)
(* readers and calls of Shutdown, and any capacity of the channels.        *)
(***************************************************************************)
EXTENDS Bus, TLAPS

\* The prover of the leaves that name none, and its time limit.
USE ZenonT(40)

Sending == {"deliver", "blocked"}
Labels == {"idle", "rlock", "walk", "deliver", "blocked", "subscribe", "on", "unsubscribe",
           "gone", "close", "done", "count"}

\* s is in one of the subscriber lists.
IsListed(s) == \E t \in Topics : \E i \in 1 .. Len(subs[t]) : subs[t][i] = s

\* A producer that sends holds the lock for reading and has something to send.
LockInv ==
  \A p \in Producers :
    /\ pc[p] \in Sending => p \in mu.readers /\ sent[p] # <<>>
    /\ pc[p] = "blocked" => todo[p] # <<>>

\* Channels in the lists, and those of subscribers to come, are open.
ListInv ==
  \A s \in Subscribers :
    /\ IsListed(s) => ~chClosed[s]
    /\ pc[s] = "subscribe" => ~IsListed(s) /\ ~chClosed[s]

BusInv == TypeOK /\ LockInv /\ ListInv /\ NoSendOnClosed

\* What Shutdown closes is what is in the lists.
LEMMA ListedIsListed == \A s : s \in Listed <=> IsListed(s)
BY SMTT(40) DEF Listed, IsListed

\* Two lists joined.
LEMMA JoinFact ==
  ASSUME NEW S, NEW a \in Seq(S), NEW b \in Seq(S)
  PROVE  /\ a \o b \in Seq(S)
         /\ Len(a \o b) = Len(a) + Len(b)
         /\ \A k \in 1 .. Len(a) + Len(b) :
              (a \o b)[k] = IF k <= Len(a) THEN a[k] ELSE b[k - Len(a)]
<1>1. a \o b \in Seq(S)
  BY SMTT(40)
<1>2. Len(a \o b) = Len(a) + Len(b)
  BY SMTT(40)
<1>3. \A k \in 1 .. Len(a) + Len(b) :
        (a \o b)[k] = IF k <= Len(a) THEN a[k] ELSE b[k - Len(a)]
  BY SMTT(40)
<1> QED BY <1>1, <1>2, <1>3

\* Removing a subscriber from a list adds none.
LEMMA WithoutFact ==
  ASSUME NEW q \in Seq(Subscribers), NEW s \in Subscribers
  PROVE  /\ Without(q, s) \in Seq(Subscribers)
         /\ \A i \in 1 .. Len(Without(q, s)) : \E j \in 1 .. Len(q) : Without(q, s)[i] = q[j]
<1>1. CASE ~\E i \in 1 .. Len(q) : q[i] = s
  BY <1>1 DEF Without
<1>2. CASE \E i \in 1 .. Len(q) : q[i] = s
  <2> DEFINE i == CHOOSE j \in 1 .. Len(q) : q[j] = s
             a == SubSeq(q, 1, i - 1)
             b == SubSeq(q, i + 1, Len(q))
  <2>1. i \in 1 .. Len(q)
    BY <1>2
  <2>2. Without(q, s) = a \o b
    BY <1>2 DEF Without
  <2> HIDE DEF i
  <2>3. a \in Seq(Subscribers) /\ Len(a) = i - 1 /\ \A k \in 1 .. i - 1 : a[k] = q[k]
    BY SMTT(40), <2>1
  <2>4. /\ b \in Seq(Subscribers) /\ Len(b) = Len(q) - i
        /\ \A k \in 1 .. Len(q) - i : b[k] = q[i + k]
    BY SMTT(40), <2>1
  <2> HIDE DEF a, b
  <2>5. a \o b \in Seq(Subscribers) /\ Len(a \o b) = Len(q) - 1
    <3>1. a \o b \in Seq(Subscribers) /\ Len(a \o b) = Len(a) + Len(b)
      BY <2>3, <2>4, JoinFact
    <3> QED BY SMTT(40), <3>1, <2>1, <2>3, <2>4
  <2>6. \A k \in 1 .. Len(q) - 1 : (a \o b)[k] = IF k <= i - 1 THEN q[k] ELSE q[k + 1]
    BY SMTT(40), <2>1, <2>3, <2>4
  <2>7. \A k \in 1 .. Len(q) - 1 : k \in 1 .. Len(q) /\ k + 1 \in 1 .. Len(q)
    BY SMTT(40)
  <2> QED BY <2>2, <2>5, <2>6, <2>7
<1> QED BY <1>1, <1>2

\* The rest of a list.
LEMMA TailFact ==
  ASSUME NEW S, NEW q \in Seq(S), q # <<>>
  PROVE  /\ Tail(q) \in Seq(S) /\ Head(q) \in S /\ Head(q) = q[1] /\ 1 \in 1 .. Len(q)
         /\ \A i \in 1 .. Len(Tail(q)) : i + 1 \in 1 .. Len(q) /\ Tail(q)[i] = q[i + 1]
BY SMTT(40)

\* A longer list is not empty.
LEMMA AppendFact ==
  ASSUME NEW S, NEW q \in Seq(S), NEW e
  PROVE  Append(q, e) # <<>>
<1>1. Len(Append(q, e)) = Len(q) + 1 /\ Len(q) \in Nat /\ Len(<<>>) = 0
  BY SMTT(40)
<1> QED BY SMTT(40), <1>1

\* The actions, without the nesting of Next.
LEMMA BusSteps ==
  ASSUME Next
  PROVE  \/ \E p \in Producers :
              \/ HandleEvent(p) \/ HandleRLock(p) \/ (\E t \in Tables \cup {NoTable} : Walk(p, t))
              \/ DeliverSend(p) \/ DeliverFull(p) \/ BlockedSend(p) \/ LetGo(p) \/ HandleReturn(p)
         \/ \E x \in Subscribers \cup Closers : LockAnnounce(x)
         \/ \E s \in Subscribers : Subscribed(s) \/ Unsubscribed(s) \/ Receive(s) \/ Stop(s)
         \/ \E c \in Closers : Shutdown(c) \/ CloseChannels(c)
         \/ \E r \in Readers : CountRLock(r) \/ Counted(r)
         \/ UNCHANGED vars
BY DEF Next, Produce, Count, Write, Close, AllReturned

\* Nothing is listed, nobody sends.
LEMMA BusInitInv == Init => BusInv
<1> SUFFICES ASSUME Init PROVE BusInv
  OBVIOUS
<1>1. TypeOK
  <2>1. mu \in [readers : SUBSET Proc, queued : SUBSET Proc, writer : Proc \cup {NoProc}]
    BY DEF Init
  <2>2. subs \in [Topics -> Seq(Subscribers)]
    BY SMTT(40) DEF Init
  <2>3. pc \in [Proc -> Labels]
    BY DEF Init, Labels
  <2>4. todo \in [Producers -> Seq(Subscribers)] /\ sent \in [Producers -> Seq(Event)]
    BY SMTT(40) DEF Init
  <2>5. /\ got \in [Subscribers -> Seq(Event)] /\ taken \in [Subscribers -> Nat]
        /\ \A s \in Subscribers : Len(got[s]) - taken[s] \in 0 .. BufCap
    BY SMTT(40), BusAssumption DEF Init
  <2>6. /\ closed \in BOOLEAN /\ done \in [Subscribers -> BOOLEAN]
        /\ chClosed \in [Subscribers -> BOOLEAN]
    BY DEF Init
  <2>7. since \in [Subscribers -> [Producers -> Nat]]
    BY DEF Init
  <2> QED BY <2>1, <2>2, <2>3, <2>4, <2>5, <2>6, <2>7 DEF TypeOK, Labels
<1>2. LockInv /\ ListInv /\ NoSendOnClosed
  BY SMTT(40) DEF Init, LockInv, ListInv, NoSendOnClosed, IsListed, Sending, Proc
<1> QED BY <1>1, <1>2 DEF BusInv

\* Every goroutine has a program counter.
LEMMA Procs ==
  /\ Producers \subseteq Proc /\ Subscribers \subseteq Proc
  /\ Readers \subseteq Proc /\ Closers \subseteq Proc
BY DEF Proc

\* The lock and the program counters stay in their types.
LEMMA LockTypeStep ==
  ASSUME TypeOK, Next
  PROVE  /\ mu' \in [readers : SUBSET Proc, queued : SUBSET Proc, writer : Proc \cup {NoProc}]
         /\ pc' \in [Proc -> Labels]
<1> USE Procs
<1>t. /\ mu \in [readers : SUBSET Proc, queued : SUBSET Proc, writer : Proc \cup {NoProc}]
      /\ pc \in [Proc -> Labels]
  BY DEF TypeOK, Labels
<1>1. ASSUME NEW x \in Proc, NEW l \in Labels, goto(x, l)
      PROVE  pc' \in [Proc -> Labels]
  BY <1>t, <1>1 DEF goto
<1>2. ASSUME NEW x \in Proc, RLock(x) \/ RUnlock(x)
      PROVE  mu' \in [readers : SUBSET Proc, queued : SUBSET Proc, writer : Proc \cup {NoProc}]
  BY SMTT(40), <1>t, <1>2 DEF RLock, RUnlock
<1>3. ASSUME Unlock
      PROVE  mu' \in [readers : SUBSET Proc, queued : SUBSET Proc, writer : Proc \cup {NoProc}]
  BY <1>t, <1>3 DEF Unlock
<1>4. ASSUME NEW p \in Producers,
             \/ HandleEvent(p) \/ HandleRLock(p) \/ (\E t \in Tables \cup {NoTable} : Walk(p, t))
             \/ DeliverSend(p) \/ DeliverFull(p) \/ BlockedSend(p) \/ LetGo(p) \/ HandleReturn(p)
      PROVE  /\ mu' = mu \/ RLock(p) \/ RUnlock(p)
             /\ pc' = pc \/ \E l \in Labels : goto(p, l)
  BY <1>4 DEF HandleEvent, HandleRLock, Walk, DeliverSend, DeliverFull, BlockedSend, LetGo,
              HandleReturn, Labels
<1>5. ASSUME NEW x \in Subscribers \cup Closers, LockAnnounce(x)
      PROVE  mu' = [mu EXCEPT !.writer = x] /\ pc' = pc
  BY <1>5 DEF LockAnnounce
<1>6. ASSUME NEW s \in Subscribers, Subscribed(s) \/ Unsubscribed(s) \/ Receive(s) \/ Stop(s)
      PROVE  /\ mu' = mu \/ Unlock
             /\ pc' = pc \/ \E l \in Labels : goto(s, l)
  BY <1>6 DEF Subscribed, Unsubscribed, Receive, Stop, Labels
<1>7. ASSUME NEW c \in Closers, Shutdown(c) \/ CloseChannels(c)
      PROVE  /\ mu' = mu \/ Unlock
             /\ \E l \in Labels : goto(c, l)
  BY <1>7 DEF Shutdown, CloseChannels, Labels
<1>8. ASSUME NEW r \in Readers, CountRLock(r) \/ Counted(r)
      PROVE  /\ RLock(r) \/ RUnlock(r)
             /\ \E l \in Labels : goto(r, l)
  BY <1>8 DEF CountRLock, Counted, Labels
<1>9. CASE UNCHANGED vars
  BY <1>9, <1>t DEF vars
<1>10. ASSUME NEW x \in Subscribers \cup Closers, mu' = [mu EXCEPT !.writer = x]
       PROVE  mu' \in [readers : SUBSET Proc, queued : SUBSET Proc, writer : Proc \cup {NoProc}]
  BY <1>10, <1>t
<1> QED BY BusSteps, <1>t, <1>1, <1>2, <1>3, <1>4, <1>5, <1>6, <1>7, <1>8, <1>9, <1>10

\* So do the lists.
LEMMA ListTypeStep ==
  ASSUME TypeOK, LockInv, Next
  PROVE  /\ subs' \in [Topics -> Seq(Subscribers)]
         /\ todo' \in [Producers -> Seq(Subscribers)]
<1>t. /\ subs \in [Topics -> Seq(Subscribers)] /\ todo \in [Producers -> Seq(Subscribers)]
      /\ Topic \in [Subscribers -> Topics]
  BY BusAssumption DEF TypeOK, Topics
<1>1. ASSUME NEW p \in Producers, NEW t \in Tables \cup {NoTable}, Walk(p, t)
      PROVE  subs' = subs /\ todo' \in [Producers -> Seq(Subscribers)]
  <2>1. Receivers(t) \in Seq(Subscribers)
    <3>1. /\ subs[AllTables] \in Seq(Subscribers)
          /\ (IF t = NoTable THEN <<>> ELSE subs[t]) \in Seq(Subscribers)
      BY SMTT(40), <1>t DEF Topics
    <3> HIDE DEF Topics
    <3> QED BY <3>1, JoinFact DEF Receivers
  <2> QED BY <1>t, <1>1, <2>1 DEF Walk
<1>2. ASSUME NEW p \in Producers, DeliverSend(p) \/ BlockedSend(p) \/ LetGo(p)
      PROVE  subs' = subs /\ todo' \in [Producers -> Seq(Subscribers)]
  <2>1. todo[p] \in Seq(Subscribers) /\ todo[p] # <<>>
    BY <1>t, <1>2 DEF DeliverSend, BlockedSend, LetGo, LockInv
  <2>2. Tail(todo[p]) \in Seq(Subscribers)
    BY <2>1, TailFact
  <2>3. subs' = subs /\ todo' = [todo EXCEPT ![p] = Tail(todo[p])]
    BY <1>2, <1>t DEF DeliverSend, BlockedSend, LetGo, Put
  <2> QED BY <1>t, <2>2, <2>3
<1>3. ASSUME NEW p \in Producers,
             HandleEvent(p) \/ HandleRLock(p) \/ DeliverFull(p) \/ HandleReturn(p)
      PROVE  subs' = subs /\ todo' = todo
  BY <1>3 DEF HandleEvent, HandleRLock, DeliverFull, HandleReturn, prodVars
<1>4. ASSUME NEW x \in Subscribers \cup Closers, LockAnnounce(x)
      PROVE  subs' = subs /\ todo' = todo
  BY <1>4 DEF LockAnnounce, prodVars
<1>5. ASSUME NEW s \in Subscribers, Subscribed(s)
      PROVE  subs' \in [Topics -> Seq(Subscribers)] /\ todo' = todo
  BY SMTT(40), <1>5, <1>t DEF Subscribed, prodVars
<1>6. ASSUME NEW s \in Subscribers, Unsubscribed(s)
      PROVE  subs' \in [Topics -> Seq(Subscribers)] /\ todo' = todo
  <2>1. Without(subs[Topic[s]], s) \in Seq(Subscribers)
    BY <1>t, WithoutFact
  <2> QED BY <1>6, <1>t, <2>1 DEF Unsubscribed, prodVars
<1>7. ASSUME NEW s \in Subscribers, Receive(s) \/ Stop(s)
      PROVE  subs' = subs /\ todo' = todo
  BY <1>7 DEF Receive, Stop, prodVars
<1>8. ASSUME NEW c \in Closers, Shutdown(c) \/ CloseChannels(c)
      PROVE  subs' \in [Topics -> Seq(Subscribers)] /\ todo' = todo
  <2>1. [t \in Topics |-> <<>>] \in [Topics -> Seq(Subscribers)]
    BY SMTT(40)
  <2>2. (subs' = subs \/ subs' = [t \in Topics |-> <<>>]) /\ todo' = todo
    BY <1>8 DEF Shutdown, CloseChannels, prodVars
  <2> QED BY <1>t, <2>1, <2>2
<1>9. ASSUME NEW r \in Readers, CountRLock(r) \/ Counted(r)
      PROVE  subs' = subs /\ todo' = todo
  BY <1>9 DEF CountRLock, Counted, prodVars
<1>10. CASE UNCHANGED vars
  BY <1>10, <1>t DEF vars
<1> QED BY BusSteps, <1>t, <1>1, <1>2, <1>3, <1>4, <1>5, <1>6, <1>7, <1>8, <1>9, <1>10

\* What a producer sends next, it has been given.
LEMMA CurrentEvent ==
  ASSUME TypeOK, LockInv, NEW p \in Producers, pc[p] \in Sending
  PROVE  Current(p) \in Event
<1>1. sent[p] \in Seq(Event) /\ sent[p] # <<>>
  BY DEF TypeOK, LockInv
<1>2. Len(sent[p]) \in 1 .. Len(sent[p])
  BY SMTT(40), <1>1
<1> QED BY SMTT(40), <1>1, <1>2 DEF Current

\* So do the events, and no channel holds more than its capacity.
LEMMA EventTypeStep ==
  ASSUME TypeOK, LockInv, Next
  PROVE  /\ sent' \in [Producers -> Seq(Event)]
         /\ got' \in [Subscribers -> Seq(Event)]
         /\ taken' \in [Subscribers -> Nat]
         /\ \A s \in Subscribers : Len(got'[s]) - taken'[s] \in 0 .. BufCap
<1>t. /\ sent \in [Producers -> Seq(Event)]
      /\ got \in [Subscribers -> Seq(Event)]
      /\ taken \in [Subscribers -> Nat]
      /\ \A s \in Subscribers : Len(got[s]) - taken[s] \in 0 .. BufCap
      /\ BufCap \in Nat
  BY BusAssumption DEF TypeOK
<1>1. ASSUME NEW p \in Producers, NEW t \in Tables \cup {NoTable}, Walk(p, t)
      PROVE  sent' \in [Producers -> Seq(Event)] /\ got' = got /\ taken' = taken
  <2>1. [from |-> p, n |-> Len(sent[p]) + 1, table |-> t] \in Event
    <3>1. Len(sent[p]) + 1 \in Nat
      BY SMTT(40), <1>t
    <3> QED BY <3>1 DEF Event
  <2> DEFINE e == [from |-> p, n |-> Len(sent[p]) + 1, table |-> t]
  <2>2. sent' = [sent EXCEPT ![p] = Append(sent[p], e)] /\ got' = got /\ taken' = taken
    BY <1>1, <1>t DEF Walk, subVars
  <2> HIDE DEF e
  <2>3. Append(sent[p], e) \in Seq(Event)
    BY SMTT(40), <1>t, <2>1 DEF e
  <2> QED BY <1>t, <2>2, <2>3
<1>2. ASSUME NEW p \in Producers, DeliverSend(p) \/ BlockedSend(p)
      PROVE  /\ sent' = sent /\ taken' = taken
             /\ got' \in [Subscribers -> Seq(Event)]
             /\ \A s \in Subscribers : Len(got'[s]) - taken'[s] \in 0 .. BufCap
  <2> DEFINE h == Head(todo[p])
             e == Current(p)
  <2>1. todo[p] \in Seq(Subscribers) /\ todo[p] # <<>> /\ pc[p] \in Sending
    BY <1>2 DEF DeliverSend, BlockedSend, LockInv, TypeOK, Sending
  <2>2. h \in Subscribers /\ e \in Event
    BY <2>1, TailFact, CurrentEvent
  <2>3. /\ sent' = sent /\ taken' = taken /\ got' = [got EXCEPT ![h] = Append(got[h], e)]
        /\ Len(got[h]) - taken[h] < BufCap
    BY <1>2, <1>t, <2>2 DEF DeliverSend, BlockedSend, Put, Room
  <2> HIDE DEF h, e
  <2>4. Append(got[h], e) \in Seq(Event) /\ Len(Append(got[h], e)) = Len(got[h]) + 1
    BY SMTT(40), <1>t, <2>2
  <2>5. got' \in [Subscribers -> Seq(Event)] /\ got'[h] = Append(got[h], e)
    BY <1>t, <2>2, <2>3, <2>4
  <2>6. ASSUME NEW s \in Subscribers
        PROVE  Len(got'[s]) - taken'[s] \in 0 .. BufCap
    <3>1. CASE s = h
      <4>1. Len(got[h]) \in Nat /\ taken[h] \in Nat /\ Len(got[h]) - taken[h] \in 0 .. BufCap
        BY SMTT(40), <1>t, <2>2
      <4> QED BY SMTT(40), <3>1, <4>1, <1>t, <2>3, <2>4, <2>5
    <3>2. CASE s # h
      <4>1. got'[s] = got[s]
        BY <1>t, <2>2, <2>3, <3>2
      <4> QED BY <4>1, <1>t, <2>3
    <3> QED BY <3>1, <3>2
  <2> QED BY <2>3, <2>5, <2>6
<1>3. ASSUME NEW s \in Subscribers, Receive(s)
      PROVE  /\ sent' = sent /\ got' = got
             /\ taken' \in [Subscribers -> Nat]
             /\ \A r \in Subscribers : Len(got'[r]) - taken'[r] \in 0 .. BufCap
  <2>1. /\ sent' = sent /\ got' = got /\ taken' = [taken EXCEPT ![s] = taken[s] + 1]
        /\ taken[s] < Len(got[s])
    BY <1>3, <1>t DEF Receive, prodVars
  <2>2. taken' \in [Subscribers -> Nat]
    BY SMTT(40), <1>t, <2>1
  <2>3. ASSUME NEW r \in Subscribers
        PROVE  Len(got'[r]) - taken'[r] \in 0 .. BufCap
    <3>1. /\ Len(got[r]) \in Nat /\ taken[r] \in Nat /\ Len(got[r]) - taken[r] \in 0 .. BufCap
          /\ taken'[r] = IF r = s THEN taken[r] + 1 ELSE taken[r]
      BY SMTT(40), <1>t, <2>1
    <3> QED BY SMTT(40), <3>1, <2>1, <1>t
  <2> QED BY <2>1, <2>2, <2>3
<1>4. ASSUME NEW p \in Producers,
             HandleEvent(p) \/ HandleRLock(p) \/ DeliverFull(p) \/ LetGo(p) \/ HandleReturn(p)
      PROVE  UNCHANGED <<sent, got, taken>>
  BY <1>4 DEF HandleEvent, HandleRLock, DeliverFull, LetGo, HandleReturn, prodVars, subVars
<1>5. ASSUME NEW x \in Subscribers \cup Closers, LockAnnounce(x)
      PROVE  UNCHANGED <<sent, got, taken>>
  BY <1>5 DEF LockAnnounce, prodVars, subVars
<1>6. ASSUME NEW s \in Subscribers, Subscribed(s) \/ Unsubscribed(s) \/ Stop(s)
      PROVE  UNCHANGED <<sent, got, taken>>
  BY <1>6 DEF Subscribed, Unsubscribed, Stop, prodVars, subVars
<1>7. ASSUME NEW c \in Closers, Shutdown(c) \/ CloseChannels(c)
      PROVE  UNCHANGED <<sent, got, taken>>
  BY <1>7 DEF Shutdown, CloseChannels, prodVars, subVars
<1>8. ASSUME NEW r \in Readers, CountRLock(r) \/ Counted(r)
      PROVE  UNCHANGED <<sent, got, taken>>
  BY <1>8 DEF CountRLock, Counted, prodVars, subVars
<1>9. CASE UNCHANGED vars
  BY <1>9, <1>t DEF vars
<1>10. CASE UNCHANGED <<sent, got, taken>>
  BY <1>10, <1>t
<1> QED BY BusSteps, <1>t, <1>1, <1>2, <1>3, <1>4, <1>5, <1>6, <1>7, <1>8, <1>9, <1>10

\* So do the flags and what the history remembers.
LEMMA FlagTypeStep ==
  ASSUME TypeOK, Next
  PROVE  /\ closed' \in BOOLEAN /\ done' \in [Subscribers -> BOOLEAN]
         /\ chClosed' \in [Subscribers -> BOOLEAN]
         /\ since' \in [Subscribers -> [Producers -> Nat]]
<1>t. /\ closed \in BOOLEAN /\ done \in [Subscribers -> BOOLEAN]
      /\ chClosed \in [Subscribers -> BOOLEAN]
      /\ since \in [Subscribers -> [Producers -> Nat]]
      /\ sent \in [Producers -> Seq(Event)]
  BY DEF TypeOK
<1>1. ASSUME NEW s \in Subscribers, Subscribed(s)
      PROVE  /\ UNCHANGED <<closed, done, chClosed>>
             /\ since' \in [Subscribers -> [Producers -> Nat]]
  <2>1. [p \in Producers |-> Len(sent[p])] \in [Producers -> Nat]
    BY SMTT(40), <1>t
  <2> QED BY <1>1, <1>t, <2>1 DEF Subscribed
<1>2. ASSUME NEW s \in Subscribers, Stop(s)
      PROVE  /\ UNCHANGED <<closed, chClosed, since>>
             /\ done' \in [Subscribers -> BOOLEAN]
  BY <1>2, <1>t DEF Stop
<1>3. ASSUME NEW c \in Closers, Shutdown(c) \/ CloseChannels(c)
      PROVE  /\ closed' \in BOOLEAN /\ UNCHANGED <<done, since>>
             /\ chClosed' \in [Subscribers -> BOOLEAN]
  BY <1>3, <1>t DEF Shutdown, CloseChannels, subVars
<1>4. ASSUME NEW p \in Producers,
             \/ HandleEvent(p) \/ HandleRLock(p) \/ (\E t \in Tables \cup {NoTable} : Walk(p, t))
             \/ DeliverSend(p) \/ DeliverFull(p) \/ BlockedSend(p) \/ LetGo(p) \/ HandleReturn(p)
      PROVE  UNCHANGED <<closed, done, chClosed, since>>
  BY <1>4 DEF HandleEvent, HandleRLock, Walk, DeliverSend, DeliverFull, BlockedSend, LetGo,
              HandleReturn, subVars
<1>5. ASSUME NEW x \in Subscribers \cup Closers, LockAnnounce(x)
      PROVE  UNCHANGED <<closed, done, chClosed, since>>
  BY <1>5 DEF LockAnnounce, subVars
<1>6. ASSUME NEW s \in Subscribers, Unsubscribed(s) \/ Receive(s)
      PROVE  UNCHANGED <<closed, done, chClosed, since>>
  BY <1>6 DEF Unsubscribed, Receive, subVars
<1>7. ASSUME NEW r \in Readers, CountRLock(r) \/ Counted(r)
      PROVE  UNCHANGED <<closed, done, chClosed, since>>
  BY <1>7 DEF CountRLock, Counted, subVars
<1>8. CASE UNCHANGED vars
  BY <1>8, <1>t DEF vars
<1> QED BY BusSteps, <1>t, <1>1, <1>2, <1>3, <1>4, <1>5, <1>6, <1>7, <1>8

\* A producer keeps the lock until HandleEvent returns.
LEMMA LockStep ==
  ASSUME TypeOK, LockInv, Next
  PROVE  LockInv'
<1> SUFFICES ASSUME NEW q \in Producers
             PROVE  /\ pc'[q] \in Sending => q \in mu'.readers /\ sent'[q] # <<>>
                    /\ pc'[q] = "blocked" => todo'[q] # <<>>
  BY DEF LockInv
<1>t. /\ pc \in [Proc -> Labels] /\ q \in Proc
      /\ sent \in [Producers -> Seq(Event)] /\ todo \in [Producers -> Seq(Subscribers)]
      /\ mu \in [readers : SUBSET Proc, queued : SUBSET Proc, writer : Proc \cup {NoProc}]
  BY Procs DEF TypeOK, Labels
<1>q. /\ pc[q] \in Sending => q \in mu.readers /\ sent[q] # <<>>
      /\ pc[q] = "blocked" => todo[q] # <<>>
  BY DEF LockInv
<1>1. ASSUME NEW p \in Producers, HandleEvent(p) \/ HandleRLock(p)
      PROVE  /\ pc'[q] \in Sending => q \in mu'.readers /\ sent'[q] # <<>>
             /\ pc'[q] = "blocked" => todo'[q] # <<>>
  <2>1. /\ \E l \in {"rlock", "walk"} : goto(p, l)
        /\ mu' = mu \/ RLock(p)
        /\ UNCHANGED <<sent, todo>>
    BY <1>1 DEF HandleEvent, HandleRLock, prodVars
  <2>2. pc'[q] \in Sending => pc'[q] = pc[q]
    BY <2>1, <1>t DEF goto, Sending
  <2>3. q \in mu.readers => q \in mu'.readers
    BY <2>1, <1>t DEF RLock
  <2> QED BY <2>1, <2>2, <2>3, <1>q DEF Sending
<1>2. ASSUME NEW p \in Producers, NEW t \in Tables \cup {NoTable}, Walk(p, t)
      PROVE  /\ pc'[q] \in Sending => q \in mu'.readers /\ sent'[q] # <<>>
             /\ pc'[q] = "blocked" => todo'[q] # <<>>
  <2>1. CASE q = p
    <3>1. /\ mu' = mu /\ q \in mu.readers /\ pc'[q] = "deliver"
          /\ sent'[q] = Append(sent[q], [from |-> p, n |-> Len(sent[q]) + 1, table |-> t])
      BY <1>2, <1>t, <2>1 DEF Walk, Reading, goto
    <3> QED BY <3>1, <1>t, AppendFact
  <2>2. CASE q # p
    BY <1>2, <1>t, <1>q, <2>2 DEF Walk, goto
  <2> QED BY <2>1, <2>2
<1>3. ASSUME NEW p \in Producers, DeliverSend(p) \/ DeliverFull(p) \/ BlockedSend(p) \/ LetGo(p)
      PROVE  /\ pc'[q] \in Sending => q \in mu'.readers /\ sent'[q] # <<>>
             /\ pc'[q] = "blocked" => todo'[q] # <<>>
  <2>1. mu' = mu /\ sent' = sent
    BY <1>3 DEF DeliverSend, DeliverFull, BlockedSend, LetGo, prodVars
  <2>2. pc'[q] \in Sending => pc[q] \in Sending
    BY <1>3, <1>t DEF DeliverSend, DeliverFull, BlockedSend, LetGo, goto, Sending
  <2>3. pc'[q] = "blocked" => todo'[q] # <<>>
    <3>1. CASE q = p
      BY <1>3, <1>t, <3>1 DEF DeliverSend, DeliverFull, BlockedSend, LetGo, goto, prodVars
    <3>2. CASE q # p
      BY <1>3, <1>t, <1>q, <3>2
         DEF DeliverSend, DeliverFull, BlockedSend, LetGo, Put, goto, prodVars
    <3> QED BY <3>1, <3>2
  <2> QED BY <2>1, <2>2, <2>3, <1>q
<1>4. ASSUME NEW p \in Producers, HandleReturn(p)
      PROVE  /\ pc'[q] \in Sending => q \in mu'.readers /\ sent'[q] # <<>>
             /\ pc'[q] = "blocked" => todo'[q] # <<>>
  <2>1. CASE q = p
    BY <1>4, <1>t, <2>1 DEF HandleReturn, goto, Sending
  <2>2. CASE q # p
    BY <1>4, <1>t, <1>q, <2>2 DEF HandleReturn, RUnlock, goto, prodVars
  <2> QED BY <2>1, <2>2
<1>5. ASSUME NEW x \in Subscribers \cup Closers \cup Readers,
             \/ LockAnnounce(x) \/ Receive(x) \/ Stop(x) \/ Shutdown(x)
             \/ CountRLock(x) \/ Counted(x)
      PROVE  /\ pc'[q] \in Sending => q \in mu'.readers /\ sent'[q] # <<>>
             /\ pc'[q] = "blocked" => todo'[q] # <<>>
  <2>1. q # x
    BY BusAssumption
  <2>2. (pc' = pc \/ \E l \in Labels : goto(x, l)) /\ UNCHANGED <<sent, todo>>
    BY <1>5 DEF LockAnnounce, Receive, Stop, Shutdown, CountRLock, Counted, prodVars, Labels
  <2>3. pc'[q] = pc[q]
    BY <2>1, <2>2, <1>t DEF goto
  <2>4. q \in mu.readers => q \in mu'.readers
    BY <1>5, <2>1, <1>t DEF LockAnnounce, Receive, Stop, Shutdown, CountRLock, Counted,
                            RLock, RUnlock
  <2> QED BY <2>2, <2>3, <2>4, <1>q
<1>6. ASSUME NEW x \in Subscribers \cup Closers,
             Subscribed(x) \/ Unsubscribed(x) \/ CloseChannels(x)
      PROVE  /\ pc'[q] \in Sending => q \in mu'.readers /\ sent'[q] # <<>>
             /\ pc'[q] = "blocked" => todo'[q] # <<>>
  <2>1. q # x
    BY BusAssumption
  <2>2. mu.readers = {} /\ \E l \in Labels : goto(x, l)
    BY <1>6 DEF Subscribed, Unsubscribed, CloseChannels, Locked, Labels
  <2>3. pc'[q] = pc[q]
    BY <2>1, <2>2, <1>t DEF goto
  <2> QED BY <2>2, <2>3, <1>q DEF Sending
<1>7. CASE UNCHANGED vars
  BY <1>7, <1>q DEF vars
<1> QED BY BusSteps, <1>1, <1>2, <1>3, <1>4, <1>5, <1>6, <1>7

\* Which lists a subscriber is in changes only under the lock.
LEMMA ListedStep ==
  ASSUME TypeOK, Next, NEW s \in Subscribers, IsListed(s)'
  PROVE  IsListed(s) \/ (Subscribed(s) /\ pc[s] = "subscribe")
<1>t. /\ subs \in [Topics -> Seq(Subscribers)] /\ Topic \in [Subscribers -> Topics]
  BY BusAssumption DEF TypeOK, Topics
<1>p. PICK t \in Topics : \E i \in 1 .. Len(subs'[t]) : subs'[t][i] = s
  BY DEF IsListed
<1>1. CASE subs' = subs
  BY <1>1, <1>p DEF IsListed
<1>2. ASSUME NEW r \in Subscribers, Subscribed(r)
      PROVE  IsListed(s) \/ (Subscribed(s) /\ pc[s] = "subscribe")
  <2>1. subs' = [subs EXCEPT ![Topic[r]] = Append(subs[Topic[r]], r)] /\ pc[r] = "subscribe"
    BY <1>2 DEF Subscribed
  <2>2. CASE r = s
    BY <2>1, <2>2, <1>2
  <2>3. CASE r # s /\ t = Topic[r]
    <3>1. subs[t] \in Seq(Subscribers) /\ subs'[t] = Append(subs[t], r)
      BY <2>1, <2>3, <1>t
    <3>2. \E i \in 1 .. Len(subs[t]) : subs[t][i] = s
      BY SMTT(40), <3>1, <1>p, <2>3
    <3> QED BY <3>2 DEF IsListed
  <2>4. CASE t # Topic[r]
    <3>1. subs'[t] = subs[t]
      BY <2>1, <2>4, <1>t
    <3> QED BY <3>1, <1>p DEF IsListed
  <2> QED BY <2>2, <2>3, <2>4
<1>3. ASSUME NEW r \in Subscribers, Unsubscribed(r)
      PROVE  IsListed(s)
  <2>1. subs' = [subs EXCEPT ![Topic[r]] = Without(subs[Topic[r]], r)]
    BY <1>3 DEF Unsubscribed
  <2>2. CASE t = Topic[r]
    <3>1. subs[t] \in Seq(Subscribers) /\ subs'[t] = Without(subs[t], r)
      BY <2>1, <2>2, <1>t
    <3>2. PICK i \in 1 .. Len(Without(subs[t], r)) : Without(subs[t], r)[i] = s
      BY <3>1, <1>p
    <3>3. \E j \in 1 .. Len(subs[t]) : Without(subs[t], r)[i] = subs[t][j]
      BY <3>1, WithoutFact
    <3> QED BY <3>2, <3>3 DEF IsListed
  <2>3. CASE t # Topic[r]
    <3>1. subs'[t] = subs[t]
      BY <2>1, <2>3, <1>t
    <3> QED BY <3>1, <1>p DEF IsListed
  <2> QED BY <2>2, <2>3
<1>4. ASSUME NEW c \in Closers, CloseChannels(c)
      PROVE  FALSE
  BY SMTT(40), <1>4, <1>p DEF CloseChannels
<1>5. ASSUME NEW p \in Producers,
             \/ HandleEvent(p) \/ HandleRLock(p) \/ (\E u \in Tables \cup {NoTable} : Walk(p, u))
             \/ DeliverSend(p) \/ DeliverFull(p) \/ BlockedSend(p) \/ LetGo(p) \/ HandleReturn(p)
      PROVE  subs' = subs
  BY <1>5 DEF HandleEvent, HandleRLock, Walk, DeliverSend, DeliverFull, BlockedSend, LetGo,
              HandleReturn
<1>6. ASSUME NEW x, \/ LockAnnounce(x) \/ Receive(x) \/ Stop(x) \/ Shutdown(x)
                    \/ CountRLock(x) \/ Counted(x)
      PROVE  subs' = subs
  BY <1>6 DEF LockAnnounce, Receive, Stop, Shutdown, CountRLock, Counted
<1>7. CASE UNCHANGED vars
  BY <1>7, <1>1 DEF vars
<1> QED BY BusSteps, <1>1, <1>2, <1>3, <1>4, <1>5, <1>6, <1>7

\* Shutdown, alone under the lock, closes what is listed.
LEMMA ClosedStep ==
  ASSUME TypeOK, LockInv, Next, NEW s \in Subscribers, chClosed'[s], ~chClosed[s]
  PROVE  /\ IsListed(s) /\ subs' = [t \in Topics |-> <<>>]
         /\ \A p \in Producers : pc[p] \notin Sending /\ pc'[p] = pc[p]
<1>t. /\ chClosed \in [Subscribers -> BOOLEAN] /\ pc \in [Proc -> Labels]
  BY DEF TypeOK, Labels
<1>1. ASSUME NEW c \in Closers, CloseChannels(c)
      PROVE  /\ IsListed(s) /\ subs' = [t \in Topics |-> <<>>]
             /\ \A p \in Producers : pc[p] \notin Sending /\ pc'[p] = pc[p]
  <2>1. /\ subs' = [t \in Topics |-> <<>>] /\ mu.readers = {} /\ goto(c, "done")
        /\ chClosed' = [r \in Subscribers |-> chClosed[r] \/ r \in Listed]
    BY <1>1 DEF CloseChannels, Locked
  <2>2. IsListed(s)
    BY <2>1, ListedIsListed
  <2>3. \A p \in Producers : pc[p] \notin Sending
    BY <2>1 DEF LockInv
  <2>4. \A p \in Producers : p # c /\ p \in Proc
    BY BusAssumption, Procs
  <2>5. \A p \in Producers : pc'[p] = pc[p]
    BY <2>1, <2>4, <1>t DEF goto
  <2> QED BY <2>1, <2>2, <2>3, <2>5
<1>2. ASSUME NEW p \in Producers,
             \/ HandleEvent(p) \/ HandleRLock(p) \/ (\E u \in Tables \cup {NoTable} : Walk(p, u))
             \/ DeliverSend(p) \/ DeliverFull(p) \/ BlockedSend(p) \/ LetGo(p) \/ HandleReturn(p)
      PROVE  chClosed' = chClosed
  BY <1>2 DEF HandleEvent, HandleRLock, Walk, DeliverSend, DeliverFull, BlockedSend, LetGo,
              HandleReturn, subVars
<1>3. ASSUME NEW x, \/ LockAnnounce(x) \/ Subscribed(x) \/ Unsubscribed(x) \/ Receive(x)
                    \/ Stop(x) \/ Shutdown(x) \/ CountRLock(x) \/ Counted(x)
      PROVE  chClosed' = chClosed
  BY <1>3 DEF LockAnnounce, Subscribed, Unsubscribed, Receive, Stop, Shutdown, CountRLock,
              Counted, subVars
<1>4. CASE UNCHANGED vars
  BY <1>4 DEF vars
<1> QED BY BusSteps, <1>1, <1>2, <1>3, <1>4

\* Nobody comes back to where subscribers start.
LEMMA StartStep ==
  ASSUME TypeOK, Next, NEW s \in Subscribers, pc'[s] = "subscribe"
  PROVE  pc[s] = "subscribe" /\ ~Subscribed(s)
<1>t. pc \in [Proc -> Labels] /\ s \in Proc
  BY Procs DEF TypeOK, Labels
<1>1. ASSUME NEW x, NEW l, l # "subscribe", goto(x, l)
      PROVE  pc[s] = "subscribe" /\ x # s
  BY <1>1, <1>t DEF goto
<1>2. ~Subscribed(s)
  BY <1>1 DEF Subscribed
<1>3. pc' = pc \/ \E x : \E l \in Labels \ {"subscribe"} : goto(x, l)
  <2>1. ASSUME NEW p \in Producers,
               \/ HandleEvent(p) \/ HandleRLock(p) \/ (\E u \in Tables \cup {NoTable} : Walk(p, u))
               \/ DeliverSend(p) \/ DeliverFull(p) \/ BlockedSend(p) \/ LetGo(p) \/ HandleReturn(p)
        PROVE  pc' = pc \/ \E l \in Labels \ {"subscribe"} : goto(p, l)
    BY <2>1 DEF HandleEvent, HandleRLock, Walk, DeliverSend, DeliverFull, BlockedSend, LetGo,
                HandleReturn, Labels
  <2>2. ASSUME NEW x, \/ LockAnnounce(x) \/ Subscribed(x) \/ Unsubscribed(x) \/ Receive(x)
                      \/ Stop(x) \/ Shutdown(x) \/ CloseChannels(x) \/ CountRLock(x) \/ Counted(x)
        PROVE  pc' = pc \/ \E l \in Labels \ {"subscribe"} : goto(x, l)
    BY <2>2 DEF LockAnnounce, Subscribed, Unsubscribed, Receive, Stop, Shutdown, CloseChannels,
                CountRLock, Counted, Labels
  <2>3. CASE UNCHANGED vars
    BY <2>3 DEF vars
  <2> QED BY BusSteps, <2>1, <2>2, <2>3
<1> QED BY SMTT(40), <1>1, <1>2, <1>3

\* Channels in the lists stay open.
LEMMA ListStep ==
  ASSUME TypeOK, LockInv, ListInv, Next
  PROVE  ListInv'
<1> SUFFICES ASSUME NEW s \in Subscribers
             PROVE  /\ IsListed(s)' => ~chClosed'[s]
                    /\ pc'[s] = "subscribe" => ~IsListed(s)' /\ ~chClosed'[s]
  BY DEF ListInv
<1>1. chClosed'[s] /\ ~chClosed[s] => IsListed(s) /\ ~IsListed(s)'
  BY SMTT(40), ClosedStep DEF IsListed
<1>2. IsListed(s)' => ~chClosed'[s]
  BY <1>1, ListedStep DEF ListInv
<1>3. pc'[s] = "subscribe" => ~IsListed(s)' /\ ~chClosed'[s]
  BY <1>1, StartStep, ListedStep DEF ListInv
<1> QED BY <1>2, <1>3

\* Producers go on sending to open channels: those they find in the lists are
\* open, and nothing is closed while they hold the lock.
LEMMA SendStep ==
  ASSUME TypeOK, LockInv, ListInv, NoSendOnClosed, Next
  PROVE  NoSendOnClosed'
<1> SUFFICES ASSUME NEW q \in Producers, pc'[q] \in Sending, NEW i \in 1 .. Len(todo'[q])
             PROVE  ~chClosed'[todo'[q][i]]
  BY DEF NoSendOnClosed, Sending
<1>t. /\ subs \in [Topics -> Seq(Subscribers)] /\ todo \in [Producers -> Seq(Subscribers)]
      /\ pc \in [Proc -> Labels] /\ q \in Proc
  BY Procs DEF TypeOK, Labels
<1>u. todo' \in [Producers -> Seq(Subscribers)] /\ todo'[q][i] \in Subscribers
  <2>1. todo' \in [Producers -> Seq(Subscribers)]
    BY ListTypeStep
  <2> QED BY SMTT(40), <2>1
<1>q. pc[q] \in Sending => \A j \in 1 .. Len(todo[q]) : ~chClosed[todo[q][j]]
  BY DEF NoSendOnClosed, Sending
<1>c. \A s \in Subscribers : chClosed'[s] /\ ~chClosed[s] => pc'[q] = pc[q] /\ pc[q] \notin Sending
  BY ClosedStep
<1>s. SUFFICES ~chClosed[todo'[q][i]]
  BY <1>c, <1>u
<1>1. ASSUME NEW t \in Tables \cup {NoTable}, Walk(q, t)
      PROVE  ~chClosed[todo'[q][i]]
  <2>1. todo'[q] = Receivers(t)
    BY <1>1, <1>t DEF Walk
  <2> DEFINE a == subs[AllTables]
             b == IF t = NoTable THEN <<>> ELSE subs[t]
  <2>2. a \in Seq(Subscribers) /\ b \in Seq(Subscribers)
    BY SMTT(40), <1>t DEF Topics
  <2>3. \A j \in 1 .. Len(a) : IsListed(a[j])
    BY DEF IsListed, Topics
  <2>4. \A j \in 1 .. Len(b) : IsListed(b[j])
    <3>1. CASE t = NoTable
      <4>1. b = <<>>
        BY <3>1
      <4> QED BY SMTT(40), <4>1
    <3>2. CASE t # NoTable
      BY <3>2 DEF IsListed, Topics
    <3> QED BY <3>1, <3>2
  <2>5. todo'[q] = a \o b
    BY <2>1 DEF Receivers
  <2> HIDE DEF a, b
  <2>6. /\ Len(a \o b) = Len(a) + Len(b)
        /\ (a \o b)[i] = IF i <= Len(a) THEN a[i] ELSE b[i - Len(a)]
    BY SMTT(40), <2>2, <2>5, JoinFact
  <2>7. i <= Len(a) => i \in 1 .. Len(a)
    BY SMTT(40), <2>2
  <2>8. ~(i <= Len(a)) => i - Len(a) \in 1 .. Len(b)
    BY SMTT(40), <2>2, <2>5, <2>6
  <2>9. IsListed(todo'[q][i])
    BY <2>3, <2>4, <2>5, <2>6, <2>7, <2>8
  <2> QED BY <2>9, <1>u DEF ListInv
<1>2. CASE DeliverSend(q) \/ BlockedSend(q) \/ LetGo(q)
  <2>1. pc[q] \in Sending /\ todo[q] # <<>> /\ todo'[q] = Tail(todo[q])
    BY <1>2, <1>t DEF DeliverSend, BlockedSend, LetGo, Put, LockInv, Sending
  <2>2. i + 1 \in 1 .. Len(todo[q]) /\ todo'[q][i] = todo[q][i + 1]
    BY SMTT(40), <2>1, <1>t, TailFact
  <2> QED BY <2>1, <2>2, <1>q
<1>3. CASE todo'[q] = todo[q] /\ pc[q] \in Sending
  BY <1>3, <1>q
<1>4. ASSUME NEW p \in Producers,
             \/ HandleEvent(p) \/ HandleRLock(p) \/ DeliverFull(p) \/ HandleReturn(p)
             \/ p # q /\ \/ \E t \in Tables \cup {NoTable} : Walk(p, t)
                         \/ DeliverSend(p) \/ BlockedSend(p) \/ LetGo(p)
      PROVE  todo'[q] = todo[q] /\ pc[q] \in Sending
  BY <1>4, <1>t DEF HandleEvent, HandleRLock, DeliverFull, HandleReturn, Walk, DeliverSend,
                    BlockedSend, LetGo, Put, goto, prodVars, Sending
<1>5. ASSUME NEW x \in Subscribers \cup Closers \cup Readers,
             \/ LockAnnounce(x) \/ Subscribed(x) \/ Unsubscribed(x) \/ Receive(x) \/ Stop(x)
             \/ Shutdown(x) \/ CloseChannels(x) \/ CountRLock(x) \/ Counted(x)
      PROVE  todo'[q] = todo[q] /\ pc[q] \in Sending
  <2>1. q # x
    BY BusAssumption
  <2>2. todo' = todo /\ (pc' = pc \/ \E l \in Labels : goto(x, l))
    BY <1>5 DEF LockAnnounce, Subscribed, Unsubscribed, Receive, Stop, Shutdown, CloseChannels,
                CountRLock, Counted, prodVars, Labels
  <2> QED BY <2>1, <2>2, <1>t DEF goto
<1>6. CASE UNCHANGED vars
  BY <1>6, <1>3 DEF vars
<1> QED BY BusSteps, <1>1, <1>2, <1>3, <1>4, <1>5, <1>6

(***************************************************************************)
(* The bus's inductive invariant: a producer between RLock and RUnlock is  *)
(* among the readers, so no writer is inside; what is listed is open.      *)
(***************************************************************************)
THEOREM BusInvariant == Spec => []BusInv
<1>1. BusInv /\ [Next]_vars => BusInv'
  <2> SUFFICES ASSUME BusInv, [Next]_vars PROVE BusInv'
    OBVIOUS
  <2> USE DEF BusInv
  <2>1. CASE Next
    <3>1. TypeOK'
      BY <2>1, LockTypeStep, ListTypeStep, EventTypeStep, FlagTypeStep DEF TypeOK, Labels
    <3>2. LockInv'
      BY <2>1, LockStep
    <3>3. ListInv'
      BY <2>1, ListStep
    <3>4. NoSendOnClosed'
      BY <2>1, SendStep
    <3> QED BY <3>1, <3>2, <3>3, <3>4
  <2>2. CASE UNCHANGED vars
    BY <2>2 DEF vars, TypeOK, LockInv, ListInv, IsListed, NoSendOnClosed
  <2> QED BY <2>1, <2>2
<1> QED BY <1>1, BusInitInv, PTL DEF Spec

\* No event is sent on a channel that Shutdown has closed (service.go:134-167,
\* 201-220), however many producers, subscribers and calls of Shutdown meet.
THEOREM SendsAreOpen == Spec => []NoSendOnClosed
<1>1. BusInv => NoSendOnClosed
  BY DEF BusInv
<1> QED BY <1>1, BusInvariant, PTL

\* State and lock keep their types, and a channel never holds more events than
\* defaultChanBuffer although several producers fill it (service.go:134-167).
THEOREM BusTypes == Spec => []TypeOK
<1>1. BusInv => TypeOK
  BY DEF BusInv
<1> QED BY <1>1, BusInvariant, PTL

-----------------------------------------------------------------------------
(***************************************************************************)
(* The bus as the subscription that module Publisher assumes.              *)
(***************************************************************************)
\* The one subscriber is listed once or not at all, and what a producer has
\* left to do is to send its newest event to it.
OneInv ==
  /\ \A t \in Tables : subs[t] = <<>>
  /\ subs[AllTables] \in {<<>>, <<TheSubscriber>>}
  /\ pc[TheSubscriber] = "subscribe" =>
       /\ subs[AllTables] = <<>> /\ got[TheSubscriber] = <<>> /\ taken[TheSubscriber] = 0
       /\ \A p \in Producers : todo[p] = <<>>
  /\ pc[TheSubscriber] \in {"unsubscribe", "gone"} => done[TheSubscriber]
  /\ \A c \in Closers : pc[c] = "close" => closed
  /\ \A p \in Producers :
       /\ todo[p] \in {<<>>, <<TheSubscriber>>}
       /\ todo[p] # <<>> => pc[p] \in Sending
       /\ \A k \in 1 .. Len(sent[p]) : sent[p][k].from = p /\ sent[p][k].n = k

\* The one subscriber.
LEMMA TheOne ==
  ASSUME OneSubscriber
  PROVE  /\ Subscribers = {TheSubscriber} /\ TheSubscriber \in Subscribers
         /\ Topic[TheSubscriber] = AllTables
<1>1. PICK s \in Subscribers : Subscribers = {s} /\ Topic[s] = AllTables
  BY DEF OneSubscriber
<1>2. TheSubscriber = s
  BY <1>1 DEF TheSubscriber
<1> QED BY <1>1, <1>2

\* A list of one.
LEMMA ListOfOne ==
  ASSUME NEW x
  PROVE  /\ Len(<<x>>) = 1 /\ <<x>>[1] = x /\ Head(<<x>>) = x /\ Tail(<<x>>) = <<>>
         /\ <<x>> # <<>> /\ Append(<<>>, x) = <<x>>
         /\ <<x>> \o <<>> = <<x>> /\ <<>> \o <<>> = <<>>
         /\ Without(<<x>>, x) = <<>> /\ Without(<<>>, x) = <<>>
<1>1. /\ Len(<<x>>) = 1 /\ <<x>>[1] = x /\ Head(<<x>>) = x /\ Tail(<<x>>) = <<>>
      /\ <<x>> # <<>> /\ Append(<<>>, x) = <<x>>
  BY SMTT(40)
<1>2. <<x>> \o <<>> = <<x>> /\ <<>> \o <<>> = <<>>
  BY SMTT(40)
<1>3. Without(<<>>, x) = <<>>
  BY SMTT(40) DEF Without
<1>4. Without(<<x>>, x) = <<>>
  <2>1. \E j \in 1 .. Len(<<x>>) : <<x>>[j] = x
    BY SMTT(40), <1>1
  <2>2. (CHOOSE j \in 1 .. Len(<<x>>) : <<x>>[j] = x) = 1
    BY SMTT(40), <1>1, <2>1
  <2>3. Without(<<x>>, x) = SubSeq(<<x>>, 1, 1 - 1) \o SubSeq(<<x>>, 1 + 1, Len(<<x>>))
    BY <2>1, <2>2 DEF Without
  <2>4. SubSeq(<<x>>, 1, 1 - 1) = <<>> /\ SubSeq(<<x>>, 1 + 1, Len(<<x>>)) = <<>>
    BY SMTT(40), <1>1
  <2> QED BY <2>3, <2>4, <1>2
<1> QED BY <1>1, <1>2, <1>3, <1>4

\* Held, in terms of the list.
LEMMA HeldFacts ==
  ASSUME OneSubscriber, TypeOK, OneInv
  PROVE  Held <=> subs[AllTables] # <<>> /\ ~done[TheSubscriber] /\ ~closed
<1>1. TheSubscriber \in Listed <=> subs[AllTables] # <<>>
  <2>1. TheSubscriber \in Listed <=>
          \E t \in Topics : \E i \in 1 .. Len(subs[t]) : subs[t][i] = TheSubscriber
    BY ListedIsListed DEF IsListed
  <2>2. \A t \in Topics : t \in Tables \/ t = AllTables
    BY DEF Topics
  <2>3. Len(<<>>) = 0 /\ AllTables \in Topics
    BY DEF Topics
  <2>4. CASE subs[AllTables] = <<>>
    BY SMTT(40), <2>1, <2>2, <2>3, <2>4 DEF OneInv
  <2>5. CASE subs[AllTables] = <<TheSubscriber>>
    BY SMTT(40), <2>1, <2>3, <2>5, ListOfOne
  <2> QED BY <2>4, <2>5, ListOfOne DEF OneInv
<1> QED BY <1>1 DEF Held

\* Init has the one subscriber out.
LEMMA OneInit ==
  ASSUME OneSubscriber, Init
  PROVE  OneInv
<1>1. TheSubscriber \in Proc /\ Closers \subseteq Proc /\ Producers \subseteq Proc
  BY TheOne, Procs
<1>2. \A c \in Closers : c \notin Subscribers
  BY BusAssumption
<1>3. pc[TheSubscriber] = "subscribe" /\ \A c \in Closers : pc[c] = "idle"
  BY <1>1, <1>2, TheOne DEF Init
<1>4. \A p \in Producers : todo[p] = <<>> /\ sent[p] = <<>> /\ Len(sent[p]) = 0
  BY DEF Init
<1>5. \A t \in Topics : subs[t] = <<>>
  BY DEF Init
<1>6. got[TheSubscriber] = <<>> /\ taken[TheSubscriber] = 0
  BY TheOne DEF Init
<1> QED BY SMTT(40), <1>3, <1>4, <1>5, <1>6 DEF OneInv, Topics

\* The list of the one subscriber, and where the goroutines are.
LEMMA OneListStep ==
  ASSUME OneSubscriber, TypeOK, OneInv, Next
  PROVE  /\ \A t \in Tables : subs'[t] = <<>>
         /\ subs'[AllTables] \in {<<>>, <<TheSubscriber>>}
         /\ pc'[TheSubscriber] = "subscribe" =>
              pc[TheSubscriber] = "subscribe" /\ subs'[AllTables] = subs[AllTables]
         /\ pc'[TheSubscriber] \in {"unsubscribe", "gone"} => done'[TheSubscriber]
         /\ \A c \in Closers : pc'[c] = "close" => closed'
<1> DEFINE s == TheSubscriber
           Goal == /\ \A t \in Tables : subs'[t] = <<>>
                   /\ subs'[AllTables] \in {<<>>, <<s>>}
                   /\ pc'[s] = "subscribe" => pc[s] = "subscribe" /\ subs'[AllTables] = subs[AllTables]
                   /\ pc'[s] \in {"unsubscribe", "gone"} => done'[s]
                   /\ \A c \in Closers : pc'[c] = "close" => closed'
<1> HIDE DEF s
<1>t. /\ subs \in [Topics -> Seq(Subscribers)] /\ AllTables \in Topics /\ Tables \subseteq Topics
      /\ pc \in [Proc -> Labels] /\ s \in Proc /\ Closers \subseteq Proc
      /\ done \in [Subscribers -> BOOLEAN] /\ s \in Subscribers /\ Subscribers = {s}
      /\ Topic[s] = AllTables /\ AllTables \notin Tables
  BY TheOne, Procs, BusAssumption DEF TypeOK, Labels, Topics, s
<1>i. /\ \A t \in Tables : subs[t] = <<>>
      /\ subs[AllTables] \in {<<>>, <<s>>}
      /\ pc[s] = "subscribe" => subs[AllTables] = <<>>
      /\ pc[s] \in {"unsubscribe", "gone"} => done[s]
      /\ \A c \in Closers : pc[c] = "close" => closed
  BY DEF OneInv, s
<1>1. ASSUME UNCHANGED <<subs, done, closed>>, NEW x \in Proc, NEW l \in Labels,
             goto(x, l), x \notin Closers, x # s
      PROVE  Goal
  BY <1>1, <1>t, <1>i DEF goto
<1>2. ASSUME NEW p \in Producers,
             \/ HandleEvent(p) \/ HandleRLock(p) \/ (\E t \in Tables \cup {NoTable} : Walk(p, t))
             \/ DeliverSend(p) \/ DeliverFull(p) \/ BlockedSend(p) \/ LetGo(p) \/ HandleReturn(p)
      PROVE  Goal
  <2>1. p \in Proc /\ p \notin Closers /\ p # s
    BY <1>t, Procs, BusAssumption
  <2>2. UNCHANGED <<subs, done, closed>> /\ (pc' = pc \/ \E l \in Labels : goto(p, l))
    BY <1>2 DEF HandleEvent, HandleRLock, Walk, DeliverSend, DeliverFull, BlockedSend, LetGo,
                HandleReturn, subVars, Labels
  <2> QED BY <1>1, <1>i, <2>1, <2>2
<1>3. ASSUME NEW r \in Readers, CountRLock(r) \/ Counted(r)
      PROVE  Goal
  <2>1. r \in Proc /\ r \notin Closers /\ r # s
    BY <1>t, Procs, BusAssumption
  <2>2. UNCHANGED <<subs, done, closed>> /\ \E l \in Labels : goto(r, l)
    BY <1>3 DEF CountRLock, Counted, subVars, Labels
  <2> QED BY <1>1, <2>1, <2>2
<1>4. ASSUME NEW x \in Subscribers \cup Closers, LockAnnounce(x)
      PROVE  Goal
  <2>1. UNCHANGED <<subs, done, closed, pc>>
    BY <1>4 DEF LockAnnounce, subVars
  <2> QED BY <2>1, <1>i
<1>c. s \notin Closers
  BY <1>t, BusAssumption
<1>5. ASSUME Subscribed(s)
      PROVE  Goal
  <2>1. subs' = [subs EXCEPT ![AllTables] = Append(subs[AllTables], s)] /\ pc[s] = "subscribe"
    BY <1>5, <1>t DEF Subscribed
  <2>2. Append(<<>>, s) = <<s>>
    BY ListOfOne
  <2>3. subs'[AllTables] = <<s>> /\ \A t \in Tables : subs'[t] = <<>>
    BY <2>1, <2>2, <1>t, <1>i
  <2>4. UNCHANGED <<done, closed>> /\ goto(s, "on")
    BY <1>5 DEF Subscribed
  <2> QED BY <1>t, <1>i, <1>c, <2>3, <2>4 DEF goto
<1>6. ASSUME Unsubscribed(s)
      PROVE  Goal
  <2>1. subs' = [subs EXCEPT ![AllTables] = Without(subs[AllTables], s)] /\ pc[s] = "unsubscribe"
    BY <1>6, <1>t DEF Unsubscribed
  <2>2. Without(subs[AllTables], s) = <<>>
    BY <1>i, ListOfOne
  <2>3. subs'[AllTables] = <<>> /\ \A t \in Tables : subs'[t] = <<>>
    BY <2>1, <2>2, <1>t, <1>i
  <2>4. UNCHANGED <<done, closed>> /\ goto(s, "gone")
    BY <1>6 DEF Unsubscribed, subVars
  <2> QED BY <1>t, <1>i, <1>c, <2>1, <2>3, <2>4 DEF goto
<1>7. ASSUME Receive(s)
      PROVE  Goal
  BY <1>7, <1>i DEF Receive
<1>8. ASSUME Stop(s)
      PROVE  Goal
  BY <1>8, <1>t, <1>i, <1>c DEF Stop, goto
<1>9. ASSUME NEW c \in Closers, Shutdown(c)
      PROVE  Goal
  <2>1. UNCHANGED <<subs, done>> /\ closed' = TRUE /\ \E l \in {"done", "close"} : goto(c, l)
    BY <1>9 DEF Shutdown, subVars
  <2> QED BY <2>1, <1>t, <1>i, <1>c DEF goto
<1>10. ASSUME NEW c \in Closers, CloseChannels(c)
      PROVE  Goal
  <2>1. /\ subs' = [t \in Topics |-> <<>>] /\ UNCHANGED <<done, closed>> /\ goto(c, "done")
    BY <1>10 DEF CloseChannels
  <2> QED BY <2>1, <1>t, <1>i, <1>c DEF goto
<1>11. ASSUME UNCHANGED vars
       PROVE  Goal
  <2>1. UNCHANGED <<subs, done, closed, pc>>
    BY <1>11 DEF vars
  <2> QED BY <2>1, <1>i
<1> HIDE DEF Goal
<1>12. Goal
  BY BusSteps, <1>t, <1>2, <1>3, <1>4, <1>5, <1>6, <1>7, <1>8, <1>9, <1>10, <1>11
<1> QED BY <1>12 DEF s, Goal

\* What producers have left to do, and what they have sent.
LEMMA OneTodoStep ==
  ASSUME OneSubscriber, TypeOK, LockInv, OneInv, Next, NEW q \in Producers
  PROVE  /\ todo'[q] \in {<<>>, <<TheSubscriber>>}
         /\ todo'[q] # <<>> => pc'[q] \in Sending /\ (todo[q] # <<>> \/ subs[AllTables] # <<>>)
         /\ \A k \in 1 .. Len(sent'[q]) : sent'[q][k].from = q /\ sent'[q][k].n = k
<1> DEFINE Goal == /\ todo'[q] \in {<<>>, <<TheSubscriber>>}
                   /\ todo'[q] # <<>> =>
                        pc'[q] \in Sending /\ (todo[q] # <<>> \/ subs[AllTables] # <<>>)
                   /\ \A k \in 1 .. Len(sent'[q]) : sent'[q][k].from = q /\ sent'[q][k].n = k
<1>t. /\ pc \in [Proc -> Labels] /\ q \in Proc
      /\ sent \in [Producers -> Seq(Event)] /\ todo \in [Producers -> Seq(Subscribers)]
  BY Procs DEF TypeOK, Labels
<1>i. /\ todo[q] \in {<<>>, <<TheSubscriber>>}
      /\ todo[q] # <<>> => pc[q] \in Sending
      /\ \A k \in 1 .. Len(sent[q]) : sent[q][k].from = q /\ sent[q][k].n = k
  BY DEF OneInv
<1>1. ASSUME NEW x \in Proc, NEW l \in Labels, goto(x, l) \/ pc' = pc, x # q,
             todo'[q] = todo[q], sent'[q] = sent[q]
      PROVE  Goal
  BY <1>1, <1>t, <1>i DEF goto
<1>2. ASSUME HandleEvent(q) \/ HandleRLock(q) \/ HandleReturn(q)
      PROVE  Goal
  <2>1. pc[q] \notin Sending \/ todo[q] = <<>>
    BY <1>2 DEF HandleEvent, HandleRLock, HandleReturn, Sending
  <2>2. UNCHANGED <<todo, sent>>
    BY <1>2 DEF HandleEvent, HandleRLock, HandleReturn, prodVars
  <2> QED BY <2>1, <2>2, <1>i
<1>3. ASSUME NEW t \in Tables \cup {NoTable}, Walk(q, t)
      PROVE  Goal
  <2>1. Receivers(t) = subs[AllTables]
    <3>1. subs[AllTables] \in {<<>>, <<TheSubscriber>>} /\ (t # NoTable => subs[t] = <<>>)
      BY DEF OneInv
    <3> QED BY <3>1, ListOfOne DEF Receivers
  <2> DEFINE e == [from |-> q, n |-> Len(sent[q]) + 1, table |-> t]
  <2>2. todo'[q] = subs[AllTables] /\ sent'[q] = Append(sent[q], e) /\ pc'[q] = "deliver"
    BY <1>3, <1>t, <2>1 DEF Walk, goto
  <2>3. e.from = q /\ e.n = Len(sent[q]) + 1
    OBVIOUS
  <2> HIDE DEF e
  <2>4. sent[q] \in Seq(Event) /\ Len(sent[q]) \in Nat
    BY SMTT(40), <1>t
  <2>5. /\ Len(sent'[q]) = Len(sent[q]) + 1
        /\ \A k \in 1 .. Len(sent[q]) : sent'[q][k] = sent[q][k]
        /\ sent'[q][Len(sent[q]) + 1] = e
    BY SMTT(40), <2>2, <2>4
  <2>6. ASSUME NEW k \in 1 .. Len(sent'[q])
        PROVE  sent'[q][k].from = q /\ sent'[q][k].n = k
    <3>1. k \in 1 .. Len(sent[q]) \/ k = Len(sent[q]) + 1
      BY SMTT(40), <2>4, <2>5
    <3>2. CASE k \in 1 .. Len(sent[q])
      BY <1>i, <2>5, <3>2
    <3>3. CASE k = Len(sent[q]) + 1
      BY <2>3, <2>5, <3>3
    <3> QED BY <3>1, <3>2, <3>3
  <2> QED BY <2>2, <2>6 DEF OneInv, Sending
<1>4. ASSUME DeliverSend(q) \/ BlockedSend(q) \/ LetGo(q)
      PROVE  Goal
  <2>1. todo[q] # <<>>
    BY <1>4 DEF DeliverSend, BlockedSend, LetGo, LockInv
  <2>2. todo[q] = <<TheSubscriber>>
    BY <2>1, <1>i
  <2>3. todo'[q] = Tail(todo[q]) /\ sent' = sent
    BY <1>4, <1>t DEF DeliverSend, BlockedSend, LetGo, Put
  <2>4. todo'[q] = <<>>
    BY <2>2, <2>3, ListOfOne
  <2> QED BY <2>3, <2>4, <1>i
<1>5. ASSUME DeliverFull(q)
      PROVE  Goal
  BY <1>5, <1>t, <1>i DEF DeliverFull, goto, Sending, prodVars
<1>6. ASSUME NEW p \in Producers, p # q,
             \/ HandleEvent(p) \/ HandleRLock(p) \/ (\E t \in Tables \cup {NoTable} : Walk(p, t))
             \/ DeliverSend(p) \/ DeliverFull(p) \/ BlockedSend(p) \/ LetGo(p) \/ HandleReturn(p)
      PROVE  Goal
  <2>1. p \in Proc /\ (pc' = pc \/ \E l \in Labels : goto(p, l))
    BY <1>6, Procs DEF HandleEvent, HandleRLock, Walk, DeliverSend, DeliverFull, BlockedSend, LetGo,
                HandleReturn, Labels
  <2>2. todo'[q] = todo[q] /\ sent'[q] = sent[q]
    BY <1>6, <1>t DEF HandleEvent, HandleRLock, Walk, DeliverSend, DeliverFull, BlockedSend, LetGo,
                HandleReturn, Put, prodVars
  <2>3. \E l \in Labels : goto(p, l) \/ pc' = pc
    BY <2>1 DEF Labels
  <2> QED BY <1>1, <1>6, <2>1, <2>2, <2>3
<1>7. ASSUME NEW x \in Subscribers \cup Closers \cup Readers,
             \/ LockAnnounce(x) \/ Subscribed(x) \/ Unsubscribed(x) \/ Receive(x) \/ Stop(x)
             \/ Shutdown(x) \/ CloseChannels(x) \/ CountRLock(x) \/ Counted(x)
      PROVE  Goal
  <2>1. x \in Proc /\ x # q
    BY BusAssumption, Procs
  <2>2. UNCHANGED <<todo, sent>>
    BY <1>7 DEF LockAnnounce, Subscribed, Unsubscribed, Receive, Stop, Shutdown, CloseChannels,
                CountRLock, Counted, prodVars
  <2>3. \E l \in Labels : goto(x, l) \/ pc' = pc
    BY <1>7 DEF LockAnnounce, Subscribed, Unsubscribed, Receive, Stop, Shutdown, CloseChannels,
                CountRLock, Counted, Labels
  <2> QED BY <1>1, <2>1, <2>2, <2>3
<1>8. ASSUME UNCHANGED vars
      PROVE  Goal
  <2>1. UNCHANGED <<todo, sent, pc>>
    BY <1>8 DEF vars
  <2> QED BY <2>1, <1>i
<1> HIDE DEF Goal
<1>9. Goal
  BY BusSteps, <1>2, <1>3, <1>4, <1>5, <1>6, <1>7, <1>8
<1> QED BY <1>9 DEF Goal

\* Nothing is put into the channel before the subscription.
LEMMA OneStep ==
  ASSUME OneSubscriber, TypeOK, LockInv, OneInv, Next
  PROVE  OneInv'
<1>1. ASSUME pc'[TheSubscriber] = "subscribe"
      PROVE  /\ subs'[AllTables] = <<>> /\ got'[TheSubscriber] = <<>> /\ taken'[TheSubscriber] = 0
             /\ \A p \in Producers : todo'[p] = <<>>
  <2>1. /\ subs'[AllTables] = <<>> /\ subs[AllTables] = <<>>
        /\ got[TheSubscriber] = <<>> /\ taken[TheSubscriber] = 0
        /\ \A p \in Producers : todo[p] = <<>>
    BY <1>1, OneListStep DEF OneInv
  <2>2. \A p \in Producers : todo'[p] = <<>>
    BY <2>1, OneTodoStep
  <2>3. got' = got
    <3>1. \A p \in Producers : ~DeliverSend(p) /\ ~BlockedSend(p)
      BY <2>1 DEF DeliverSend, BlockedSend, LockInv
    <3> QED BY <3>1, BusSteps DEF HandleEvent, HandleRLock, Walk, DeliverFull, LetGo, HandleReturn,
          LockAnnounce, Subscribed, Unsubscribed, Receive, Stop, Shutdown, CloseChannels,
          CountRLock, Counted, subVars, vars
  <2>4. taken'[TheSubscriber] = taken[TheSubscriber]
    <3>1. \A s \in Subscribers : ~Receive(s)
      <4>1. Subscribers = {TheSubscriber} /\ Len(<<>>) = 0
        BY TheOne
      <4> QED BY SMTT(40), <2>1, <4>1 DEF Receive
    <3> QED BY <3>1, BusSteps DEF HandleEvent, HandleRLock, Walk, DeliverFull, LetGo, HandleReturn,
          LockAnnounce, Subscribed, Unsubscribed, DeliverSend, BlockedSend, Stop, Shutdown,
          CloseChannels, CountRLock, Counted, subVars, vars
  <2> QED BY <2>1, <2>2, <2>3, <2>4
<1>2. /\ \A t \in Tables : subs'[t] = <<>>
      /\ subs'[AllTables] \in {<<>>, <<TheSubscriber>>}
      /\ pc'[TheSubscriber] \in {"unsubscribe", "gone"} => done'[TheSubscriber]
      /\ \A c \in Closers : pc'[c] = "close" => closed'
  BY OneListStep
<1>3. \A p \in Producers :
        /\ todo'[p] \in {<<>>, <<TheSubscriber>>}
        /\ todo'[p] # <<>> => pc'[p] \in Sending
        /\ \A k \in 1 .. Len(sent'[p]) : sent'[p][k].from = p /\ sent'[p][k].n = k
  BY OneTodoStep
<1> QED BY <1>1, <1>2, <1>3 DEF OneInv

\* Lists with the same elements are the same.
LEMMA SameList ==
  ASSUME NEW S, NEW q \in Seq(S), NEW r \in Seq(S), Len(q) = Len(r),
         \A i \in 1 .. Len(q) : q[i] = r[i]
  PROVE  q = r
<1>1. q = [i \in 1 .. Len(q) |-> q[i]] /\ r = [i \in 1 .. Len(r) |-> r[i]]
  BY SMTT(40)
<1>2. [i \in 1 .. Len(q) |-> q[i]] = [i \in 1 .. Len(r) |-> r[i]]
  OBVIOUS
<1> QED BY SMTT(40), <1>1, <1>2, Zenon

\* What is in the buffer after a send and after a receive.
LEMMA BufferMoves ==
  ASSUME NEW S, NEW q \in Seq(S), NEW e \in S, NEW n \in 0 .. Len(q)
  PROVE  /\ SubSeq(q, n + 1, Len(q)) \in Seq(S) /\ Len(SubSeq(q, n + 1, Len(q))) = Len(q) - n
         /\ SubSeq(Append(q, e), n + 1, Len(Append(q, e))) = Append(SubSeq(q, n + 1, Len(q)), e)
         /\ n < Len(q) =>
              /\ SubSeq(q, n + 1, Len(q)) # <<>>
              /\ Tail(SubSeq(q, n + 1, Len(q))) = SubSeq(q, (n + 1) + 1, Len(q))
<1> DEFINE b == SubSeq(q, n + 1, Len(q))
           a == Append(q, e)
           c == SubSeq(a, n + 1, Len(a))
           d == SubSeq(q, (n + 1) + 1, Len(q))
<1>1. Len(q) \in Nat /\ n \in Nat /\ n <= Len(q)
  BY SMTT(40)
<1>2. b \in Seq(S) /\ Len(b) = Len(q) - n /\ \A i \in 1 .. Len(q) - n : b[i] = q[n + i]
  BY SMTT(40), <1>1
<1>3. /\ a \in Seq(S) /\ Len(a) = Len(q) + 1 /\ a[Len(q) + 1] = e
      /\ \A i \in 1 .. Len(q) : a[i] = q[i]
  BY SMTT(40), <1>1
<1>4. c \in Seq(S) /\ Len(c) = Len(q) + 1 - n /\ \A i \in 1 .. Len(q) + 1 - n : c[i] = a[n + i]
  <2> HIDE DEF a
  <2> QED BY SMTT(40), <1>1, <1>3
<1>5. c = Append(b, e)
  <2>1. /\ Append(b, e) \in Seq(S) /\ Len(Append(b, e)) = Len(q) - n + 1
        /\ Append(b, e)[Len(q) - n + 1] = e
        /\ \A i \in 1 .. Len(q) - n : Append(b, e)[i] = b[i]
    <3> HIDE DEF b
    <3> QED BY SMTT(40), <1>1, <1>2
  <2> DEFINE f == Append(b, e)
  <2> HIDE DEF a, b, c, f
  <2>2. Len(c) = Len(f) /\ Len(c) = Len(q) - n + 1
    BY SMTT(40), <1>1, <1>4, <2>1 DEF f
  <2>3. ASSUME NEW i \in 1 .. Len(c) PROVE c[i] = f[i]
    <3>1. CASE i \in 1 .. Len(q) - n
      <4>1. n + i \in 1 .. Len(q) /\ c[i] = a[n + i]
        BY SMTT(40), <1>1, <1>4, <3>1
      <4> QED BY <4>1, <1>2, <1>3, <2>1, <3>1 DEF f
    <3>2. CASE i = Len(q) - n + 1
      <4>1. n + i = Len(q) + 1 /\ c[i] = a[n + i]
        BY SMTT(40), <1>1, <1>4, <3>2
      <4> QED BY <4>1, <1>3, <2>1, <3>2 DEF f
    <3> QED BY SMTT(40), <1>1, <2>2, <3>1, <3>2
  <2>4. c = f
    <3>1. c \in Seq(S) /\ f \in Seq(S)
      BY <1>4, <2>1 DEF f
    <3> QED BY <2>2, <2>3, <3>1, SameList
  <2> QED BY <2>4 DEF f
<1>6. ASSUME n < Len(q)
      PROVE  b # <<>> /\ Tail(b) = d
  <2>1. b # <<>>
    <3> HIDE DEF b
    <3> QED BY SMTT(40), <1>1, <1>2, <1>6
  <2>2. d \in Seq(S) /\ Len(d) = Len(q) - n - 1 /\ \A i \in 1 .. Len(q) - n - 1 : d[i] = q[n + 1 + i]
    BY SMTT(40), <1>1, <1>6
  <2> HIDE DEF b, d
  <2>3. /\ Tail(b) \in Seq(S) /\ Len(Tail(b)) = Len(q) - n - 1
        /\ \A i \in 1 .. Len(q) - n - 1 : Tail(b)[i] = b[i + 1]
    BY SMTT(40), <1>1, <1>2, <1>6, <2>1
  <2>4. ASSUME NEW i \in 1 .. Len(q) - n - 1 PROVE Tail(b)[i] = d[i]
    <3>1. i + 1 \in 1 .. Len(q) - n /\ n + (i + 1) = n + 1 + i
      BY SMTT(40), <1>1
    <3> QED BY <3>1, <1>2, <2>2, <2>3
  <2>5. Tail(b) = d
    BY <2>2, <2>3, <2>4, SameList
  <2> QED BY <2>1, <2>5
<1> QED BY <1>2, <1>5, <1>6

\* The calls of a producer that are over.
LEMMA HandledFacts ==
  ASSUME NEW q \in Producers
  PROVE  /\ sent[q] \in Seq(Event) /\ todo[q] = <<>> => Handled[q] = Len(sent[q])
         /\ todo[q] # <<>> => Handled[q] = Len(sent[q]) - 1
         /\ sent'[q] \in Seq(Event) /\ todo'[q] = <<>> => Handled'[q] = Len(sent'[q])
         /\ todo'[q] # <<>> => Handled'[q] = Len(sent'[q]) - 1
<1>1. /\ Handled[q] = Len(sent[q]) - (IF todo[q] = <<>> THEN 0 ELSE 1)
      /\ Handled'[q] = Len(sent'[q]) - (IF todo'[q] = <<>> THEN 0 ELSE 1)
  BY DEF Handled
<1>2. sent[q] \in Seq(Event) => Len(sent[q]) - 0 = Len(sent[q])
  BY SMTT(40)
<1>3. sent'[q] \in Seq(Event) => Len(sent'[q]) - 0 = Len(sent'[q])
  BY SMTT(40)
<1> QED BY <1>1, <1>2, <1>3

\* Every call that is over counts once.
LEMMA HandledOne ==
  ASSUME TypeOK, NEW q \in Producers,
         \A p \in Producers \ {q} : todo'[p] = todo[p] /\ sent'[p] = sent[p],
         Handled'[q] = Handled[q] + 1
  PROVE  Handled' = [Handled EXCEPT ![q] = @ + 1]
BY DEF Handled

\* What the subscriber sees stays.
LEMMA Unseen ==
  ASSUME OneSubscriber, TypeOK, OneInv, OneInv', TypeOK',
         Handled' = Handled,
         Held' <=> Held,
         Held => UNCHANGED <<got, taken>>
  PROVE  UNCHANGED TheSubscription!vars
<1>1. HeldBuffer' = HeldBuffer
  BY DEF HeldBuffer, Buffered
<1>2. Held' = Held
  BY DEF Held
<1> QED BY <1>1, <1>2 DEF TheSubscription!vars

\* A call that passes its event over does so when nobody holds the subscription.
LEMMA PassedOver ==
  ASSUME NEW q \in Producers, NEW t \in Tables \cup {NoTable}, ~Held, ~Held',
         Handled' = [Handled EXCEPT ![q] = @ + 1]
  PROVE  TheSubscription!Next
<1>1. HeldBuffer' = HeldBuffer /\ Held' = Held
  BY DEF HeldBuffer, Held
<1>2. TheSubscription!Handle(q, t)
  BY <1>1 DEF TheSubscription!Handle
<1> QED BY <1>2 DEF TheSubscription!Next

\* The walk of HandleEvent.
LEMMA WalkStep ==
  ASSUME OneSubscriber, TypeOK, OneInv, TypeOK', OneInv',
         NEW q \in Producers, NEW t \in Tables \cup {NoTable}, Walk(q, t)
  PROVE  TheSubscription!Next \/ UNCHANGED TheSubscription!vars
<1>t. pc \in [Proc -> Labels] /\ sent \in [Producers -> Seq(Event)]
      /\ todo \in [Producers -> Seq(Subscribers)]
  BY DEF TypeOK, Labels
<1>1. Receivers(t) = subs[AllTables]
  <2>1. subs[AllTables] \in {<<>>, <<TheSubscriber>>} /\ (t # NoTable => subs[t] = <<>>)
    BY DEF OneInv
  <2> QED BY <2>1, ListOfOne DEF Receivers
<1>2. todo[q] = <<>>
  BY DEF Walk, OneInv, Sending
<1>3. /\ todo'[q] = subs[AllTables]
      /\ sent'[q] = Append(sent[q], [from |-> q, n |-> Len(sent[q]) + 1, table |-> t])
      /\ \A p \in Producers \ {q} : todo'[p] = todo[p] /\ sent'[p] = sent[p]
      /\ UNCHANGED <<subs, done, closed, got, taken>>
  BY <1>t, <1>1 DEF Walk, subVars
<1>4. Len(sent'[q]) = Len(sent[q]) + 1 /\ Len(sent[q]) \in Nat
  BY SMTT(40), <1>t, <1>3
<1>5. Held' <=> Held
  BY SMTT(40), <1>3 DEF Held, Listed
<1>6. CASE subs[AllTables] = <<>>
  <2>1. Handled'[q] = Handled[q] + 1
    BY <1>2, <1>3, <1>4, <1>6, <1>t, HandledFacts DEF TypeOK
  <2>2. ~Held
    BY <1>6, HeldFacts
  <2> QED BY <1>3, <1>5, <2>1, <2>2, HandledOne, PassedOver
<1>7. CASE subs[AllTables] # <<>>
  <2>1. Handled'[q] = Handled[q]
    <3>1. Handled[q] = Len(sent[q])
      BY <1>2, <1>t, HandledFacts
    <3>2. Handled'[q] = Len(sent'[q]) - 1
      BY <1>3, <1>7, HandledFacts
    <3> QED BY SMTT(40), <1>4, <3>1, <3>2
  <2>2. Handled' = Handled
    BY <1>3, <2>1 DEF Handled
  <2> QED BY <1>3, <1>5, <2>2, Unseen
<1> QED BY <1>6, <1>7

\* A send, at once or after the channel was full.
LEMMA PutStep ==
  ASSUME OneSubscriber, TypeOK, LockInv, OneInv,
         NEW q \in Producers, DeliverSend(q) \/ BlockedSend(q)
  PROVE  TheSubscription!Next
<1>t. /\ pc \in [Proc -> Labels] /\ sent \in [Producers -> Seq(Event)]
      /\ todo \in [Producers -> Seq(Subscribers)] /\ got \in [Subscribers -> Seq(Event)]
      /\ taken \in [Subscribers -> Nat] /\ TheSubscriber \in Subscribers
      /\ \A s \in Subscribers : Len(got[s]) - taken[s] \in 0 .. BufCap
  BY TheOne DEF TypeOK, Labels
<1>1. todo[q] # <<>> /\ sent[q] # <<>> /\ pc[q] \in Sending
  BY DEF DeliverSend, BlockedSend, LockInv, Sending
<1>2. todo[q] = <<TheSubscriber>> /\ Head(todo[q]) = TheSubscriber /\ Tail(todo[q]) = <<>>
  BY <1>1, ListOfOne DEF OneInv
<1>3. /\ todo' = [todo EXCEPT ![q] = <<>>] /\ UNCHANGED <<sent, taken, subs, done, closed>>
      /\ got' = [got EXCEPT ![TheSubscriber] = Append(got[TheSubscriber], Current(q))]
      /\ Len(got[TheSubscriber]) - taken[TheSubscriber] < BufCap
  BY <1>2, <1>t DEF DeliverSend, BlockedSend, Put, Room
<1>4. Len(sent[q]) \in Nat \ {0}
  BY SMTT(40), <1>1, <1>t
<1>5. Current(q) \in Event /\ Current(q).from = q /\ Current(q).n = Len(sent[q])
  BY SMTT(40), <1>1, <1>4, CurrentEvent DEF OneInv, Current
<1>6. /\ Handled[q] = Len(sent[q]) - 1 /\ Handled'[q] = Handled[q] + 1
      /\ Handled' = [Handled EXCEPT ![q] = @ + 1]
  <2>1. Handled[q] = Len(sent[q]) - 1
    BY <1>1 DEF Handled
  <2>2. todo'[q] = <<>>
    BY <1>3, <1>t
  <2>3. Handled'[q] = Len(sent[q])
    BY <1>t, <1>3, <2>2, HandledFacts
  <2>4. \A p \in Producers \ {q} : todo'[p] = todo[p] /\ sent'[p] = sent[p]
    BY <1>3, <1>t
  <2>5. Handled'[q] = Handled[q] + 1
    BY SMTT(40), <1>4, <2>1, <2>3
  <2> QED BY <2>1, <2>4, <2>5, HandledOne
<1>7. Held' <=> Held
  BY SMTT(40), <1>3 DEF Held, Listed
<1>8. ASSUME ~Held PROVE TheSubscription!Next
  BY <1>6, <1>7, <1>8, PassedOver
<1>9. ASSUME Held PROVE TheSubscription!Next
  <2> DEFINE g == got[TheSubscriber]
             m == taken[TheSubscriber]
             e == Current(q)
             d == Current(q).table
  <2>1. g \in Seq(Event) /\ m \in 0 .. Len(g) /\ e \in Event /\ d \in Tables \cup {NoTable}
    <3>1. g \in Seq(Event) /\ e \in Event /\ d \in Tables \cup {NoTable}
      BY <1>t, <1>5 DEF Event
    <3>2. Len(g) \in Nat /\ m \in Nat /\ Len(g) - m \in 0 .. BufCap
      BY SMTT(40), <1>t
    <3>3. BufCap \in Nat
      BY BusAssumption
    <3> HIDE DEF g, m
    <3>4. m \in 0 .. Len(g)
      BY SMTT(40), <3>2, <3>3
    <3> QED BY <3>1, <3>4
  <2>2. HeldBuffer = SubSeq(g, m + 1, Len(g))
    BY <1>9 DEF HeldBuffer, Buffered
  <2>3. got'[TheSubscriber] = Append(g, e) /\ taken'[TheSubscriber] = m
    BY <1>3, <1>t
  <2>4. HeldBuffer' = SubSeq(Append(g, e), m + 1, Len(Append(g, e)))
    BY <1>7, <1>9, <2>3 DEF HeldBuffer, Buffered
  <2>5. HeldBuffer' = Append(HeldBuffer, e) /\ Len(HeldBuffer) = Len(g) - m
    <3> HIDE DEF g, m, e
    <3>1. /\ SubSeq(Append(g, e), m + 1, Len(Append(g, e))) = Append(SubSeq(g, m + 1, Len(g)), e)
          /\ Len(SubSeq(g, m + 1, Len(g))) = Len(g) - m
      <4>1. g \in Seq(Event) /\ e \in Event /\ m \in 0 .. Len(g)
        BY <2>1
      <4>2. SubSeq(Append(g, e), m + 1, Len(Append(g, e))) = Append(SubSeq(g, m + 1, Len(g)), e)
        BY <4>1, BufferMoves
      <4>3. Len(SubSeq(g, m + 1, Len(g))) = Len(g) - m
        BY SMTT(40), <4>1, BufferMoves
      <4> QED BY <4>2, <4>3
    <3> QED BY <2>2, <2>4, <3>1
  <2>6. e = [from |-> q, n |-> Handled[q] + 1, table |-> d]
    <3>1. Handled[q] + 1 = Len(sent[q])
      BY SMTT(40), <1>4, <1>6
    <3> QED BY <1>5, <3>1 DEF Event
  <2>7. Held' = Held
    BY <1>7 DEF Held
  <2>8. Len(HeldBuffer) < BufCap
    BY <1>3, <2>5
  <2>9. TheSubscription!Handle(q, d)
    <3> HIDE DEF e, d, g, m
    <3> QED BY <1>6, <1>9, <2>5, <2>6, <2>7, <2>8 DEF TheSubscription!Handle
  <2> QED BY <2>1, <2>9 DEF TheSubscription!Next
<1> QED BY <1>8, <1>9

\* A producer lets go of a subscription that has ended.
LEMMA LetGoStep ==
  ASSUME OneSubscriber, TypeOK, LockInv, OneInv, NEW q \in Producers, LetGo(q)
  PROVE  TheSubscription!Next
<1>t. /\ sent \in [Producers -> Seq(Event)] /\ todo \in [Producers -> Seq(Subscribers)]
  BY DEF TypeOK
<1>1. todo[q] # <<>>
  BY DEF LetGo, LockInv
<1>2. todo[q] = <<TheSubscriber>> /\ Head(todo[q]) = TheSubscriber /\ Tail(todo[q]) = <<>>
  BY <1>1, ListOfOne DEF OneInv
<1>3. /\ todo' = [todo EXCEPT ![q] = <<>>] /\ UNCHANGED <<sent, got, taken, subs, done, closed>>
      /\ done[TheSubscriber] \/ closed
  BY <1>2 DEF LetGo, subVars
<1>4. todo'[q] = <<>> /\ \A p \in Producers \ {q} : todo'[p] = todo[p] /\ sent'[p] = sent[p]
  BY <1>3, <1>t
<1>5. Handled'[q] = Handled[q] + 1
  <2>1. Len(sent[q]) \in Nat /\ Handled[q] = Len(sent[q]) - 1
    BY SMTT(40), <1>t, <1>1 DEF Handled
  <2>2. Handled'[q] = Len(sent[q])
    BY <1>t, <1>3, <1>4, HandledFacts
  <2> QED BY SMTT(40), <2>1, <2>2
<1>6. ~Held /\ ~Held'
  BY <1>3 DEF Held
<1> QED BY <1>4, <1>5, <1>6, HandledOne, PassedOver

\* The subscriber's steps: it begins, receives and ends.
LEMMA SubscriberStep ==
  ASSUME OneSubscriber, TypeOK, OneInv, TypeOK', OneInv',
         \/ Subscribed(TheSubscriber) \/ Unsubscribed(TheSubscriber)
         \/ Receive(TheSubscriber) \/ Stop(TheSubscriber)
  PROVE  TheSubscription!Next \/ UNCHANGED TheSubscription!vars
<1>t. /\ got \in [Subscribers -> Seq(Event)] /\ taken \in [Subscribers -> Nat]
      /\ TheSubscriber \in Subscribers /\ done \in [Subscribers -> BOOLEAN]
      /\ TheSubscriber \in Proc /\ pc \in [Proc -> Labels]
      /\ \A s \in Subscribers : Len(got[s]) - taken[s] \in 0 .. BufCap
  BY TheOne, Procs DEF TypeOK, Labels
<1>h. Handled' = Handled
  <2>1. UNCHANGED <<sent, todo>>
    BY DEF Subscribed, Unsubscribed, Receive, Stop, prodVars
  <2> QED BY <2>1 DEF Handled
<1>1. CASE Subscribed(TheSubscriber)
  <2>1. pc[TheSubscriber] = "subscribe" /\ UNCHANGED <<closed, got, taken>>
    BY <1>1 DEF Subscribed
  <2>2. subs[AllTables] = <<>> /\ got[TheSubscriber] = <<>> /\ taken[TheSubscriber] = 0
    BY <2>1 DEF OneInv
  <2>3. ~Held /\ HeldBuffer = <<>>
    BY <2>2, HeldFacts DEF HeldBuffer
  <2>4. CASE ~Held'
    BY <1>h, <2>1, <2>3, <2>4, Unseen
  <2>5. CASE Held'
    <3>1. SubSeq(<<>>, 0 + 1, Len(<<>>)) = <<>>
      BY SMTT(40)
    <3>2. got'[TheSubscriber] = <<>> /\ taken'[TheSubscriber] = 0
      BY <2>1, <2>2
    <3>3. HeldBuffer' = <<>>
      BY <2>5, <3>1, <3>2 DEF HeldBuffer, Buffered
    <3>4. Held' = TRUE
      BY <2>5 DEF Held
    <3>5. TheSubscription!Begin
      BY <1>h, <2>3, <3>3, <3>4 DEF TheSubscription!Begin
    <3> QED BY <3>5 DEF TheSubscription!Next
  <2> QED BY <2>4, <2>5
<1>2. CASE Unsubscribed(TheSubscriber)
  <2>1. done[TheSubscriber] /\ done' = done
    BY <1>2 DEF Unsubscribed, OneInv, subVars
  <2>2. ~Held /\ ~Held'
    BY <2>1 DEF Held
  <2> QED BY <1>h, <2>2, Unseen
<1>3. CASE Receive(TheSubscriber)
  <2> DEFINE g == got[TheSubscriber]
             m == taken[TheSubscriber]
  <2>1. /\ taken' = [taken EXCEPT ![TheSubscriber] = m + 1] /\ m < Len(g)
        /\ UNCHANGED <<subs, closed, got, done>>
    BY <1>3 DEF Receive
  <2>2. Held' <=> Held
    BY SMTT(40), <2>1 DEF Held, Listed
  <2>3. CASE ~Held
    BY <1>h, <2>2, <2>3, Unseen
  <2>4. CASE Held
    <3>1. g \in Seq(Event) /\ m \in Nat /\ Len(g) \in Nat
      BY SMTT(40), <1>t
    <3>2. taken'[TheSubscriber] = m + 1 /\ got'[TheSubscriber] = g
      BY <2>1, <1>t
    <3>3. HeldBuffer = SubSeq(g, m + 1, Len(g)) /\ HeldBuffer' = SubSeq(g, (m + 1) + 1, Len(g))
      BY <2>2, <2>4, <3>2 DEF HeldBuffer, Buffered
    <3>4. PICK e : e \in Event
      <4>1. g[m + 1] \in Event
        <5> HIDE DEF g, m
        <5> QED BY SMTT(40), <2>1, <3>1
      <4> QED BY <4>1
    <3>5. m \in 0 .. Len(g)
      <4> HIDE DEF g, m
      <4> QED BY SMTT(40), <2>1, <3>1
    <3>6. HeldBuffer # <<>> /\ HeldBuffer' = Tail(HeldBuffer)
      <4> HIDE DEF g, m
      <4>1. /\ SubSeq(g, m + 1, Len(g)) # <<>>
            /\ Tail(SubSeq(g, m + 1, Len(g))) = SubSeq(g, (m + 1) + 1, Len(g))
        BY <2>1, <3>1, <3>4, <3>5, BufferMoves
      <4> QED BY <3>3, <4>1
    <3>7. Held' = Held
      BY <2>2 DEF Held
    <3>8. TheSubscription!Receive
      BY <1>h, <3>6, <3>7 DEF TheSubscription!Receive
    <3> QED BY <3>8 DEF TheSubscription!Next
  <2> QED BY <2>3, <2>4
<1>4. CASE Stop(TheSubscriber)
  <2>1. done'[TheSubscriber]
    BY <1>4, <1>t DEF Stop
  <2>2. ~Held'
    BY <2>1 DEF Held
  <2>3. CASE ~Held
    BY <1>h, <2>2, <2>3, Unseen
  <2>4. CASE Held
    <3>1. HeldBuffer' = <<>> /\ Held' = FALSE
      BY <2>2 DEF HeldBuffer, Held
    <3>2. TheSubscription!End
      BY <1>h, <2>4, <3>1 DEF TheSubscription!End
    <3> QED BY <3>2 DEF TheSubscription!Next
  <2> QED BY <2>3, <2>4
<1> QED BY <1>1, <1>2, <1>3, <1>4

\* Shutdown ends the subscription when it sets closed; what it does to the lists
\* later is not seen any more.
LEMMA ShutdownStep ==
  ASSUME OneSubscriber, TypeOK, OneInv, TypeOK', OneInv',
         NEW c \in Closers, Shutdown(c) \/ CloseChannels(c)
  PROVE  TheSubscription!Next \/ UNCHANGED TheSubscription!vars
<1>1. UNCHANGED <<sent, todo, got, taken>> /\ closed'
  BY SMTT(40) DEF Shutdown, CloseChannels, prodVars, subVars, OneInv
<1>2. Handled' = Handled
  BY <1>1 DEF Handled
<1>3. ~Held' /\ HeldBuffer' = <<>> /\ Held' = FALSE
  BY <1>1 DEF Held, HeldBuffer
<1>4. CASE ~Held
  BY <1>2, <1>3, <1>4, Unseen
<1>5. CASE Held
  <2>1. TheSubscription!End
    BY <1>2, <1>3, <1>5 DEF TheSubscription!End
  <2> QED BY <2>1 DEF TheSubscription!Next
<1> QED BY <1>4, <1>5

\* Every step of the bus is one of the subscription, or is not seen there.
LEMMA SubscriptionStep ==
  ASSUME OneSubscriber, BusInv, OneInv, [Next]_vars, BusInv', OneInv'
  PROVE  [TheSubscription!Next]_(TheSubscription!vars)
<1>t. TypeOK /\ LockInv /\ TypeOK'
  BY DEF BusInv
<1>1. ASSUME NEW p \in Producers, NEW t \in Tables \cup {NoTable}, Walk(p, t)
      PROVE  TheSubscription!Next \/ UNCHANGED TheSubscription!vars
  BY <1>1, <1>t, WalkStep
<1>2. ASSUME NEW p \in Producers, DeliverSend(p) \/ BlockedSend(p) \/ LetGo(p)
      PROVE  TheSubscription!Next
  BY <1>2, <1>t, PutStep, LetGoStep
<1>3. ASSUME UNCHANGED <<subs, closed, prodVars, got, taken, done>>
      PROVE  UNCHANGED TheSubscription!vars
  <2>1. Handled' = Handled /\ (Held' <=> Held)
    BY SMTT(40), <1>3 DEF Handled, Held, Listed, prodVars
  <2> QED BY <1>3, <1>t, <2>1, Unseen
<1>4. ASSUME NEW p \in Producers,
             HandleEvent(p) \/ HandleRLock(p) \/ DeliverFull(p) \/ HandleReturn(p)
      PROVE  UNCHANGED TheSubscription!vars
  <2>1. UNCHANGED <<subs, closed, prodVars, got, taken, done>>
    BY <1>4 DEF HandleEvent, HandleRLock, DeliverFull, HandleReturn, subVars
  <2> QED BY <1>3, <2>1
<1>5. ASSUME NEW x \in Subscribers \cup Closers \cup Readers,
             LockAnnounce(x) \/ CountRLock(x) \/ Counted(x)
      PROVE  UNCHANGED TheSubscription!vars
  <2>1. UNCHANGED <<subs, closed, prodVars, got, taken, done>>
    BY <1>5 DEF LockAnnounce, CountRLock, Counted, subVars
  <2> QED BY <1>3, <2>1
<1>6. ASSUME NEW s \in Subscribers, Subscribed(s) \/ Unsubscribed(s) \/ Receive(s) \/ Stop(s)
      PROVE  TheSubscription!Next \/ UNCHANGED TheSubscription!vars
  <2>1. s = TheSubscriber
    BY TheOne
  <2> QED BY <1>6, <1>t, <2>1, SubscriberStep
<1>7. ASSUME NEW c \in Closers, Shutdown(c) \/ CloseChannels(c)
      PROVE  TheSubscription!Next \/ UNCHANGED TheSubscription!vars
  BY <1>7, <1>t, ShutdownStep
<1>8. ASSUME UNCHANGED vars
      PROVE  UNCHANGED TheSubscription!vars
  <2>1. UNCHANGED <<subs, closed, prodVars, got, taken, done>>
    BY <1>8 DEF vars, prodVars
  <2> QED BY <1>3, <2>1
<1>9. CASE Next
  BY <1>9, BusSteps, <1>1, <1>2, <1>4, <1>5, <1>6, <1>7, <1>8
<1>10. CASE UNCHANGED vars
  BY <1>8, <1>10
<1> QED BY <1>9, <1>10

\* With one subscriber of all tables, as in main, the lock, the walk, the two
\* selects of deliver, unsub and Shutdown amount to the subscription the pipelines
\* are modelled with, for any producers and any capacity (service.go:99-167).
THEOREM BusIsSubscription ==
  ASSUME OneSubscriber
  PROVE  Spec => ImplementsSubscription
<1>1. Init => OneInv
  BY OneInit
<1>2. BusInv /\ OneInv /\ [Next]_vars => OneInv'
  <2> SUFFICES ASSUME BusInv, OneInv, [Next]_vars PROVE OneInv'
    OBVIOUS
  <2>1. CASE Next
    BY <2>1, OneStep DEF BusInv
  <2>2. CASE UNCHANGED vars
    BY <2>2 DEF vars, OneInv
  <2> QED BY <2>1, <2>2
<1>3. Spec => []OneInv
  BY <1>1, <1>2, BusInvariant, PTL DEF Spec
<1>4. Init => TheSubscription!Init
  <2> SUFFICES ASSUME Init PROVE TheSubscription!Init
    OBVIOUS
  <2>1. TypeOK /\ OneInv /\ subs[AllTables] = <<>>
    BY OneInit, BusInitInv DEF BusInv, Init, Topics
  <2>2. ~Held
    BY <2>1, HeldFacts
  <2>3. Held = FALSE /\ HeldBuffer = <<>>
    BY <2>2 DEF Held, HeldBuffer
  <2>4. Handled = [p \in Producers |-> 0]
    BY SMTT(40) DEF Init, Handled
  <2> QED BY <2>3, <2>4 DEF TheSubscription!Init
<1>5. BusInv /\ OneInv /\ BusInv' /\ OneInv' /\ [Next]_vars
        => [TheSubscription!Next]_(TheSubscription!vars)
  BY SubscriptionStep
<1> QED BY <1>3, <1>4, <1>5, BusInvariant, PTL DEF Spec, ImplementsSubscription, TheSubscription!Spec

-----------------------------------------------------------------------------
(***************************************************************************)
(* What a subscriber receives.                                             *)
(***************************************************************************)
Gone == {"unsubscribe", "gone"}

\* Whether s is in a list of subscribers.
In(s, q) == \E i \in 1 .. Len(q) : q[i] = s

\* The events of a producer are numbered, and what it has left to do is to send
\* the newest to subscribers it concerns, to each once.
TodoInv ==
  \A p \in Producers :
    /\ pc[p] \notin Sending => todo[p] = <<>>
    /\ \A m \in 1 .. Len(sent[p]) : sent[p][m].from = p /\ sent[p][m].n = m
    /\ \A i, j \in 1 .. Len(todo[p]) : i # j => todo[p][i] # todo[p][j]
    /\ \A s \in Subscribers : In(s, todo[p]) => Len(sent[p]) \in Concerning(s, p) /\ pc[s] # "subscribe"

\* A list holds those who subscribed to its topic and have not unsubscribed, each
\* once.
OnceInv ==
  \A t \in Topics : \A i \in 1 .. Len(subs[t]) :
    /\ Topic[subs[t][i]] = t /\ pc[subs[t][i]] \in {"on", "unsubscribe"}
    /\ \A j \in 1 .. Len(subs[t]) : i # j => subs[t][i] # subs[t][j]

\* Who is subscribed is listed until Shutdown.
OnInv ==
  \A s \in Subscribers :
    /\ pc[s] \in {"subscribe", "on", "unsubscribe", "gone"}
    /\ pc[s] = "subscribe" => got[s] = <<>>
    /\ done[s] => pc[s] \in Gone
    /\ \A p \in Producers : since[s][p] <= Len(sent[p])
    /\ pc[s] = "on" => closed \/ In(s, subs[Topic[s]])

\* What is in a channel is in order, and nothing is put into it twice.
PutInv ==
  \A s \in Subscribers, p \in Producers : \A j \in 1 .. Len(got[s]) : got[s][j].from = p =>
    /\ got[s][j].n \in Concerning(s, p) /\ got[s][j] = sent[p][got[s][j].n]
    /\ \A i \in 1 .. j - 1 : got[s][i].from = p => got[s][i].n < got[s][j].n
    /\ got[s][j].n = Len(sent[p]) => ~In(s, todo[p])

\* Nothing is missing from the channel of a subscriber that has not left, except
\* the newest event of a producer, still to be sent or dropped by the Shutdown.
CompleteInv ==
  \A s \in Subscribers, p \in Producers : pc[s] = "on" => \A m \in Concerning(s, p) :
    \/ \E i \in 1 .. Len(got[s]) : got[s][i] = sent[p][m]
    \/ m = Len(sent[p]) /\ pc[p] \notin {"rlock", "walk"} /\ (closed \/ In(s, todo[p]))

\* What s has received of p is in order and without a gap.
InOrder(s, p) ==
  \A j \in 1 .. taken[s] : got[s][j].from = p =>
    /\ got[s][j].n \in Concerning(s, p) /\ got[s][j] = sent[p][got[s][j].n]
    /\ \A i \in 1 .. j - 1 : got[s][i].from = p => got[s][i].n < got[s][j].n
    /\ \A m \in Concerning(s, p) :
         m < got[s][j].n => \E i \in 1 .. j - 1 : got[s][i] = sent[p][m]

\* Who has left receives no more.
GoneInv == \A s \in Subscribers, p \in Producers : pc[s] \in Gone => InOrder(s, p)

\* Shutdown sets closed before it asks for the lock.
CloseInv == \A c \in Closers : pc[c] = "close" => closed

FlowInv == TodoInv /\ OnceInv /\ OnInv /\ CloseInv /\ PutInv /\ CompleteInv /\ GoneInv

\* The types, one by one.
LEMMA BusFields ==
  ASSUME TypeOK
  PROVE  /\ subs \in [Topics -> Seq(Subscribers)] /\ todo \in [Producers -> Seq(Subscribers)]
         /\ sent \in [Producers -> Seq(Event)] /\ got \in [Subscribers -> Seq(Event)]
         /\ taken \in [Subscribers -> Nat] /\ since \in [Subscribers -> [Producers -> Nat]]
         /\ pc \in [Proc -> Labels] /\ Topic \in [Subscribers -> Topics]
         /\ done \in [Subscribers -> BOOLEAN]
         /\ \A s \in Subscribers : taken[s] \in Nat /\ Len(got[s]) \in Nat /\ taken[s] <= Len(got[s])
         /\ \A p \in Producers : Len(sent[p]) \in Nat /\ Len(todo[p]) \in Nat
         /\ \A s \in Subscribers, p \in Producers : since[s][p] \in Nat
<1>1. /\ subs \in [Topics -> Seq(Subscribers)] /\ todo \in [Producers -> Seq(Subscribers)]
      /\ sent \in [Producers -> Seq(Event)] /\ got \in [Subscribers -> Seq(Event)]
      /\ taken \in [Subscribers -> Nat] /\ since \in [Subscribers -> [Producers -> Nat]]
      /\ pc \in [Proc -> Labels] /\ Topic \in [Subscribers -> Topics]
      /\ done \in [Subscribers -> BOOLEAN]
  BY BusAssumption DEF TypeOK, Labels, Topics
<1>2. ASSUME NEW s \in Subscribers
      PROVE  taken[s] \in Nat /\ Len(got[s]) \in Nat /\ taken[s] <= Len(got[s])
  <2>1. got[s] \in Seq(Event) /\ taken[s] \in Nat /\ Len(got[s]) - taken[s] \in 0 .. BufCap
    BY <1>1 DEF TypeOK
  <2> QED BY SMTT(40), <2>1, BusAssumption
<1>3. ASSUME NEW p \in Producers
      PROVE  Len(sent[p]) \in Nat /\ Len(todo[p]) \in Nat
  <2>1. sent[p] \in Seq(Event) /\ todo[p] \in Seq(Subscribers)
    BY <1>1
  <2> QED BY SMTT(40), <2>1
<1>4. \A s \in Subscribers, p \in Producers : since[s][p] \in Nat
  BY <1>1
<1> QED BY <1>1, <1>2, <1>3, <1>4

\* What a subscriber has received before it leaves is in order: of the events
\* before one in its channel none is the newest.
LEMMA OnIsInOrder ==
  ASSUME TypeOK, TodoInv, OnInv, PutInv, CompleteInv,
         NEW s \in Subscribers, NEW p \in Producers, pc[s] \notin Gone
  PROVE  InOrder(s, p)
<1>1. /\ taken[s] \in Nat /\ Len(got[s]) \in Nat /\ taken[s] <= Len(got[s])
      /\ Len(sent[p]) \in Nat /\ since[s][p] \in Nat
  BY BusFields
<1>2. CASE pc[s] = "subscribe"
  <2>1. Len(got[s]) = 0
    BY SMTT(40), <1>2 DEF OnInv
  <2>2. 1 .. taken[s] = {}
    BY SMTT(40), <1>1, <2>1
  <2> QED BY <2>2 DEF InOrder
<1>3. CASE pc[s] = "on"
  <2> SUFFICES ASSUME NEW j \in 1 .. taken[s], got[s][j].from = p
               PROVE  /\ got[s][j].n \in Concerning(s, p) /\ got[s][j] = sent[p][got[s][j].n]
                      /\ \A i \in 1 .. j - 1 : got[s][i].from = p => got[s][i].n < got[s][j].n
                      /\ \A m \in Concerning(s, p) :
                           m < got[s][j].n => \E i \in 1 .. j - 1 : got[s][i] = sent[p][m]
    BY DEF InOrder
  <2>1. j \in 1 .. Len(got[s])
    BY SMTT(40), <1>1
  <2>2. /\ got[s][j].n \in Concerning(s, p) /\ got[s][j] = sent[p][got[s][j].n]
        /\ \A i \in 1 .. j - 1 : got[s][i].from = p => got[s][i].n < got[s][j].n
    BY <2>1 DEF PutInv
  <2>3. ASSUME NEW m \in Concerning(s, p), m < got[s][j].n
        PROVE  \E i \in 1 .. j - 1 : got[s][i] = sent[p][m]
    <3>1. m \in 1 .. Len(sent[p]) /\ got[s][j].n \in 1 .. Len(sent[p]) /\ m # Len(sent[p])
      BY SMTT(40), <1>1, <2>2, <2>3 DEF Concerning
    <3>2. PICK i \in 1 .. Len(got[s]) : got[s][i] = sent[p][m]
      BY SMTT(40), <1>3, <3>1 DEF CompleteInv
    <3>3. got[s][i].from = p /\ got[s][i].n = m
      BY SMTT(40), <3>1, <3>2 DEF TodoInv
    <3>4. j <= i => i = j \/ j \in 1 .. i - 1
      BY SMTT(40), <1>1, <2>1
    <3>5. j \in 1 .. i - 1 => got[s][j].n < got[s][i].n
      BY <3>3 DEF PutInv
    <3>6. ~(j <= i)
      BY SMTT(40), <2>3, <3>1, <3>3, <3>4, <3>5
    <3> QED BY SMTT(40), <2>1, <3>2, <3>6
  <2> QED BY <2>2, <2>3
<1> QED BY <1>2, <1>3 DEF OnInv, Gone

\* Which of the events already sent concern a subscriber does not change.
LEMMA ConcernsStand ==
  ASSUME NEW s, NEW p, Len(sent[p]) \in Nat, since[s][p] \in Nat,
         Len(sent'[p]) \in Nat, Len(sent'[p]) >= Len(sent[p]), since'[s][p] = since[s][p],
         \A m \in 1 .. Len(sent[p]) : sent'[p][m] = sent[p][m]
  PROVE  /\ Concerning(s, p) \subseteq 1 .. Len(sent[p])
         /\ \A m \in 1 .. Len(sent[p]) : m \in Concerning(s, p)' <=> m \in Concerning(s, p)
         /\ Concerning(s, p)' \subseteq 1 .. Len(sent'[p])
<1>1. \A m \in since[s][p] + 1 .. Len(sent[p]) : m \in 1 .. Len(sent[p])
  BY SMTT(40)
<1>2. \A m \in since[s][p] + 1 .. Len(sent'[p]) : m \in 1 .. Len(sent'[p])
  BY SMTT(40)
<1>3. \A m \in 1 .. Len(sent[p]) :
        m \in since[s][p] + 1 .. Len(sent'[p]) <=> m \in since[s][p] + 1 .. Len(sent[p])
  BY SMTT(40)
<1> QED BY <1>1, <1>2, <1>3 DEF Concerning

\* What was received is not changed by what is sent and received later.
LEMMA InOrderStands ==
  ASSUME NEW s \in Subscribers, NEW p \in Producers, InOrder(s, p),
         Len(sent[p]) \in Nat, Len(sent'[p]) \in Nat, Len(sent'[p]) >= Len(sent[p]), since[s][p] \in Nat,
         taken'[s] = taken[s], taken[s] \in Nat, since'[s][p] = since[s][p],
         \A j \in 1 .. taken[s] : got'[s][j] = got[s][j],
         \A m \in 1 .. Len(sent[p]) : sent'[p][m] = sent[p][m]
  PROVE  InOrder(s, p)'
<1> SUFFICES ASSUME NEW j \in 1 .. taken[s], got[s][j].from = p
             PROVE  /\ got[s][j].n \in Concerning(s, p)' /\ got[s][j] = sent'[p][got[s][j].n]
                    /\ \A i \in 1 .. j - 1 : got[s][i].from = p => got[s][i].n < got[s][j].n
                    /\ \A m \in Concerning(s, p)' :
                         m < got[s][j].n => \E i \in 1 .. j - 1 : got[s][i] = sent'[p][m]
  <2>1. \A j \in 1 .. taken[s] : \A i \in 1 .. j - 1 : i \in 1 .. taken[s]
    BY SMTT(40)
  <2> QED BY SMTT(40), <2>1 DEF InOrder
<1>1. /\ got[s][j].n \in Concerning(s, p) /\ got[s][j] = sent[p][got[s][j].n]
      /\ \A i \in 1 .. j - 1 : got[s][i].from = p => got[s][i].n < got[s][j].n
      /\ \A m \in Concerning(s, p) :
           m < got[s][j].n => \E i \in 1 .. j - 1 : got[s][i] = sent[p][m]
  BY DEF InOrder
<1>2. /\ Concerning(s, p) \subseteq 1 .. Len(sent[p]) /\ Concerning(s, p)' \subseteq 1 .. Len(sent'[p])
      /\ \A m \in 1 .. Len(sent[p]) : m \in Concerning(s, p)' <=> m \in Concerning(s, p)
  BY ConcernsStand
<1>3. PICK n \in 1 .. Len(sent[p]) : n = got[s][j].n
  BY <1>1, <1>2
<1>4. n \in Concerning(s, p)' /\ got[s][j] = sent'[p][n]
  BY <1>1, <1>2, <1>3
<1>5. ASSUME NEW m \in Concerning(s, p)', m < n
      PROVE  \E i \in 1 .. j - 1 : got[s][i] = sent'[p][m]
  <2>1. m \in 1 .. Len(sent[p])
    BY SMTT(40), <1>2, <1>5
  <2>2. m \in Concerning(s, p) /\ sent'[p][m] = sent[p][m]
    BY <1>2, <2>1
  <2> QED BY SMTT(40), <1>1, <1>3, <1>5, <2>2
<1>6. got[s][j].n \in Concerning(s, p)' /\ got[s][j] = sent'[p][got[s][j].n]
  BY <1>3, <1>4
<1>7. \A m \in Concerning(s, p)' :
        m < got[s][j].n => \E i \in 1 .. j - 1 : got[s][i] = sent'[p][m]
  BY <1>3, <1>5
<1>8. \A i \in 1 .. j - 1 : got[s][i].from = p => got[s][i].n < got[s][j].n
  BY <1>1
<1> QED BY <1>6, <1>7, <1>8

\* A step that sends nothing new and takes nobody from a list.
LEMMA Unsent ==
  ASSUME FlowInv, UNCHANGED <<sent, got, since>>,
         \A p \in Producers, s \in Subscribers : In(s, todo'[p]) => In(s, todo[p])
  PROVE  /\ \A s, p : Concerning(s, p)' = Concerning(s, p)
         /\ PutInv'
<1>1. \A s, p : Concerning(s, p)' = Concerning(s, p)
  BY DEF Concerning
<1>2. got' = got /\ sent' = sent
  OBVIOUS
<1>3. PutInv'
  <2> SUFFICES ASSUME NEW s \in Subscribers, NEW p \in Producers,
                      NEW j \in 1 .. Len(got'[s]), got'[s][j].from = p
               PROVE  /\ got'[s][j].n \in Concerning(s, p)' /\ got'[s][j] = sent'[p][got'[s][j].n]
                      /\ \A i \in 1 .. j - 1 : got'[s][i].from = p => got'[s][i].n < got'[s][j].n
                      /\ got'[s][j].n = Len(sent'[p]) => ~In(s, todo'[p])
    BY DEF PutInv
  <2>1. j \in 1 .. Len(got[s]) /\ got[s][j].from = p
    BY <1>2
  <2>2. /\ got[s][j].n \in Concerning(s, p) /\ got[s][j] = sent[p][got[s][j].n]
        /\ \A i \in 1 .. j - 1 : got[s][i].from = p => got[s][i].n < got[s][j].n
        /\ got[s][j].n = Len(sent[p]) => ~In(s, todo[p])
    BY <2>1 DEF FlowInv, PutInv
  <2> QED BY <1>1, <1>2, <2>2
<1> QED BY <1>1, <1>3

\* What a subscriber has received depends on these alone.
LEMMA InOrderSame ==
  ASSUME NEW s \in Subscribers, NEW p \in Producers, got' = got, sent' = sent, since' = since,
         taken'[s] = taken[s]
  PROVE  InOrder(s, p)' <=> InOrder(s, p)
<1>1. Concerning(s, p)' = Concerning(s, p)
  BY SMTT(40) DEF Concerning
<1> QED BY SMTT(40), <1>1 DEF InOrder

\* A step that sends and takes nothing keeps what those who left have received.
LEMMA Untaken ==
  ASSUME FlowInv, UNCHANGED <<sent, got, since, taken>>,
         \A s \in Subscribers : pc'[s] \in Gone => pc[s] \in Gone
  PROVE  GoneInv'
<1>1. sent' = sent /\ got' = got /\ since' = since /\ taken' = taken
  OBVIOUS
<1>2. \A s \in Subscribers, p \in Producers : InOrder(s, p)' <=> InOrder(s, p)
  BY <1>1, InOrderSame
<1> QED BY <1>2 DEF FlowInv, GoneInv

\* The steps of the lock and of the producers outside deliver, the counts, and
\* Shutdown up to its lock.
Quiet ==
  /\ UNCHANGED <<subs, todo, sent, got, taken, done, since>>
  /\ closed => closed'
  /\ \A s \in Subscribers : pc'[s] = pc[s]
  /\ \A c \in Closers : pc'[c] = "close" => pc[c] = "close" \/ closed'
  /\ \A p \in Producers :
       /\ pc'[p] \notin Sending => pc[p] \notin Sending \/ todo[p] = <<>>
       /\ pc'[p] \in {"rlock", "walk"} => pc[p] \in {"rlock", "walk"} \/ (pc[p] = "idle" /\ ~closed)

\* Such a step keeps the order in which events are received.
LEMMA QuietStep ==
  ASSUME TypeOK, FlowInv, Quiet
  PROVE  FlowInv'
<1> USE DEF FlowInv
<1>0. /\ subs' = subs /\ todo' = todo /\ sent' = sent /\ got' = got /\ taken' = taken /\ done' = done
      /\ since' = since /\ (closed => closed') /\ \A s \in Subscribers : pc'[s] = pc[s]
  BY DEF Quiet
<1>1. PutInv' /\ \A s, p : Concerning(s, p)' = Concerning(s, p)
  BY <1>0, Unsent
<1>2. GoneInv'
  BY <1>0, Untaken
<1>t. \A t \in Topics : subs[t] \in Seq(Subscribers)
  BY BusFields
<1>3. TodoInv'
  <2>1. \A p \in Producers : pc'[p] \notin Sending => todo[p] = <<>>
    BY DEF TodoInv, Quiet
  <2> QED BY SMTT(40), <1>0, <1>1, <2>1 DEF TodoInv
<1>4. OnceInv'
  <2>1. \A t \in Topics : \A i \in 1 .. Len(subs[t]) : subs[t][i] \in Subscribers
    BY SMTT(40), <1>t
  <2>2. \A t \in Topics : \A i \in 1 .. Len(subs[t]) : pc'[subs[t][i]] = pc[subs[t][i]]
    BY <1>0, <2>1
  <2> QED BY SMTT(40), <1>0, <2>2 DEF OnceInv
<1>5. OnInv'
  BY <1>0 DEF OnInv
<1>6. CloseInv'
  BY <1>0 DEF CloseInv, Quiet
<1>7. CompleteInv'
  <2>1. ASSUME NEW p \in Producers, NEW s \in Subscribers, pc'[p] \in {"rlock", "walk"}
        PROVE  pc[p] \in {"rlock", "walk"} \/ ~(closed \/ In(s, todo[p]))
    <3>1. CASE pc[p] = "idle" /\ ~closed
      <4>1. todo[p] = <<>>
        BY <3>1 DEF TodoInv, Sending
      <4>2. ~In(s, todo[p])
        BY SMTT(40), <4>1 DEF In
      <4> QED BY <3>1, <4>2
    <3> QED BY <2>1, <3>1 DEF Quiet
  <2> QED BY <1>0, <1>1, <2>1 DEF CompleteInv
<1> QED BY <1>1, <1>2, <1>3, <1>4, <1>5, <1>6, <1>7

\* The rest of a list of different subscribers.
LEMMA TailIn ==
  ASSUME NEW q \in Seq(Subscribers), q # <<>>
  PROVE  /\ \A x : In(x, q) <=> x = Head(q) \/ In(x, Tail(q))
         /\ (\A i, j \in 1 .. Len(q) : i # j => q[i] # q[j]) =>
              /\ ~In(Head(q), Tail(q))
              /\ \A i, j \in 1 .. Len(Tail(q)) : i # j => Tail(q)[i] # Tail(q)[j]
<1>1. /\ Len(q) \in Nat /\ Len(q) >= 1 /\ Len(Tail(q)) = Len(q) - 1 /\ Head(q) = q[1]
      /\ \A i \in 1 .. Len(q) - 1 : Tail(q)[i] = q[i + 1]
  BY SMTT(40)
<1>2. ASSUME NEW x PROVE In(x, q) <=> x = Head(q) \/ In(x, Tail(q))
  <2>1. ASSUME NEW i \in 1 .. Len(q), q[i] = x
        PROVE  x = Head(q) \/ In(x, Tail(q))
    <3>1. CASE i = 1
      BY <1>1, <2>1, <3>1
    <3>2. CASE i # 1
      <4>1. i - 1 \in 1 .. Len(Tail(q)) /\ Tail(q)[i - 1] = q[i - 1 + 1] /\ i - 1 + 1 = i
        BY SMTT(40), <1>1, <3>2
      <4> QED BY <2>1, <4>1 DEF In
    <3> QED BY <3>1, <3>2
  <2>2. ASSUME NEW i \in 1 .. Len(Tail(q)), Tail(q)[i] = x
        PROVE  In(x, q)
    <3>1. i + 1 \in 1 .. Len(q) /\ q[i + 1] = x
      BY SMTT(40), <1>1, <2>2
    <3> QED BY <3>1 DEF In
  <2>3. Head(q) = q[1] /\ 1 \in 1 .. Len(q)
    BY SMTT(40), <1>1
  <2> QED BY <2>1, <2>2, <2>3 DEF In
<1>3. ASSUME \A i, j \in 1 .. Len(q) : i # j => q[i] # q[j]
      PROVE  /\ ~In(Head(q), Tail(q))
             /\ \A i, j \in 1 .. Len(Tail(q)) : i # j => Tail(q)[i] # Tail(q)[j]
  <2>1. \A i \in 1 .. Len(Tail(q)) : Tail(q)[i] # Head(q)
    BY SMTT(40), <1>1, <1>3
  <2>2. \A i, j \in 1 .. Len(Tail(q)) : i # j => Tail(q)[i] # Tail(q)[j]
    BY SMTT(40), <1>1, <1>3
  <2> QED BY <2>1, <2>2 DEF In
<1> QED BY <1>2, <1>3

\* Whom a walk delivers to: those listed for all tables and for the table of the
\* event, each once.
LEMMA ReceiversFacts ==
  ASSUME TypeOK, OnceInv, NEW t \in Tables \cup {NoTable}
  PROVE  /\ Receivers(t) \in Seq(Subscribers)
         /\ \A i \in 1 .. Len(Receivers(t)) :
              /\ Receivers(t)[i] \in Subscribers /\ Topic[Receivers(t)[i]] \in {AllTables, t}
              /\ pc[Receivers(t)[i]] \in {"on", "unsubscribe"}
         /\ \A i, j \in 1 .. Len(Receivers(t)) : i # j => Receivers(t)[i] # Receivers(t)[j]
         /\ \A s \in Subscribers :
              Topic[s] \in {AllTables, t} /\ In(s, subs[Topic[s]]) => In(s, Receivers(t))
<1> DEFINE a == subs[AllTables]
           b == IF t = NoTable THEN <<>> ELSE subs[t]
           r == Receivers(t)
<1>1. /\ AllTables \in Topics /\ (t # NoTable => t \in Topics)
      /\ AllTables # t \/ b = <<>>
  BY BusAssumption DEF Topics
<1>2. a \in Seq(Subscribers) /\ b \in Seq(Subscribers)
  <2>1. \A u \in Topics : subs[u] \in Seq(Subscribers)
    BY BusFields
  <2>2. <<>> \in Seq(Subscribers)
    BY SMTT(40)
  <2>3. (t = NoTable => b = <<>>) /\ (t # NoTable => b = subs[t])
    OBVIOUS
  <2> HIDE DEF b
  <2> QED BY <1>1, <2>1, <2>2, <2>3
<1>3. /\ \A i \in 1 .. Len(a) : Topic[a[i]] = AllTables /\ pc[a[i]] \in {"on", "unsubscribe"} /\ a[i] \in Subscribers
      /\ \A i, j \in 1 .. Len(a) : i # j => a[i] # a[j]
  <2>1. \A i \in 1 .. Len(a) : a[i] \in Subscribers
    BY SMTT(40), <1>2
  <2>2. \A i \in 1 .. Len(subs[AllTables]) :
          /\ Topic[subs[AllTables][i]] = AllTables /\ pc[subs[AllTables][i]] \in {"on", "unsubscribe"}
          /\ \A j \in 1 .. Len(subs[AllTables]) : i # j => subs[AllTables][i] # subs[AllTables][j]
    BY <1>1 DEF OnceInv
  <2> QED BY <2>1, <2>2
<1>4. /\ \A i \in 1 .. Len(b) : Topic[b[i]] = t /\ pc[b[i]] \in {"on", "unsubscribe"} /\ b[i] \in Subscribers
      /\ \A i, j \in 1 .. Len(b) : i # j => b[i] # b[j]
  <2>1. CASE t = NoTable
    BY SMTT(40), <2>1
  <2>2. CASE t # NoTable
    <3>1. \A i \in 1 .. Len(b) : b[i] \in Subscribers
      BY SMTT(40), <1>2
    <3>2. b = subs[t] /\ t \in Topics
      BY <1>1, <2>2
    <3> QED BY SMTT(40), <3>1, <3>2 DEF OnceInv
  <2> QED BY <2>1, <2>2
<1>5. r = a \o b
  BY DEF Receivers
<1>6. \A s \in Subscribers : Topic[s] \in {AllTables, t} /\ In(s, subs[Topic[s]]) => In(s, a) \/ In(s, b)
  <2>1. ASSUME NEW s \in Subscribers, Topic[s] = t PROVE t # NoTable \/ t = AllTables
    BY <2>1, BusAssumption
  <2> QED BY <2>1
<1> HIDE DEF a, b, r
<1>7. /\ r \in Seq(Subscribers) /\ Len(r) = Len(a) + Len(b) /\ Len(a) \in Nat /\ Len(b) \in Nat
      /\ \A k \in 1 .. Len(a) + Len(b) : r[k] = IF k <= Len(a) THEN a[k] ELSE b[k - Len(a)]
  BY SMTT(40), <1>2, <1>5, JoinFact
<1>8. ASSUME NEW k \in 1 .. Len(r)
      PROVE  \/ k \in 1 .. Len(a) /\ r[k] = a[k]
             \/ k > Len(a) /\ k - Len(a) \in 1 .. Len(b) /\ r[k] = b[k - Len(a)]
  <2> DEFINE m == Len(a)
             n == Len(b)
  <2>1. m \in Nat /\ n \in Nat /\ k \in 1 .. m + n /\ r[k] = IF k <= m THEN a[k] ELSE b[k - m]
    BY <1>7
  <2> HIDE DEF m, n
  <2>2. k \in 1 .. m \/ (k > m /\ k - m \in 1 .. n)
    BY SMTT(40), <2>1
  <2>3. (k \in 1 .. m => r[k] = a[k]) /\ (k > m => r[k] = b[k - m])
    BY SMTT(40), <2>1
  <2> QED BY <2>2, <2>3 DEF m, n
<1>9. \A i, j \in 1 .. Len(r) : i # j => r[i] # r[j]
  <2>1. Len(b) = 0 \/ AllTables # t
    BY <1>1 DEF b
  <2>2. \A i \in 1 .. Len(a), j \in 1 .. Len(b) : a[i] # b[j]
    BY SMTT(40), <1>3, <1>4, <2>1
  <2> SUFFICES ASSUME NEW i \in 1 .. Len(r), NEW j \in 1 .. Len(r), i # j PROVE r[i] # r[j]
    OBVIOUS
  <2>3. i - Len(a) # j - Len(a)
    BY SMTT(40), <1>7
  <2>4. (i \in 1 .. Len(a) /\ r[i] = a[i]) \/ (i - Len(a) \in 1 .. Len(b) /\ r[i] = b[i - Len(a)])
    BY <1>8
  <2>5. (j \in 1 .. Len(a) /\ r[j] = a[j]) \/ (j - Len(a) \in 1 .. Len(b) /\ r[j] = b[j - Len(a)])
    BY <1>8
  <2> QED BY <1>3, <1>4, <2>2, <2>3, <2>4, <2>5
<1>10. ASSUME NEW s, In(s, a) \/ In(s, b) PROVE In(s, r)
  <2>1. CASE In(s, a)
    <3>1. PICK i \in 1 .. Len(a) : a[i] = s
      BY <2>1 DEF In
    <3>2. i \in 1 .. Len(r) /\ r[i] = s
      BY SMTT(40), <1>7, <3>1
    <3> QED BY <3>2 DEF In
  <2>2. CASE In(s, b)
    <3>1. PICK i \in 1 .. Len(b) : b[i] = s
      BY <2>2 DEF In
    <3>2. Len(a) + i \in 1 .. Len(r) /\ r[Len(a) + i] = s
      BY SMTT(40), <1>7, <3>1
    <3> QED BY <3>2 DEF In
  <2> QED BY <1>10, <2>1, <2>2
<1>11. \A i \in 1 .. Len(r) : /\ r[i] \in Subscribers /\ Topic[r[i]] \in {AllTables, t}
                            /\ pc[r[i]] \in {"on", "unsubscribe"}
  <2> SUFFICES ASSUME NEW i \in 1 .. Len(r)
               PROVE  /\ r[i] \in Subscribers /\ Topic[r[i]] \in {AllTables, t}
                      /\ pc[r[i]] \in {"on", "unsubscribe"}
    OBVIOUS
  <2>1. (i \in 1 .. Len(a) /\ r[i] = a[i]) \/ (i - Len(a) \in 1 .. Len(b) /\ r[i] = b[i - Len(a)])
    BY <1>8
  <2> QED BY <1>3, <1>4, <2>1
<1> QED BY <1>6, <1>7, <1>9, <1>10, <1>11 DEF r

\* A walk adds an event, to be sent to all it concerns.
LEMMA WalkFlow ==
  ASSUME TypeOK, FlowInv, NEW p \in Producers, NEW t \in Tables \cup {NoTable}, Walk(p, t)
  PROVE  FlowInv'
<1> USE DEF FlowInv
<1> DEFINE e == [from |-> p, n |-> Len(sent[p]) + 1, table |-> t]
           n == Len(sent[p])
<1>0. /\ pc[p] = "walk" /\ pc' = [pc EXCEPT ![p] = "deliver"]
      /\ sent' = [sent EXCEPT ![p] = Append(sent[p], e)]
      /\ todo' = [todo EXCEPT ![p] = Receivers(t)]
      /\ subs' = subs /\ closed' = closed /\ got' = got /\ taken' = taken /\ done' = done /\ since' = since
  BY DEF Walk, goto, subVars
<1>t. /\ sent \in [Producers -> Seq(Event)] /\ todo \in [Producers -> Seq(Subscribers)]
      /\ pc \in [Proc -> Labels] /\ p \in Proc /\ n \in Nat
      /\ \A q \in Producers : Len(sent[q]) \in Nat
      /\ \A s \in Subscribers : taken[s] \in Nat /\ \A q \in Producers : since[s][q] \in Nat
  BY BusFields, Procs
<1>r. /\ \A i \in 1 .. Len(Receivers(t)) :
           /\ Receivers(t)[i] \in Subscribers /\ Topic[Receivers(t)[i]] \in {AllTables, t}
           /\ pc[Receivers(t)[i]] \in {"on", "unsubscribe"}
      /\ \A i, j \in 1 .. Len(Receivers(t)) : i # j => Receivers(t)[i] # Receivers(t)[j]
      /\ \A s \in Subscribers :
           Topic[s] \in {AllTables, t} /\ In(s, subs[Topic[s]]) => In(s, Receivers(t))
  BY ReceiversFacts
<1>1. /\ Len(sent'[p]) = n + 1 /\ sent'[p][n + 1] = e /\ \A m \in 1 .. n : sent'[p][m] = sent[p][m]
      /\ \A q \in Producers : q # p => sent'[q] = sent[q] /\ todo'[q] = todo[q] /\ pc'[q] = pc[q]
      /\ todo'[p] = Receivers(t) /\ pc'[p] = "deliver"
      /\ \A s \in Subscribers : pc'[s] = pc[s]
      /\ \A c \in Closers : pc'[c] = pc[c]
  <2>1. sent'[p] = Append(sent[p], e) /\ sent[p] \in Seq(Event)
    BY <1>0, <1>t
  <2>2. /\ Len(Append(sent[p], e)) = n + 1 /\ Append(sent[p], e)[n + 1] = e
        /\ \A m \in 1 .. n : Append(sent[p], e)[m] = sent[p][m]
    BY SMTT(40), <2>1
  <2>3. /\ \A q \in Producers : q # p => sent'[q] = sent[q] /\ todo'[q] = todo[q] /\ pc'[q] = pc[q]
        /\ todo'[p] = Receivers(t) /\ pc'[p] = "deliver"
    BY <1>0, <1>t, Procs
  <2>4. p \notin Subscribers /\ p \notin Closers
    BY BusAssumption
  <2>5. \A x \in Proc : x # p => pc'[x] = pc[x]
    BY <1>0, <1>t
  <2> QED BY <2>1, <2>2, <2>3, <2>4, <2>5, Procs
<1> HIDE DEF n, e
<1>2. \A q \in Producers : /\ Len(sent'[q]) \in Nat /\ Len(sent'[q]) >= Len(sent[q])
                           /\ \A m \in 1 .. Len(sent[q]) : sent'[q][m] = sent[q][m]
  <2> SUFFICES ASSUME NEW q \in Producers
               PROVE  /\ Len(sent'[q]) \in Nat /\ Len(sent'[q]) >= Len(sent[q])
                      /\ \A m \in 1 .. Len(sent[q]) : sent'[q][m] = sent[q][m]
    OBVIOUS
  <2>1. CASE q = p
    <3>1. Len(sent'[p]) \in Nat /\ Len(sent'[p]) >= n
      BY SMTT(40), <1>1, <1>t
    <3> QED BY <1>1, <2>1, <3>1 DEF n
  <2>2. CASE q # p
    <3>1. sent'[q] = sent[q] /\ Len(sent[q]) \in Nat
      BY <1>1, <1>t, <2>2
    <3> QED BY SMTT(40), <3>1
  <2> QED BY <2>1, <2>2
<1>3. ASSUME NEW s \in Subscribers, NEW q \in Producers
      PROVE  /\ Concerning(s, q) \subseteq 1 .. Len(sent[q])
             /\ \A m \in 1 .. Len(sent[q]) : m \in Concerning(s, q)' <=> m \in Concerning(s, q)
             /\ Concerning(s, q)' \subseteq 1 .. Len(sent'[q])
  <2>1. Len(sent[q]) \in Nat /\ since[s][q] \in Nat /\ since'[s][q] = since[s][q]
    BY <1>0, <1>t
  <2> QED BY <1>2, <2>1, ConcernsStand
<1>4. TodoInv'
  <2> SUFFICES ASSUME NEW q \in Producers
               PROVE  /\ pc'[q] \notin Sending => todo'[q] = <<>>
                      /\ \A m \in 1 .. Len(sent'[q]) : sent'[q][m].from = q /\ sent'[q][m].n = m
                      /\ \A i, j \in 1 .. Len(todo'[q]) : i # j => todo'[q][i] # todo'[q][j]
                      /\ \A s \in Subscribers : In(s, todo'[q]) =>
                           Len(sent'[q]) \in Concerning(s, q)' /\ pc'[s] # "subscribe"
    BY DEF TodoInv
  <2>1. CASE q = p
    <3>1. pc'[p] \in Sending
      BY <1>1 DEF Sending
    <3>2. ASSUME NEW m \in 1 .. Len(sent'[p]) PROVE sent'[p][m].from = p /\ sent'[p][m].n = m
      <4>1. CASE m \in 1 .. n
        <5>1. sent[p][m].from = p /\ sent[p][m].n = m
          BY <4>1 DEF TodoInv, n
        <5> QED BY <1>1, <4>1, <5>1
      <4>2. CASE m = n + 1
        BY SMTT(40), <1>1, <4>2 DEF e, n
      <4> QED BY SMTT(40), <1>1, <1>t, <4>1, <4>2
    <3>3. ASSUME NEW s \in Subscribers, In(s, Receivers(t))
          PROVE  n + 1 \in Concerning(s, p)' /\ pc'[s] # "subscribe"
      <4>1. PICK i \in 1 .. Len(Receivers(t)) : Receivers(t)[i] = s
        BY <3>3 DEF In
      <4>2. Topic[s] \in {AllTables, t} /\ pc[s] \in {"on", "unsubscribe"}
        BY <1>r, <4>1
      <4>3. since[s][p] <= n /\ since[s][p] \in Nat /\ since' = since
        BY <1>0, <1>t DEF OnInv, n
      <4>4. n + 1 \in since[s][p] + 1 .. n + 1
        BY SMTT(40), <1>t, <4>3
      <4>5. sent'[p][n + 1].table = t
        BY SMTT(40), <1>1 DEF e
      <4>6. n + 1 \in since'[s][p] + 1 .. Len(sent'[p])
        BY <1>1, <4>3, <4>4
      <4>7. n + 1 \in Concerning(s, p)'
        BY <4>2, <4>5, <4>6 DEF Concerning
      <4> QED BY <1>1, <4>2, <4>7
    <3>4. \A i, j \in 1 .. Len(todo'[p]) : i # j => todo'[p][i] # todo'[p][j]
      BY SMTT(40), <1>1, <1>r
    <3>5. \A s \in Subscribers : In(s, todo'[p]) => Len(sent'[p]) \in Concerning(s, p)' /\ pc'[s] # "subscribe"
      BY <1>1, <3>3
    <3> QED BY <2>1, <3>1, <3>2, <3>4, <3>5
  <2>2. CASE q # p
    <3>1. sent'[q] = sent[q] /\ todo'[q] = todo[q] /\ pc'[q] = pc[q]
      BY <1>1, <2>2
    <3>2. ASSUME NEW s \in Subscribers, In(s, todo[q])
          PROVE  Len(sent[q]) \in Concerning(s, q)' /\ pc'[s] # "subscribe"
      <4>1. Len(sent[q]) \in Concerning(s, q) /\ pc[s] # "subscribe"
        BY <3>2 DEF TodoInv
      <4>2. Len(sent[q]) \in 1 .. Len(sent[q])
        BY <1>3, <4>1
      <4> QED BY <1>1, <1>3, <4>1, <4>2
    <3> QED BY SMTT(40), <3>1, <3>2 DEF TodoInv
  <2> QED BY <2>1, <2>2
<1>5. OnceInv' /\ CloseInv'
  <2>1. \A u \in Topics : \A i \in 1 .. Len(subs[u]) : pc'[subs[u][i]] = pc[subs[u][i]]
    <3>1. \A u \in Topics : \A i \in 1 .. Len(subs[u]) : subs[u][i] \in Subscribers
      BY SMTT(40), BusFields
    <3> QED BY <1>1, <3>1
  <2>2. OnceInv'
    BY SMTT(40), <1>0, <2>1 DEF OnceInv
  <2> QED BY <1>0, <1>1, <2>2 DEF CloseInv
<1>6. OnInv'
  <2>1. \A s \in Subscribers, q \in Producers : since[s][q] <= Len(sent'[q])
    <3> SUFFICES ASSUME NEW s \in Subscribers, NEW q \in Producers PROVE since[s][q] <= Len(sent'[q])
      OBVIOUS
    <3>1. since[s][q] <= Len(sent[q])
      BY DEF OnInv
    <3> QED BY SMTT(40), <1>2, <1>t, <3>1
  <2> QED BY <1>0, <1>1, <2>1 DEF OnInv
<1>7. PutInv'
  <2> SUFFICES ASSUME NEW s \in Subscribers, NEW q \in Producers,
                      NEW j \in 1 .. Len(got'[s]), got'[s][j].from = q
               PROVE  /\ got'[s][j].n \in Concerning(s, q)' /\ got'[s][j] = sent'[q][got'[s][j].n]
                      /\ \A i \in 1 .. j - 1 : got'[s][i].from = q => got'[s][i].n < got'[s][j].n
                      /\ got'[s][j].n = Len(sent'[q]) => ~In(s, todo'[q])
    BY DEF PutInv
  <2>0. got' = got /\ j \in 1 .. Len(got[s]) /\ got[s][j].from = q
    BY <1>0
  <2>1. /\ got[s][j].n \in Concerning(s, q) /\ got[s][j] = sent[q][got[s][j].n]
        /\ \A i \in 1 .. j - 1 : got[s][i].from = q => got[s][i].n < got[s][j].n
        /\ got[s][j].n = Len(sent[q]) => ~In(s, todo[q])
    BY <2>0 DEF PutInv
  <2>2. PICK m \in 1 .. Len(sent[q]) : m = got[s][j].n
    BY <1>3, <2>1
  <2>3. m \in Concerning(s, q)' /\ got[s][j] = sent'[q][m]
    BY <1>2, <1>3, <2>1, <2>2
  <2>4. m = Len(sent'[q]) => ~In(s, todo'[q])
    <3>1. CASE q = p
      BY SMTT(40), <1>1, <1>t, <2>2, <3>1 DEF n
    <3>2. CASE q # p
      BY <1>1, <2>1, <2>2, <3>2
    <3> QED BY <3>1, <3>2
  <2> QED BY <2>0, <2>1, <2>2, <2>3, <2>4
<1>8. CompleteInv'
  <2> SUFFICES ASSUME NEW s \in Subscribers, NEW q \in Producers, pc'[s] = "on",
                      NEW m \in Concerning(s, q)'
               PROVE  \/ \E i \in 1 .. Len(got'[s]) : got'[s][i] = sent'[q][m]
                      \/ /\ m = Len(sent'[q]) /\ pc'[q] \notin {"rlock", "walk"}
                         /\ closed' \/ In(s, todo'[q])
    BY DEF CompleteInv
  <2> SUFFICES \/ \E i \in 1 .. Len(got[s]) : got[s][i] = sent'[q][m]
               \/ /\ m = Len(sent'[q]) /\ pc'[q] \notin {"rlock", "walk"}
                  /\ closed \/ In(s, todo'[q])
    BY <1>0
  <2> pc[s] = "on"
    BY <1>1
  <2>1. ASSUME m \in 1 .. Len(sent[q])
        PROVE  \/ \E i \in 1 .. Len(got[s]) : got[s][i] = sent'[q][m]
               \/ m = Len(sent[q]) /\ pc[q] \notin {"rlock", "walk"} /\ (closed \/ In(s, todo[q]))
    <3>1. m \in Concerning(s, q) /\ sent'[q][m] = sent[q][m]
      BY <1>2, <1>3, <2>1
    <3> QED BY <3>1 DEF CompleteInv
  <2>2. CASE q # p
    <3>1. m \in 1 .. Len(sent[q])
      BY <1>1, <1>3, <2>2
    <3> QED BY <1>1, <2>1, <2>2, <3>1
  <2>3. CASE q = p /\ m \in 1 .. n
    BY <1>0, <2>1, <2>3 DEF n
  <2>4. CASE q = p /\ m = n + 1
    <3>1. m \in Concerning(s, p)' /\ sent'[p][m].table = t
      BY SMTT(40), <1>1, <2>4 DEF e
    <3>2. Topic[s] \in {AllTables, t}
      BY <3>1 DEF Concerning
    <3>3. closed \/ In(s, subs[Topic[s]])
      BY DEF OnInv
    <3> QED BY <1>1, <1>r, <2>4, <3>2, <3>3
  <2>5. q = p => m \in 1 .. n \/ m = n + 1
    <3>1. m \in 1 .. Len(sent'[q])
      BY <1>3
    <3> QED BY SMTT(40), <1>1, <1>t, <3>1
  <2> QED BY <2>2, <2>3, <2>4, <2>5
<1>9. GoneInv'
  <2> SUFFICES ASSUME NEW s \in Subscribers, NEW q \in Producers, pc[s] \in Gone
               PROVE  InOrder(s, q)'
    BY <1>1 DEF GoneInv
  <2>1. InOrder(s, q)
    BY DEF GoneInv
  <2>2. /\ Len(sent[q]) \in Nat /\ since[s][q] \in Nat /\ taken'[s] = taken[s] /\ taken[s] \in Nat
        /\ since'[s][q] = since[s][q] /\ \A j \in 1 .. taken[s] : got'[s][j] = got[s][j]
    BY <1>0, <1>t
  <2> QED BY <1>2, <2>1, <2>2, InOrderStands
<1> QED BY <1>4, <1>5, <1>6, <1>7, <1>8, <1>9

\* deliver is done with the first of the subscribers it was to send to.
Served(p) ==
  /\ pc[p] \in Sending /\ todo[p] # <<>> /\ todo' = [todo EXCEPT ![p] = Tail(todo[p])]
  /\ pc' = pc \/ pc' = [pc EXCEPT ![p] = "deliver"]
  /\ UNCHANGED <<sent, since, subs, closed, done, taken>>

\* What such a step leaves alone, and whom it still has to serve.
LEMMA ServedFacts ==
  ASSUME TypeOK, FlowInv, NEW p \in Producers, Served(p)
  PROVE  /\ \A s, q : Concerning(s, q)' = Concerning(s, q)
         /\ Head(todo[p]) \in Subscribers /\ In(Head(todo[p]), todo[p])
         /\ \A s : In(s, todo[p]) <=> s = Head(todo[p]) \/ In(s, todo'[p])
         /\ ~In(Head(todo[p]), todo'[p])
         /\ \A q \in Producers : q # p => todo'[q] = todo[q]
         /\ \A q \in Producers : pc'[q] \in {"rlock", "walk"} <=> pc[q] \in {"rlock", "walk"}
         /\ \A s \in Subscribers : pc'[s] = pc[s]
         /\ TodoInv' /\ OnceInv' /\ CloseInv'
<1> USE DEF FlowInv
<1>0. /\ pc[p] \in Sending /\ todo[p] # <<>> /\ todo' = [todo EXCEPT ![p] = Tail(todo[p])]
      /\ pc' = pc \/ pc' = [pc EXCEPT ![p] = "deliver"]
      /\ sent' = sent /\ since' = since /\ subs' = subs /\ closed' = closed /\ done' = done
  BY DEF Served
<1>t. /\ todo \in [Producers -> Seq(Subscribers)] /\ pc \in [Proc -> Labels] /\ p \in Proc
      /\ todo[p] \in Seq(Subscribers)
  BY BusFields, Procs
<1>1. \A s, q : Concerning(s, q)' = Concerning(s, q)
  BY <1>0 DEF Concerning
<1>2. /\ todo'[p] = Tail(todo[p]) /\ \A q \in Producers : q # p => todo'[q] = todo[q]
  BY <1>0, <1>t
<1>3. /\ Head(todo[p]) \in Subscribers
      /\ \A s : In(s, todo[p]) <=> s = Head(todo[p]) \/ In(s, Tail(todo[p]))
      /\ ~In(Head(todo[p]), Tail(todo[p]))
      /\ \A i, j \in 1 .. Len(Tail(todo[p])) : i # j => Tail(todo[p])[i] # Tail(todo[p])[j]
  <2>1. \A i, j \in 1 .. Len(todo[p]) : i # j => todo[p][i] # todo[p][j]
    BY DEF TodoInv
  <2>2. Head(todo[p]) \in Subscribers
    BY SMTT(40), <1>0, <1>t
  <2> QED BY <1>0, <1>t, <2>1, <2>2, TailIn
<1>4. \A x \in Proc : pc'[x] = pc[x] \/ x = p
  BY <1>0, <1>t
<1>5. p \notin Subscribers /\ p \notin Closers
  BY BusAssumption
<1>6. \A s \in Subscribers : pc'[s] = pc[s]
  BY <1>4, <1>5, Procs
<1>7. pc'[p] \in Sending
  BY <1>0, <1>t DEF Sending
<1>8. \A q \in Producers : pc'[q] \in {"rlock", "walk"} <=> pc[q] \in {"rlock", "walk"}
  BY <1>0, <1>4, <1>7, Procs DEF Sending
<1>9. CloseInv'
  BY <1>0, <1>4, <1>5, Procs DEF CloseInv
<1>10. OnceInv'
  <2>1. \A t \in Topics : \A i \in 1 .. Len(subs[t]) : subs[t][i] \in Subscribers
    BY SMTT(40), BusFields
  <2>2. \A t \in Topics : \A i \in 1 .. Len(subs[t]) : pc'[subs[t][i]] = pc[subs[t][i]]
    BY <1>6, <2>1
  <2> QED BY SMTT(40), <1>0, <2>2 DEF OnceInv
<1>11. TodoInv'
  <2> SUFFICES ASSUME NEW q \in Producers
               PROVE  /\ pc'[q] \notin Sending => todo'[q] = <<>>
                      /\ \A m \in 1 .. Len(sent'[q]) : sent'[q][m].from = q /\ sent'[q][m].n = m
                      /\ \A i, j \in 1 .. Len(todo'[q]) : i # j => todo'[q][i] # todo'[q][j]
                      /\ \A s \in Subscribers : In(s, todo'[q]) =>
                           Len(sent'[q]) \in Concerning(s, q)' /\ pc'[s] # "subscribe"
    BY DEF TodoInv
  <2>1. \A s : In(s, todo'[q]) => In(s, todo[q])
    BY <1>2, <1>3
  <2>2. /\ \A m \in 1 .. Len(sent[q]) : sent[q][m].from = q /\ sent[q][m].n = m
        /\ \A i, j \in 1 .. Len(todo[q]) : i # j => todo[q][i] # todo[q][j]
        /\ \A s \in Subscribers : In(s, todo[q]) => Len(sent[q]) \in Concerning(s, q) /\ pc[s] # "subscribe"
        /\ pc[q] \notin Sending => todo[q] = <<>>
    BY DEF TodoInv
  <2>3. \A i, j \in 1 .. Len(todo'[q]) : i # j => todo'[q][i] # todo'[q][j]
    <3>1. CASE q = p
      <4>1. todo'[q] = Tail(todo[p])
        BY <1>2, <3>1
      <4> QED BY <1>3, <4>1
    <3>2. CASE q # p
      BY <1>2, <2>2, <3>2
    <3> QED BY <3>1, <3>2
  <2>4. pc'[q] \notin Sending => todo'[q] = <<>>
    BY <1>2, <1>4, <1>7, <2>2, Procs
  <2>5. \A s \in Subscribers : In(s, todo'[q]) => Len(sent'[q]) \in Concerning(s, q)' /\ pc'[s] # "subscribe"
    BY <1>0, <1>1, <1>6, <2>1, <2>2
  <2>6. \A m \in 1 .. Len(sent'[q]) : sent'[q][m].from = q /\ sent'[q][m].n = m
    BY <1>0, <2>2
  <2> QED BY <2>3, <2>4, <2>5, <2>6
<1> QED BY <1>1, <1>2, <1>3, <1>6, <1>8, <1>9, <1>10, <1>11

\* deliver lets go of a subscriber that leaves, or of all after Shutdown.
LEMMA LetGoFlow ==
  ASSUME TypeOK, LockInv, FlowInv, NEW p \in Producers, LetGo(p)
  PROVE  FlowInv'
<1> USE DEF FlowInv
<1>0. /\ Served(p) /\ got' = got /\ taken' = taken /\ sent' = sent /\ since' = since /\ subs' = subs
      /\ closed' = closed /\ done' = done /\ (done[Head(todo[p])] \/ closed)
  <2>1. pc[p] \in Sending /\ todo[p] # <<>>
    BY DEF LetGo, LockInv, Sending
  <2> QED BY <2>1 DEF LetGo, Served, goto, subVars
<1>1. /\ \A s, q : Concerning(s, q)' = Concerning(s, q)
      /\ Head(todo[p]) \in Subscribers
      /\ \A s : In(s, todo[p]) <=> s = Head(todo[p]) \/ In(s, todo'[p])
      /\ \A q \in Producers : q # p => todo'[q] = todo[q]
      /\ \A q \in Producers : pc'[q] \in {"rlock", "walk"} <=> pc[q] \in {"rlock", "walk"}
      /\ \A s \in Subscribers : pc'[s] = pc[s]
      /\ TodoInv' /\ OnceInv' /\ CloseInv'
  BY <1>0, ServedFacts
<1>2. \A q \in Producers, s \in Subscribers : In(s, todo'[q]) => In(s, todo[q])
  BY <1>1
<1>3. PutInv'
  BY <1>0, <1>2, Unsent
<1>4. GoneInv'
  BY <1>0, <1>1, Untaken
<1>5. OnInv'
  BY <1>0, <1>1 DEF OnInv
<1>6. CompleteInv'
  <2>1. ASSUME NEW s \in Subscribers, NEW q \in Producers, pc[s] = "on", closed \/ In(s, todo[q])
        PROVE  closed \/ In(s, todo'[q])
    <3>1. ~done[s]
      BY <2>1 DEF OnInv, Gone
    <3> QED BY <1>0, <1>1, <2>1, <3>1
  <2> SUFFICES ASSUME NEW s \in Subscribers, NEW q \in Producers, pc'[s] = "on",
                      NEW m \in Concerning(s, q)'
               PROVE  \/ \E i \in 1 .. Len(got'[s]) : got'[s][i] = sent'[q][m]
                      \/ /\ m = Len(sent'[q]) /\ pc'[q] \notin {"rlock", "walk"}
                         /\ closed' \/ In(s, todo'[q])
    BY DEF CompleteInv
  <2>2. pc[s] = "on" /\ m \in Concerning(s, q)
    BY <1>1
  <2>3. \/ \E i \in 1 .. Len(got[s]) : got[s][i] = sent[q][m]
        \/ m = Len(sent[q]) /\ pc[q] \notin {"rlock", "walk"} /\ (closed \/ In(s, todo[q]))
    BY <2>2 DEF CompleteInv
  <2>4. CASE \E i \in 1 .. Len(got[s]) : got[s][i] = sent[q][m]
    BY <1>0, <2>4
  <2>5. CASE m = Len(sent[q]) /\ pc[q] \notin {"rlock", "walk"} /\ (closed \/ In(s, todo[q]))
    BY <1>0, <1>1, <2>1, <2>2, <2>5
  <2> QED BY <2>3, <2>4, <2>5
<1> QED BY <1>1, <1>3, <1>4, <1>5, <1>6

\* deliver sends: the newest event of the producer is the last in the channel.
LEMMA PutFlow ==
  ASSUME TypeOK, LockInv, FlowInv, NEW p \in Producers, DeliverSend(p) \/ BlockedSend(p)
  PROVE  FlowInv'
<1> USE DEF FlowInv
<1> DEFINE h == Head(todo[p])
           e == Current(p)
           n == Len(sent[p])
           k == Len(got[h])
<1>0. /\ Served(p) /\ got' = [got EXCEPT ![h] = Append(got[h], e)]
      /\ taken' = taken /\ sent' = sent /\ since' = since /\ subs' = subs
      /\ closed' = closed /\ done' = done
  <2>1. pc[p] \in Sending /\ todo[p] # <<>>
    BY DEF DeliverSend, BlockedSend, LockInv, Sending
  <2> QED BY <2>1 DEF DeliverSend, BlockedSend, Put, Served, goto
<1>1. /\ \A s, q : Concerning(s, q)' = Concerning(s, q)
      /\ h \in Subscribers /\ In(h, todo[p])
      /\ \A s : In(s, todo[p]) <=> s = h \/ In(s, todo'[p])
      /\ ~In(h, todo'[p])
      /\ \A q \in Producers : q # p => todo'[q] = todo[q]
      /\ \A q \in Producers : pc'[q] \in {"rlock", "walk"} <=> pc[q] \in {"rlock", "walk"}
      /\ \A s \in Subscribers : pc'[s] = pc[s]
      /\ TodoInv' /\ OnceInv' /\ CloseInv'
  BY <1>0, ServedFacts
<1>t. /\ got \in [Subscribers -> Seq(Event)] /\ got[h] \in Seq(Event) /\ k \in Nat
      /\ \A q \in Producers : Len(sent[q]) \in Nat
      /\ \A s \in Subscribers : /\ taken[s] \in Nat /\ Len(got[s]) \in Nat /\ taken[s] <= Len(got[s])
                               /\ \A q \in Producers : since[s][q] \in Nat
  BY <1>1, BusFields
<1>n. n \in Concerning(h, p) /\ pc[h] # "subscribe" /\ n \in 1 .. Len(sent[p]) /\ e = sent[p][n]
      /\ e.from = p /\ e.n = n
  <2>1. n \in Concerning(h, p) /\ pc[h] # "subscribe"
    BY <1>1 DEF TodoInv
  <2>2. since[h][p] \in Nat
    BY <1>1, <1>t
  <2>3. n \in 1 .. Len(sent[p])
    BY SMTT(40), <1>t, <2>1, <2>2 DEF Concerning
  <2>4. e = sent[p][n]
    BY DEF Current
  <2>5. sent[p][n].from = p /\ sent[p][n].n = n
    BY <2>3 DEF TodoInv
  <2> QED BY <2>1, <2>3, <2>4, <2>5
<1>2. /\ \A s \in Subscribers : s # h => got'[s] = got[s]
      /\ Len(got'[h]) = k + 1 /\ got'[h][k + 1] = e /\ \A j \in 1 .. k : got'[h][j] = got[h][j]
  <2>1. /\ \A s \in Subscribers : s # h => got'[s] = got[s]
        /\ got'[h] = Append(got[h], e)
    BY <1>0, <1>1, <1>t
  <2>2. /\ Len(Append(got[h], e)) = k + 1 /\ Append(got[h], e)[k + 1] = e
        /\ \A j \in 1 .. k : Append(got[h], e)[j] = got[h][j]
    BY SMTT(40), <1>t
  <2> QED BY <2>1, <2>2
<1> HIDE DEF h, e, n, k
<1>3. OnInv'
  <2>1. \A s \in Subscribers : pc[s] = "subscribe" => got'[s] = got[s]
    BY <1>2, <1>n
  <2> QED BY <1>0, <1>1, <2>1 DEF OnInv
<1>4. ASSUME NEW q \in Producers, NEW j \in 1 .. k, got[h][j].from = q
      PROVE  /\ got[h][j].n \in Concerning(h, q) /\ got[h][j] = sent[q][got[h][j].n]
             /\ \A i \in 1 .. j - 1 : got[h][i].from = q => got[h][i].n < got[h][j].n
             /\ got[h][j].n = Len(sent[q]) => ~In(h, todo[q])
  BY <1>1, <1>4 DEF PutInv, k
<1>5. ASSUME NEW j \in 1 .. k, got[h][j].from = p PROVE got[h][j].n < n
  <2>1. got[h][j].n \in Concerning(h, p) /\ got[h][j].n # n
    BY <1>1, <1>4, <1>5 DEF n
  <2>2. since[h][p] \in Nat /\ n \in Nat
    BY <1>1, <1>t DEF n
  <2>3. got[h][j].n \in since[h][p] + 1 .. n
    BY <2>1 DEF Concerning, n
  <2> QED BY SMTT(40), <2>1, <2>2, <2>3
<1>6. PutInv'
  <2> SUFFICES ASSUME NEW s \in Subscribers, NEW q \in Producers,
                      NEW j \in 1 .. Len(got'[s]), got'[s][j].from = q
               PROVE  /\ got'[s][j].n \in Concerning(s, q)' /\ got'[s][j] = sent'[q][got'[s][j].n]
                      /\ \A i \in 1 .. j - 1 : got'[s][i].from = q => got'[s][i].n < got'[s][j].n
                      /\ got'[s][j].n = Len(sent'[q]) => ~In(s, todo'[q])
    BY DEF PutInv
  <2>1. In(s, todo'[q]) => In(s, todo[q])
    BY <1>1
  <2>2. CASE s # h
    <3>1. got'[s] = got[s]
      BY <1>2, <2>2
    <3>2. /\ got[s][j].n \in Concerning(s, q) /\ got[s][j] = sent[q][got[s][j].n]
          /\ \A i \in 1 .. j - 1 : got[s][i].from = q => got[s][i].n < got[s][j].n
          /\ got[s][j].n = Len(sent[q]) => ~In(s, todo[q])
      BY <3>1 DEF PutInv
    <3> QED BY <1>0, <1>1, <2>1, <3>1, <3>2
  <2>3. CASE s = h /\ j \in 1 .. k
    <3>1. got'[h][j] = got[h][j] /\ \A i \in 1 .. j - 1 : got'[h][i] = got[h][i]
      <4>1. \A i \in 1 .. j - 1 : i \in 1 .. k
        BY SMTT(40), <1>t, <2>3
      <4> QED BY <1>2, <2>3, <4>1
    <3>2. /\ got[h][j].n \in Concerning(h, q) /\ got[h][j] = sent[q][got[h][j].n]
          /\ \A i \in 1 .. j - 1 : got[h][i].from = q => got[h][i].n < got[h][j].n
          /\ got[h][j].n = Len(sent[q]) => ~In(h, todo[q])
      BY <1>4, <2>3, <3>1
    <3> QED BY SMTT(40), <1>0, <1>1, <2>1, <2>3, <3>1, <3>2
  <2>4. CASE s = h /\ j = k + 1
    <3>1. q = p
      BY <1>2, <1>n, <2>4
    <3>2. \A i \in 1 .. k : got'[h][i].from = p => got'[h][i].n < n
      BY <1>2, <1>5
    <3>3. \A i \in 1 .. j - 1 : i \in 1 .. k
      BY SMTT(40), <1>t, <2>4
    <3>4. got'[s][j] = e
      BY <1>2, <2>4
    <3>5. \A i \in 1 .. j - 1 : got'[s][i].from = q => got'[s][i].n < e.n
      BY <1>n, <2>4, <3>1, <3>2, <3>3
    <3>6. e.n \in Concerning(s, q)' /\ e = sent'[q][e.n] /\ ~In(s, todo'[q])
      BY <1>0, <1>1, <1>n, <2>4, <3>1
    <3> QED BY <3>4, <3>5, <3>6
  <2>5. s = h => j \in 1 .. k \/ j = k + 1
    <3>1. s = h => j \in 1 .. k + 1
      BY <1>2
    <3> QED BY SMTT(40), <1>t, <3>1
  <2> QED BY <2>2, <2>3, <2>4, <2>5
<1>7. CompleteInv'
  <2> SUFFICES ASSUME NEW s \in Subscribers, NEW q \in Producers, pc'[s] = "on",
                      NEW m \in Concerning(s, q)'
               PROVE  \/ \E i \in 1 .. Len(got'[s]) : got'[s][i] = sent'[q][m]
                      \/ /\ m = Len(sent'[q]) /\ pc'[q] \notin {"rlock", "walk"}
                         /\ closed' \/ In(s, todo'[q])
    BY DEF CompleteInv
  <2>1. \/ \E i \in 1 .. Len(got[s]) : got[s][i] = sent[q][m]
        \/ m = Len(sent[q]) /\ pc[q] \notin {"rlock", "walk"} /\ (closed \/ In(s, todo[q]))
    BY <1>1 DEF CompleteInv
  <2>2. ASSUME NEW i \in 1 .. Len(got[s]), got[s][i] = sent[q][m]
        PROVE  \E j \in 1 .. Len(got'[s]) : got'[s][j] = sent'[q][m]
    <3>1. i \in 1 .. Len(got'[s]) /\ got'[s][i] = got[s][i]
      <4>1. CASE s # h
        BY <1>2, <4>1
      <4>2. CASE s = h
        <5>1. i \in 1 .. k /\ i \in 1 .. k + 1
          BY SMTT(40), <1>t, <4>2 DEF k
        <5> QED BY <1>2, <4>2, <5>1
      <4> QED BY <4>1, <4>2
    <3> QED BY <1>0, <2>2, <3>1
  <2>3. ASSUME m = Len(sent[q]), pc[q] \notin {"rlock", "walk"}, closed \/ In(s, todo[q])
        PROVE  \/ \E i \in 1 .. Len(got'[s]) : got'[s][i] = sent'[q][m]
               \/ /\ m = Len(sent'[q]) /\ pc'[q] \notin {"rlock", "walk"}
                  /\ closed' \/ In(s, todo'[q])
    <3>1. CASE q = p /\ s = h
      <4>1. k + 1 \in 1 .. k + 1
        BY SMTT(40), <1>t
      <4>2. m = n
        BY <2>3, <3>1 DEF n
      <4>3. k + 1 \in 1 .. Len(got'[s]) /\ got'[s][k + 1] = sent'[q][m]
        BY <1>0, <1>2, <1>n, <3>1, <4>1, <4>2
      <4> QED BY <4>3
    <3>2. CASE ~(q = p /\ s = h)
      <4>1. In(s, todo[q]) => In(s, todo'[q])
        BY <1>1, <3>2
      <4> QED BY <1>0, <1>1, <2>3, <4>1
    <3> QED BY <3>1, <3>2
  <2> QED BY <2>1, <2>2, <2>3
<1>8. GoneInv'
  <2> SUFFICES ASSUME NEW s \in Subscribers, NEW q \in Producers, pc[s] \in Gone
               PROVE  InOrder(s, q)'
    BY <1>1 DEF GoneInv
  <2>1. InOrder(s, q)
    BY DEF GoneInv
  <2>2. \A j \in 1 .. taken[s] : got'[s][j] = got[s][j]
    <3>1. CASE s # h
      BY <1>2, <3>1
    <3>2. CASE s = h
      <4>1. \A j \in 1 .. taken[s] : j \in 1 .. k
        BY SMTT(40), <1>t, <3>2 DEF k
      <4> QED BY <1>2, <3>2, <4>1
    <3> QED BY <3>1, <3>2
  <2>3. /\ Len(sent[q]) \in Nat /\ Len(sent'[q]) \in Nat /\ Len(sent'[q]) >= Len(sent[q])
        /\ since[s][q] \in Nat /\ taken'[s] = taken[s] /\ taken[s] \in Nat
        /\ since'[s][q] = since[s][q] /\ \A m \in 1 .. Len(sent[q]) : sent'[q][m] = sent[q][m]
    BY SMTT(40), <1>0, <1>t
  <2> QED BY <2>1, <2>2, <2>3, InOrderStands
<1> QED BY <1>1, <1>3, <1>6, <1>7, <1>8

\* Whoever subscribes has missed nothing: it is alone with the lists, and nothing
\* is left to be sent.
LEMMA SubscribedFlow ==
  ASSUME TypeOK, LockInv, FlowInv, NEW x \in Subscribers, Subscribed(x)
  PROVE  FlowInv'
<1> USE DEF FlowInv
<1>0. /\ pc[x] = "subscribe" /\ mu.readers = {} /\ pc' = [pc EXCEPT ![x] = "on"]
      /\ subs' = [subs EXCEPT ![Topic[x]] = Append(subs[Topic[x]], x)]
      /\ since' = [since EXCEPT ![x] = [p \in Producers |-> Len(sent[p])]]
      /\ todo' = todo /\ sent' = sent /\ closed' = closed /\ got' = got /\ taken' = taken /\ done' = done
  BY DEF Subscribed, Locked, goto, prodVars
<1>t. /\ subs \in [Topics -> Seq(Subscribers)] /\ pc \in [Proc -> Labels] /\ x \in Proc
      /\ Topic[x] \in Topics /\ subs[Topic[x]] \in Seq(Subscribers)
      /\ since \in [Subscribers -> [Producers -> Nat]]
      /\ \A p \in Producers : Len(sent[p]) \in Nat
      /\ \A t \in Topics : subs[t] \in Seq(Subscribers)
  BY BusFields, Procs
<1>1. \A p \in Producers : pc[p] \notin Sending /\ todo[p] = <<>>
  BY <1>0 DEF LockInv, TodoInv
<1>2. /\ pc'[x] = "on" /\ \A y \in Proc : y # x => pc'[y] = pc[y]
      /\ \A y \in Subscribers : y # x => since'[y] = since[y]
      /\ \A p \in Producers : since'[x][p] = Len(sent[p])
      /\ subs'[Topic[x]] = Append(subs[Topic[x]], x)
      /\ \A t \in Topics : t # Topic[x] => subs'[t] = subs[t]
  BY <1>0, <1>t
<1>3. /\ \A c \in Closers : pc'[c] = pc[c]
      /\ \A p \in Producers : pc'[p] = pc[p]
  <2>1. x \notin Closers /\ x \notin Producers
    BY BusAssumption
  <2> QED BY <1>2, <2>1, Procs
<1>4. \A s \in Subscribers, p \in Producers : s # x => Concerning(s, p)' = Concerning(s, p)
  BY <1>0, <1>2 DEF Concerning
<1>5. \A p \in Producers : Concerning(x, p)' = {}
  <2> SUFFICES ASSUME NEW p \in Producers, NEW m \in since'[x][p] + 1 .. Len(sent'[p]) PROVE FALSE
    BY DEF Concerning
  <2> QED BY SMTT(40), <1>0, <1>2, <1>t
<1>6. \A p \in Producers : \A s : ~In(s, todo'[p])
  BY SMTT(40), <1>0, <1>1 DEF In
<1>7. TodoInv'
  <2> SUFFICES ASSUME NEW q \in Producers
               PROVE  /\ pc'[q] \notin Sending => todo'[q] = <<>>
                      /\ \A m \in 1 .. Len(sent'[q]) : sent'[q][m].from = q /\ sent'[q][m].n = m
                      /\ \A i, j \in 1 .. Len(todo'[q]) : i # j => todo'[q][i] # todo'[q][j]
                      /\ \A s \in Subscribers : In(s, todo'[q]) =>
                           Len(sent'[q]) \in Concerning(s, q)' /\ pc'[s] # "subscribe"
    BY DEF TodoInv
  <2>1. todo'[q] = <<>>
    BY <1>0, <1>1
  <2>2. \A i \in 1 .. Len(todo'[q]) : FALSE
    BY SMTT(40), <2>1
  <2>3. \A m \in 1 .. Len(sent'[q]) : sent'[q][m].from = q /\ sent'[q][m].n = m
    BY <1>0 DEF TodoInv
  <2> QED BY <1>6, <2>1, <2>2, <2>3
<1>8. OnceInv'
  <2> SUFFICES ASSUME NEW t \in Topics, NEW i \in 1 .. Len(subs'[t])
               PROVE  /\ Topic[subs'[t][i]] = t /\ pc'[subs'[t][i]] \in {"on", "unsubscribe"}
                      /\ \A j \in 1 .. Len(subs'[t]) : i # j => subs'[t][i] # subs'[t][j]
    BY DEF OnceInv
  <2>1. ASSUME NEW u \in Topics, NEW j \in 1 .. Len(subs[u])
        PROVE  /\ Topic[subs[u][j]] = u /\ pc'[subs[u][j]] \in {"on", "unsubscribe"} /\ subs[u][j] # x
               /\ \A l \in 1 .. Len(subs[u]) : j # l => subs[u][j] # subs[u][l]
    <3>1. /\ Topic[subs[u][j]] = u /\ pc[subs[u][j]] \in {"on", "unsubscribe"}
          /\ \A l \in 1 .. Len(subs[u]) : j # l => subs[u][j] # subs[u][l]
      BY DEF OnceInv
    <3>2. subs[u][j] \in Proc
      BY SMTT(40), <1>t, Procs
    <3>3. subs[u][j] # x
      BY <1>0, <3>1
    <3> QED BY <1>2, <3>1, <3>2, <3>3
  <2>2. CASE t # Topic[x]
    <3>1. subs'[t] = subs[t]
      BY <1>2, <2>2
    <3> QED BY SMTT(40), <2>1, <3>1
  <2>3. CASE t = Topic[x]
    <3> DEFINE q == subs[t]
    <3>1. subs'[t] = Append(q, x) /\ q \in Seq(Subscribers)
      BY <1>2, <1>t, <2>3
    <3>2. /\ Len(q) \in Nat /\ Len(Append(q, x)) = Len(q) + 1 /\ Append(q, x)[Len(q) + 1] = x
          /\ \A j \in 1 .. Len(q) : Append(q, x)[j] = q[j]
      BY SMTT(40), <3>1
    <3>3. \A j \in 1 .. Len(q) : /\ Topic[q[j]] = t /\ pc'[q[j]] \in {"on", "unsubscribe"} /\ q[j] # x
                                 /\ \A l \in 1 .. Len(q) : j # l => q[j] # q[l]
      BY <2>1
    <3> HIDE DEF q
    <3>4. \A j \in 1 .. Len(q) + 1 : j \in 1 .. Len(q) \/ j = Len(q) + 1
      BY SMTT(40), <3>2
    <3>5. i \in 1 .. Len(q) + 1 /\ \A j \in 1 .. Len(subs'[t]) : j \in 1 .. Len(q) + 1
      BY <3>1, <3>2
    <3>6. ASSUME NEW j \in 1 .. Len(subs'[t])
          PROVE  (j \in 1 .. Len(q) /\ subs'[t][j] = q[j]) \/ (j = Len(q) + 1 /\ subs'[t][j] = x)
      <4>1. j \in 1 .. Len(q) \/ j = Len(q) + 1
        BY <3>4, <3>5
      <4>2. subs'[t][j] = Append(q, x)[j]
        BY <3>1
      <4> QED BY <3>2, <4>1, <4>2
    <3>7. CASE i \in 1 .. Len(q) /\ subs'[t][i] = q[i]
      <4>1. Topic[q[i]] = t /\ pc'[q[i]] \in {"on", "unsubscribe"}
        BY <3>3, <3>7
      <4>2. \A j \in 1 .. Len(subs'[t]) : i # j => subs'[t][i] # subs'[t][j]
        BY <3>3, <3>6, <3>7
      <4> QED BY <3>7, <4>1, <4>2
    <3>8. CASE i = Len(q) + 1 /\ subs'[t][i] = x
      <4>1. \A j \in 1 .. Len(subs'[t]) : i # j => subs'[t][i] # subs'[t][j]
        BY <3>3, <3>6, <3>8
      <4> QED BY <1>2, <2>3, <3>8, <4>1
    <3> QED BY <3>6, <3>7, <3>8
  <2> QED BY <2>2, <2>3
<1>9. CloseInv'
  BY <1>0, <1>3 DEF CloseInv
<1>10. OnInv'
  <2> SUFFICES ASSUME NEW s \in Subscribers
               PROVE  /\ pc'[s] \in {"subscribe", "on", "unsubscribe", "gone"}
                      /\ pc'[s] = "subscribe" => got'[s] = <<>>
                      /\ done'[s] => pc'[s] \in Gone
                      /\ \A p \in Producers : since'[s][p] <= Len(sent'[p])
                      /\ pc'[s] = "on" => closed' \/ In(s, subs'[Topic[s]])
    BY DEF OnInv
  <2>1. CASE s = x
    <3>1. ~done[x]
      BY <1>0 DEF OnInv, Gone
    <3>2. In(x, subs'[Topic[x]])
      <4> DEFINE q == subs[Topic[x]]
      <4>1. Len(q) + 1 \in 1 .. Len(Append(q, x)) /\ Append(q, x)[Len(q) + 1] = x
        BY SMTT(40), <1>t
      <4> QED BY <1>2, <4>1 DEF In
    <3>3. \A p \in Producers : since'[x][p] <= Len(sent'[p])
      BY SMTT(40), <1>0, <1>2, <1>t
    <3> QED BY <1>0, <1>2, <2>1, <3>1, <3>2, <3>3
  <2>2. CASE s # x
    <3>1. pc'[s] = pc[s] /\ since'[s] = since[s]
      BY <1>2, <2>2, Procs
    <3>2. ASSUME In(s, subs[Topic[s]]) PROVE In(s, subs'[Topic[s]])
      <4>1. CASE Topic[s] = Topic[x]
        <5> DEFINE q == subs[Topic[x]]
        <5>1. \A j \in 1 .. Len(q) : j \in 1 .. Len(Append(q, x)) /\ Append(q, x)[j] = q[j]
          BY SMTT(40), <1>t
        <5> QED BY <1>2, <3>2, <4>1, <5>1 DEF In
      <4>2. CASE Topic[s] # Topic[x]
        <5>1. Topic[s] \in Topics
          BY BusFields
        <5> QED BY <1>2, <3>2, <4>2, <5>1
      <4> QED BY <4>1, <4>2
    <3>3. /\ pc[s] \in {"subscribe", "on", "unsubscribe", "gone"}
          /\ pc[s] = "subscribe" => got[s] = <<>>
          /\ done[s] => pc[s] \in Gone
          /\ \A p \in Producers : since[s][p] <= Len(sent[p])
          /\ pc[s] = "on" => closed \/ In(s, subs[Topic[s]])
      BY DEF OnInv
    <3> QED BY <1>0, <3>1, <3>2, <3>3
  <2> QED BY <2>1, <2>2
<1>11. PutInv'
  <2> SUFFICES ASSUME NEW s \in Subscribers, NEW q \in Producers,
                      NEW j \in 1 .. Len(got'[s]), got'[s][j].from = q
               PROVE  /\ got'[s][j].n \in Concerning(s, q)' /\ got'[s][j] = sent'[q][got'[s][j].n]
                      /\ \A i \in 1 .. j - 1 : got'[s][i].from = q => got'[s][i].n < got'[s][j].n
                      /\ got'[s][j].n = Len(sent'[q]) => ~In(s, todo'[q])
    BY DEF PutInv
  <2>1. s # x
    <3>1. got[x] = <<>>
      BY <1>0 DEF OnInv
    <3> QED BY SMTT(40), <1>0, <3>1
  <2>2. /\ got[s][j].n \in Concerning(s, q) /\ got[s][j] = sent[q][got[s][j].n]
        /\ \A i \in 1 .. j - 1 : got[s][i].from = q => got[s][i].n < got[s][j].n
    BY <1>0 DEF PutInv
  <2> QED BY <1>0, <1>4, <1>6, <2>1, <2>2
<1>12. CompleteInv'
  <2> SUFFICES ASSUME NEW s \in Subscribers, NEW q \in Producers, pc'[s] = "on",
                      NEW m \in Concerning(s, q)'
               PROVE  \/ \E i \in 1 .. Len(got'[s]) : got'[s][i] = sent'[q][m]
                      \/ /\ m = Len(sent'[q]) /\ pc'[q] \notin {"rlock", "walk"}
                         /\ closed' \/ In(s, todo'[q])
    BY DEF CompleteInv
  <2>1. s # x
    BY <1>5
  <2>2. pc[s] = "on" /\ m \in Concerning(s, q)
    BY <1>2, <1>4, <2>1, Procs
  <2>3. \/ \E i \in 1 .. Len(got[s]) : got[s][i] = sent[q][m]
        \/ m = Len(sent[q]) /\ pc[q] \notin {"rlock", "walk"} /\ (closed \/ In(s, todo[q]))
    BY <2>2 DEF CompleteInv
  <2>4. pc'[q] = pc[q] /\ got' = got /\ sent' = sent /\ todo' = todo /\ closed' = closed
    BY <1>0, <1>3
  <2> QED BY <2>3, <2>4
<1>13. GoneInv'
  <2> SUFFICES ASSUME NEW s \in Subscribers, NEW q \in Producers, pc'[s] \in Gone
               PROVE  InOrder(s, q)'
    BY DEF GoneInv
  <2>1. s # x
    BY <1>2 DEF Gone
  <2>2. InOrder(s, q)
    BY <1>2, <2>1, Procs DEF GoneInv
  <2>3. InOrder(s, q)' <=> InOrder(s, q)
    <3>1. Concerning(s, q)' = Concerning(s, q) /\ got' = got /\ sent' = sent /\ taken' = taken
      BY <1>0, <1>4, <2>1
    <3> QED BY SMTT(40), <3>1 DEF InOrder
  <2> QED BY <2>2, <2>3
<1> QED BY <1>7, <1>8, <1>9, <1>10, <1>11, <1>12, <1>13

\* Where the others of a list are once a subscriber is removed.
LEMMA WithoutList ==
  ASSUME NEW q \in Seq(Subscribers), NEW s \in Subscribers, In(s, q)
  PROVE  \E i \in 1 .. Len(q) :
           /\ q[i] = s /\ Without(q, s) \in Seq(Subscribers) /\ Len(Without(q, s)) = Len(q) - 1
           /\ \A k \in 1 .. Len(q) - 1 : Without(q, s)[k] = IF k <= i - 1 THEN q[k] ELSE q[k + 1]
<1> DEFINE i == CHOOSE j \in 1 .. Len(q) : q[j] = s
           a == SubSeq(q, 1, i - 1)
           b == SubSeq(q, i + 1, Len(q))
<1>0. \E j \in 1 .. Len(q) : q[j] = s
  BY DEF In
<1>1. i \in 1 .. Len(q) /\ q[i] = s
  BY <1>0
<1>2. Without(q, s) = a \o b
  BY <1>0 DEF Without
<1> HIDE DEF i
<1>3. a \in Seq(Subscribers) /\ Len(a) = i - 1 /\ \A k \in 1 .. i - 1 : a[k] = q[k]
  BY SMTT(40), <1>1
<1>4. /\ b \in Seq(Subscribers) /\ Len(b) = Len(q) - i
      /\ \A k \in 1 .. Len(q) - i : b[k] = q[i + k]
  BY SMTT(40), <1>1
<1> HIDE DEF a, b
<1>5. a \o b \in Seq(Subscribers) /\ Len(a \o b) = Len(q) - 1
  <2>1. a \o b \in Seq(Subscribers) /\ Len(a \o b) = Len(a) + Len(b)
    BY <1>3, <1>4, JoinFact
  <2> QED BY SMTT(40), <2>1, <1>1, <1>3, <1>4
<1>6. \A k \in 1 .. Len(q) - 1 : (a \o b)[k] = IF k <= i - 1 THEN q[k] ELSE q[k + 1]
  BY SMTT(40), <1>1, <1>3, <1>4
<1> QED BY <1>1, <1>2, <1>5, <1>6

\* Who is removed from a list of different subscribers is not in it any more, and
\* the others are.
LEMMA WithoutKeeps ==
  ASSUME NEW q \in Seq(Subscribers), NEW s \in Subscribers,
         \A i, j \in 1 .. Len(q) : i # j => q[i] # q[j]
  PROVE  /\ \A k \in 1 .. Len(Without(q, s)) : Without(q, s)[k] # s /\ In(Without(q, s)[k], q)
         /\ \A k, l \in 1 .. Len(Without(q, s)) : k # l => Without(q, s)[k] # Without(q, s)[l]
         /\ \A y : y # s /\ In(y, q) => In(y, Without(q, s))
<1>1. CASE ~In(s, q)
  <2>1. Without(q, s) = q
    BY <1>1 DEF Without, In
  <2> QED BY <1>1, <2>1 DEF In
<1>2. CASE In(s, q)
  <2> DEFINE w == Without(q, s)
  <2>1. PICK i \in 1 .. Len(q) :
          /\ q[i] = s /\ Len(w) = Len(q) - 1
          /\ \A k \in 1 .. Len(q) - 1 : w[k] = IF k <= i - 1 THEN q[k] ELSE q[k + 1]
    BY <1>2, WithoutList
  <2> HIDE DEF w
  <2>n. Len(q) \in Nat /\ i \in Nat
    BY SMTT(40)
  <2>2. ASSUME NEW k \in 1 .. Len(w)
        PROVE  \E j \in 1 .. Len(q) : j # i /\ w[k] = q[j] /\ j = IF k <= i - 1 THEN k ELSE k + 1
    <3>1. CASE k <= i - 1
      <4>1. k \in 1 .. Len(q) /\ k # i /\ w[k] = q[k]
        BY SMTT(40), <2>1, <2>n, <3>1
      <4> QED BY <3>1, <4>1
    <3>2. CASE ~(k <= i - 1)
      <4>1. k + 1 \in 1 .. Len(q) /\ k + 1 # i /\ w[k] = q[k + 1]
        BY SMTT(40), <2>1, <2>n, <3>2
      <4> QED BY <3>2, <4>1
    <3> QED BY <3>1, <3>2
  <2>3. \A k \in 1 .. Len(w) : w[k] # s /\ In(w[k], q)
    BY <2>1, <2>2 DEF In
  <2>4. ASSUME NEW k \in 1 .. Len(w), NEW l \in 1 .. Len(w), k # l PROVE w[k] # w[l]
    <3>1. PICK c \in 1 .. Len(q) : w[k] = q[c] /\ c = IF k <= i - 1 THEN k ELSE k + 1
      BY <2>2
    <3>2. PICK d \in 1 .. Len(q) : w[l] = q[d] /\ d = IF l <= i - 1 THEN l ELSE l + 1
      BY <2>2
    <3>3. c # d
      BY SMTT(40), <2>n, <2>4, <3>1, <3>2
    <3> QED BY <3>1, <3>2, <3>3
  <2>5. ASSUME NEW y, y # s, In(y, q) PROVE In(y, w)
    <3>1. PICK j \in 1 .. Len(q) : q[j] = y
      BY <2>5 DEF In
    <3>2. j # i
      BY <2>1, <2>5, <3>1
    <3>3. CASE j < i
      <4>1. j \in 1 .. Len(q) - 1 /\ j <= i - 1
        BY SMTT(40), <2>n, <3>3
      <4>2. j \in 1 .. Len(w) /\ w[j] = y
        BY <2>1, <3>1, <4>1
      <4> QED BY <4>2 DEF In
    <3>4. CASE j > i
      <4>1. j - 1 \in 1 .. Len(q) - 1 /\ ~(j - 1 <= i - 1) /\ j - 1 + 1 = j
        BY SMTT(40), <2>n, <3>4
      <4>2. j - 1 \in 1 .. Len(w) /\ w[j - 1] = y
        BY <2>1, <3>1, <4>1
      <4> QED BY <4>2 DEF In
    <3> QED BY SMTT(40), <2>n, <3>2, <3>3, <3>4
  <2> QED BY <2>3, <2>4, <2>5 DEF w
<1> QED BY <1>1, <1>2

\* The lists change, or a subscriber stops: what was put into the channels and what
\* is left to be sent stay.
Listing ==
  /\ UNCHANGED <<todo, sent, got, since, closed>>
  /\ \A p \in Producers : pc'[p] = pc[p]
  /\ \A s \in Subscribers : (pc'[s] = "on" => pc[s] = "on") /\ (pc'[s] = "subscribe" => pc[s] = "subscribe")
  /\ \A c \in Closers : pc'[c] = "close" => pc[c] = "close"

\* Such a step keeps what is in the channels and what is left to be sent.
LEMMA ListingFacts ==
  ASSUME TypeOK, FlowInv, Listing
  PROVE  TodoInv' /\ CloseInv' /\ PutInv' /\ CompleteInv'
<1> USE DEF FlowInv
<1>0. /\ todo' = todo /\ sent' = sent /\ got' = got /\ since' = since /\ closed' = closed
      /\ \A p \in Producers : pc'[p] = pc[p]
      /\ \A s \in Subscribers : (pc'[s] = "on" => pc[s] = "on") /\ (pc'[s] = "subscribe" => pc[s] = "subscribe")
      /\ \A c \in Closers : pc'[c] = "close" => pc[c] = "close"
  BY DEF Listing
<1>1. PutInv' /\ \A s, p : Concerning(s, p)' = Concerning(s, p)
  BY <1>0, Unsent
<1>2. TodoInv'
  BY SMTT(40), <1>0, <1>1 DEF TodoInv
<1>3. CloseInv'
  BY <1>0 DEF CloseInv
<1>4. CompleteInv'
  BY <1>0, <1>1 DEF CompleteInv
<1> QED BY <1>1, <1>2, <1>3, <1>4

\* Who has unsubscribed is in no list, and the others stay where they are.
LEMMA UnsubscribedFlow ==
  ASSUME TypeOK, FlowInv, NEW x \in Subscribers, Unsubscribed(x)
  PROVE  FlowInv'
<1> USE DEF FlowInv
<1>0. /\ pc[x] = "unsubscribe" /\ pc' = [pc EXCEPT ![x] = "gone"]
      /\ subs' = [subs EXCEPT ![Topic[x]] = Without(subs[Topic[x]], x)]
      /\ todo' = todo /\ sent' = sent /\ closed' = closed /\ got' = got /\ taken' = taken /\ done' = done
      /\ since' = since
  BY DEF Unsubscribed, goto, prodVars, subVars
<1>t. /\ subs \in [Topics -> Seq(Subscribers)] /\ pc \in [Proc -> Labels] /\ x \in Proc
      /\ Topic[x] \in Topics /\ subs[Topic[x]] \in Seq(Subscribers)
      /\ \A t \in Topics : subs[t] \in Seq(Subscribers)
  BY BusFields, Procs
<1>1. /\ pc'[x] = "gone" /\ \A y \in Proc : y # x => pc'[y] = pc[y]
      /\ subs'[Topic[x]] = Without(subs[Topic[x]], x)
      /\ \A t \in Topics : t # Topic[x] => subs'[t] = subs[t]
  BY <1>0, <1>t
<1>2. Listing
  <2>1. x \notin Closers /\ x \notin Producers
    BY BusAssumption
  <2> QED BY <1>0, <1>1, <2>1, Procs DEF Listing
<1>3. TodoInv' /\ CloseInv' /\ PutInv' /\ CompleteInv'
  BY <1>2, ListingFacts
<1> DEFINE q == subs[Topic[x]]
           w == Without(q, x)
<1>4. /\ \A k \in 1 .. Len(w) : w[k] # x /\ In(w[k], q)
      /\ \A k, l \in 1 .. Len(w) : k # l => w[k] # w[l]
      /\ \A y : y # x /\ In(y, q) => In(y, w)
  <2>1. \A i, j \in 1 .. Len(q) : i # j => q[i] # q[j]
    BY <1>t DEF OnceInv
  <2>2. q \in Seq(Subscribers)
    BY <1>t
  <2> HIDE DEF q
  <2> QED BY <2>1, <2>2, WithoutKeeps
<1>5. OnceInv'
  <2> SUFFICES ASSUME NEW t \in Topics, NEW i \in 1 .. Len(subs'[t])
               PROVE  /\ Topic[subs'[t][i]] = t /\ pc'[subs'[t][i]] \in {"on", "unsubscribe"}
                      /\ \A j \in 1 .. Len(subs'[t]) : i # j => subs'[t][i] # subs'[t][j]
    BY DEF OnceInv
  <2>1. ASSUME NEW y, y # x, In(y, subs[t])
        PROVE  Topic[y] = t /\ pc'[y] \in {"on", "unsubscribe"}
    <3>1. PICK j \in 1 .. Len(subs[t]) : subs[t][j] = y
      BY <2>1 DEF In
    <3>2. Topic[y] = t /\ pc[y] \in {"on", "unsubscribe"}
      BY <3>1 DEF OnceInv
    <3>3. y \in Proc
      BY SMTT(40), <1>t, <3>1, Procs
    <3> QED BY <1>1, <2>1, <3>2, <3>3
  <2>2. CASE t = Topic[x]
    <3>1. subs'[t] = w /\ subs[t] = q
      BY <1>1, <2>2
    <3> HIDE DEF w, q
    <3>2. w[i] # x /\ In(w[i], subs[t])
      BY <1>4, <3>1
    <3> QED BY <1>4, <2>1, <3>1, <3>2
  <2>3. CASE t # Topic[x]
    <3>1. subs'[t] = subs[t]
      BY <1>1, <2>3
    <3>2. /\ Topic[subs[t][i]] = t
          /\ \A j \in 1 .. Len(subs[t]) : i # j => subs[t][i] # subs[t][j]
      BY <3>1 DEF OnceInv
    <3>3. subs[t][i] # x
      BY <2>3, <3>2
    <3>4. In(subs[t][i], subs[t])
      BY <3>1 DEF In
    <3>5. pc'[subs[t][i]] \in {"on", "unsubscribe"}
      BY <2>1, <3>3, <3>4
    <3> QED BY <3>1, <3>2, <3>5
  <2> QED BY <2>2, <2>3
<1>6. OnInv'
  <2> SUFFICES ASSUME NEW s \in Subscribers
               PROVE  /\ pc'[s] \in {"subscribe", "on", "unsubscribe", "gone"}
                      /\ pc'[s] = "subscribe" => got'[s] = <<>>
                      /\ done'[s] => pc'[s] \in Gone
                      /\ \A p \in Producers : since'[s][p] <= Len(sent'[p])
                      /\ pc'[s] = "on" => closed' \/ In(s, subs'[Topic[s]])
    BY DEF OnInv
  <2>0. /\ pc[s] \in {"subscribe", "on", "unsubscribe", "gone"}
        /\ pc[s] = "subscribe" => got[s] = <<>>
        /\ done[s] => pc[s] \in Gone
        /\ \A p \in Producers : since[s][p] <= Len(sent[p])
        /\ pc[s] = "on" => closed \/ In(s, subs[Topic[s]])
    BY DEF OnInv
  <2>1. CASE s = x
    <3>1. pc'[s] = "gone" /\ "gone" \in Gone
      BY <1>1, <2>1 DEF Gone
    <3> QED BY <1>0, <2>0, <3>1
  <2>2. CASE s # x
    <3>1. pc'[s] = pc[s]
      BY <1>1, <2>2, Procs
    <3>2. ASSUME In(s, subs[Topic[s]]) PROVE In(s, subs'[Topic[s]])
      <4>1. CASE Topic[s] = Topic[x]
        BY <1>1, <1>4, <2>2, <3>2, <4>1
      <4>2. CASE Topic[s] # Topic[x]
        <5>1. Topic[s] \in Topics
          BY BusFields
        <5> QED BY <1>1, <3>2, <4>2, <5>1
      <4> QED BY <4>1, <4>2
    <3> QED BY <1>0, <2>0, <3>1, <3>2
  <2> QED BY <2>1, <2>2
<1>7. GoneInv'
  <2>1. \A s \in Subscribers : pc'[s] \in Gone => pc[s] \in Gone
    <3>1. pc[x] \in Gone
      BY <1>0 DEF Gone
    <3> QED BY <1>1, <3>1, Procs
  <2> QED BY <1>0, <2>1, Untaken
<1> QED BY <1>3, <1>5, <1>6, <1>7

\* What a subscriber has received when it begins to unsubscribe is in order, and it
\* receives no more.
LEMMA StopFlow ==
  ASSUME TypeOK, FlowInv, NEW x \in Subscribers, Stop(x)
  PROVE  FlowInv'
<1> USE DEF FlowInv
<1>0. /\ pc[x] = "on" /\ pc' = [pc EXCEPT ![x] = "unsubscribe"] /\ done' = [done EXCEPT ![x] = TRUE]
      /\ todo' = todo /\ sent' = sent /\ closed' = closed /\ got' = got /\ taken' = taken /\ subs' = subs
      /\ since' = since
  BY DEF Stop, goto, prodVars
<1>t. /\ pc \in [Proc -> Labels] /\ x \in Proc /\ done \in [Subscribers -> BOOLEAN]
      /\ \A t \in Topics : subs[t] \in Seq(Subscribers)
  BY BusFields, Procs
<1>1. /\ pc'[x] = "unsubscribe" /\ \A y \in Proc : y # x => pc'[y] = pc[y]
      /\ \A y \in Subscribers : y # x => done'[y] = done[y]
  BY <1>0, <1>t
<1>2. Listing
  <2>1. x \notin Closers /\ x \notin Producers
    BY BusAssumption
  <2> QED BY <1>0, <1>1, <2>1, Procs DEF Listing
<1>3. TodoInv' /\ CloseInv' /\ PutInv' /\ CompleteInv'
  BY <1>2, ListingFacts
<1>4. OnceInv'
  <2>1. \A t \in Topics : \A i \in 1 .. Len(subs[t]) : subs[t][i] \in Proc
    BY SMTT(40), <1>t, Procs
  <2>2. \A t \in Topics : \A i \in 1 .. Len(subs[t]) : pc'[subs[t][i]] \in {"on", "unsubscribe"}
    BY <1>1, <2>1 DEF OnceInv
  <2> QED BY SMTT(40), <1>0, <2>2 DEF OnceInv
<1>5. OnInv'
  <2> SUFFICES ASSUME NEW s \in Subscribers
               PROVE  /\ pc'[s] \in {"subscribe", "on", "unsubscribe", "gone"}
                      /\ pc'[s] = "subscribe" => got'[s] = <<>>
                      /\ done'[s] => pc'[s] \in Gone
                      /\ \A p \in Producers : since'[s][p] <= Len(sent'[p])
                      /\ pc'[s] = "on" => closed' \/ In(s, subs'[Topic[s]])
    BY DEF OnInv
  <2>0. /\ pc[s] \in {"subscribe", "on", "unsubscribe", "gone"}
        /\ pc[s] = "subscribe" => got[s] = <<>>
        /\ done[s] => pc[s] \in Gone
        /\ \A p \in Producers : since[s][p] <= Len(sent[p])
        /\ pc[s] = "on" => closed \/ In(s, subs[Topic[s]])
    BY DEF OnInv
  <2>1. CASE s = x
    <3>1. pc'[s] = "unsubscribe" /\ "unsubscribe" \in Gone
      BY <1>1, <2>1 DEF Gone
    <3> QED BY <1>0, <2>0, <3>1
  <2>2. CASE s # x
    <3>1. pc'[s] = pc[s] /\ done'[s] = done[s]
      BY <1>1, <2>2, Procs
    <3> QED BY <1>0, <2>0, <3>1
  <2> QED BY <2>1, <2>2
<1>6. GoneInv'
  <2> SUFFICES ASSUME NEW s \in Subscribers, NEW q \in Producers, pc'[s] \in Gone
               PROVE  InOrder(s, q)'
    BY DEF GoneInv
  <2>1. InOrder(s, q)
    <3>1. CASE pc[s] \in Gone
      BY <3>1 DEF GoneInv
    <3>2. CASE pc[s] \notin Gone
      BY <3>2, OnIsInOrder
    <3> QED BY <3>1, <3>2
  <2>2. InOrder(s, q)' <=> InOrder(s, q)
    BY <1>0, InOrderSame
  <2> QED BY <2>1, <2>2
<1> QED BY <1>3, <1>4, <1>5, <1>6

\* A subscriber that has not left takes the next event from its channel.
LEMMA ReceiveFlow ==
  ASSUME TypeOK, FlowInv, NEW x \in Subscribers, Receive(x)
  PROVE  FlowInv'
<1> USE DEF FlowInv
<1>0. /\ pc[x] = "on" /\ taken' = [taken EXCEPT ![x] = taken[x] + 1]
      /\ todo' = todo /\ sent' = sent /\ closed' = closed /\ got' = got /\ subs' = subs /\ pc' = pc
      /\ since' = since /\ done' = done
  BY DEF Receive, prodVars
<1>1. Listing
  BY <1>0 DEF Listing
<1>2. TodoInv' /\ CloseInv' /\ PutInv' /\ CompleteInv'
  BY <1>1, ListingFacts
<1>3. OnceInv' /\ OnInv'
  BY SMTT(40), <1>0 DEF OnceInv, OnInv
<1>4. GoneInv'
  <2> SUFFICES ASSUME NEW s \in Subscribers, NEW q \in Producers, pc'[s] \in Gone
               PROVE  InOrder(s, q)'
    BY DEF GoneInv
  <2>1. s # x
    BY <1>0 DEF Gone
  <2>2. taken'[s] = taken[s]
    <3>1. taken \in [Subscribers -> Nat]
      BY BusFields
    <3> QED BY <1>0, <2>1, <3>1
  <2>3. InOrder(s, q)
    BY <1>0 DEF GoneInv
  <2>4. InOrder(s, q)' <=> InOrder(s, q)
    BY <1>0, <2>2, InOrderSame
  <2> QED BY <2>3, <2>4
<1> QED BY <1>2, <1>3, <1>4

\* Shutdown empties the lists, after it set closed.
LEMMA CloseFlow ==
  ASSUME TypeOK, FlowInv, NEW c \in Closers, CloseChannels(c)
  PROVE  FlowInv'
<1> USE DEF FlowInv
<1>0. /\ pc[c] = "close" /\ pc' = [pc EXCEPT ![c] = "done"] /\ subs' = [t \in Topics |-> <<>>]
      /\ todo' = todo /\ sent' = sent /\ closed' = closed /\ got' = got /\ taken' = taken
      /\ since' = since /\ done' = done
  BY DEF CloseChannels, goto, prodVars
<1>1. pc'[c] = "done" /\ \A y \in Proc : y # c => pc'[y] = pc[y]
  <2>1. pc \in [Proc -> Labels] /\ c \in Proc
    BY BusFields, Procs
  <2> QED BY <1>0, <2>1
<1>2. c \notin Subscribers /\ c \notin Producers
  BY BusAssumption
<1>3. \A s \in Subscribers : pc'[s] = pc[s]
  BY <1>1, <1>2, Procs
<1>4. Listing
  <2>1. \A y \in Closers : pc'[y] = "close" => pc[y] = "close"
    BY <1>0, <1>1, Procs
  <2> QED BY <1>0, <1>1, <1>2, <1>3, <2>1, Procs DEF Listing
<1>5. TodoInv' /\ CloseInv' /\ PutInv' /\ CompleteInv'
  BY <1>4, ListingFacts
<1>6. OnceInv'
  BY SMTT(40), <1>0 DEF OnceInv
<1>7. closed
  BY <1>0 DEF CloseInv
<1>8. OnInv'
  BY <1>0, <1>3, <1>7 DEF OnInv
<1>9. GoneInv'
  BY <1>0, <1>3, Untaken
<1> QED BY <1>5, <1>6, <1>8, <1>9

\* Nothing has been sent, nobody is listed.
LEMMA FlowInit == Init => FlowInv
<1> SUFFICES ASSUME Init PROVE FlowInv
  OBVIOUS
<1>1. /\ \A t \in Topics : subs[t] = <<>>
      /\ \A p \in Producers : todo[p] = <<>> /\ sent[p] = <<>>
      /\ \A s \in Subscribers : /\ got[s] = <<>> /\ taken[s] = 0 /\ done[s] = FALSE
                               /\ \A p \in Producers : since[s][p] = 0
  BY DEF Init
<1>2. /\ \A s \in Subscribers : pc[s] = "subscribe"
      /\ \A c \in Closers : pc[c] = "idle"
  BY BusAssumption DEF Init, Proc
<1>3. TodoInv
  <2>1. ASSUME NEW p \in Producers, NEW s PROVE ~In(s, todo[p])
    BY SMTT(40), <1>1 DEF In
  <2>2. ASSUME NEW p \in Producers
        PROVE  1 .. Len(todo[p]) = {} /\ 1 .. Len(sent[p]) = {}
    BY SMTT(40), <1>1
  <2>3. \A p \in Producers : todo[p] = <<>>
    BY <1>1
  <2> QED BY <2>1, <2>2, <2>3 DEF TodoInv
<1>4. OnceInv
  BY SMTT(40), <1>1 DEF OnceInv
<1>5. OnInv
  BY SMTT(40), <1>1, <1>2 DEF OnInv
<1>6. CloseInv
  BY <1>2 DEF CloseInv
<1>7. PutInv
  BY SMTT(40), <1>1 DEF PutInv
<1>8. CompleteInv
  BY <1>2 DEF CompleteInv
<1>9. GoneInv
  BY <1>2 DEF GoneInv, Gone
<1> QED BY <1>3, <1>4, <1>5, <1>6, <1>7, <1>8, <1>9 DEF FlowInv

\* The steps that neither change a list nor send nor receive.
LEMMA QuietSteps ==
  ASSUME TypeOK, Next
  PROVE  \/ Quiet
         \/ \E p \in Producers : \/ \E t \in Tables \cup {NoTable} : Walk(p, t)
                                \/ DeliverSend(p) \/ BlockedSend(p) \/ LetGo(p)
         \/ \E s \in Subscribers : Subscribed(s) \/ Unsubscribed(s) \/ Receive(s) \/ Stop(s)
         \/ \E c \in Closers : CloseChannels(c)
<1>t. pc \in [Proc -> Labels] /\ closed \in BOOLEAN
  BY BusFields DEF TypeOK
<1>d. /\ \A p \in Producers : p \in Proc /\ p \notin Subscribers /\ p \notin Closers
      /\ \A s \in Subscribers : s \in Proc /\ s \notin Closers /\ s \notin Producers
      /\ \A c \in Closers : c \in Proc /\ c \notin Subscribers /\ c \notin Producers
      /\ \A r \in Readers : r \in Proc /\ r \notin Subscribers /\ r \notin Closers /\ r \notin Producers
  BY BusAssumption, Procs DEF Proc
<1>1. ASSUME NEW x \in Proc, NEW l, pc' = [pc EXCEPT ![x] = l]
      PROVE  pc'[x] = l /\ \A y \in Proc : y # x => pc'[y] = pc[y]
  BY <1>1, <1>t
<1>2. ASSUME NEW p \in Producers, HandleEvent(p) \/ HandleRLock(p) \/ DeliverFull(p) \/ HandleReturn(p)
      PROVE  Quiet
  <2>1. /\ subs' = subs /\ todo' = todo /\ sent' = sent /\ got' = got /\ taken' = taken /\ done' = done
        /\ since' = since /\ closed' = closed
    BY <1>2 DEF HandleEvent, HandleRLock, DeliverFull, HandleReturn, prodVars, subVars
  <2>2. \E l \in {"rlock", "walk", "blocked", "idle"} :
          /\ pc' = [pc EXCEPT ![p] = l]
          /\ l \notin Sending => pc[p] \notin Sending \/ todo[p] = <<>>
          /\ l \in {"rlock", "walk"} => pc[p] \in {"rlock", "walk"} \/ (pc[p] = "idle" /\ ~closed)
    <3>1. CASE HandleEvent(p)
      BY <3>1 DEF HandleEvent, goto, Sending
    <3>2. CASE HandleRLock(p)
      BY <3>2 DEF HandleRLock, goto, Sending
    <3>3. CASE DeliverFull(p)
      BY <3>3 DEF DeliverFull, goto, Sending
    <3>4. CASE HandleReturn(p)
      BY <3>4 DEF HandleReturn, goto, Sending
    <3> QED BY <1>2, <3>1, <3>2, <3>3, <3>4
  <2>3. PICK l \in {"rlock", "walk", "blocked", "idle"} :
          /\ pc' = [pc EXCEPT ![p] = l]
          /\ l \notin Sending => pc[p] \notin Sending \/ todo[p] = <<>>
          /\ l \in {"rlock", "walk"} => pc[p] \in {"rlock", "walk"} \/ (pc[p] = "idle" /\ ~closed)
    BY <2>2
  <2>4. pc'[p] = l /\ \A y \in Proc : y # p => pc'[y] = pc[y]
    BY <1>1, <1>d, <2>3
  <2>5. /\ \A s \in Subscribers : pc'[s] = pc[s]
        /\ \A c \in Closers : pc'[c] = pc[c]
    BY <1>d, <2>4
  <2>6. ASSUME NEW q \in Producers
        PROVE  /\ pc'[q] \notin Sending => pc[q] \notin Sending \/ todo[q] = <<>>
               /\ pc'[q] \in {"rlock", "walk"} => pc[q] \in {"rlock", "walk"} \/ (pc[q] = "idle" /\ ~closed)
    BY <1>d, <2>3, <2>4
  <2> QED BY <2>1, <2>5, <2>6 DEF Quiet
<1>3. ASSUME NEW x \in Subscribers \cup Closers, LockAnnounce(x)
      PROVE  Quiet
  <2>1. /\ subs' = subs /\ todo' = todo /\ sent' = sent /\ got' = got /\ taken' = taken /\ done' = done
        /\ since' = since /\ closed' = closed /\ pc' = pc
    BY <1>3 DEF LockAnnounce, prodVars, subVars
  <2> QED BY <2>1 DEF Quiet
<1>4. ASSUME NEW c \in Closers, Shutdown(c)
      PROVE  Quiet
  <2>1. /\ subs' = subs /\ todo' = todo /\ sent' = sent /\ got' = got /\ taken' = taken /\ done' = done
        /\ since' = since /\ closed' /\ pc' = [pc EXCEPT ![c] = IF closed THEN "done" ELSE "close"]
    BY <1>4 DEF Shutdown, goto, prodVars, subVars
  <2>2. \A y \in Proc : y # c => pc'[y] = pc[y]
    BY <1>1, <1>d, <2>1
  <2>3. \A s \in Subscribers : pc'[s] = pc[s]
    BY <1>d, <2>2
  <2>4. \A p \in Producers : pc'[p] = pc[p]
    BY <1>d, <2>2
  <2>5. ASSUME NEW q \in Producers
        PROVE  /\ pc'[q] \notin Sending => pc[q] \notin Sending \/ todo[q] = <<>>
               /\ pc'[q] \in {"rlock", "walk"} => pc[q] \in {"rlock", "walk"} \/ (pc[q] = "idle" /\ ~closed)
    BY <2>4
  <2> QED BY <2>1, <2>3, <2>5 DEF Quiet
<1>5. ASSUME NEW r \in Readers, CountRLock(r) \/ Counted(r)
      PROVE  Quiet
  <2>1. /\ subs' = subs /\ todo' = todo /\ sent' = sent /\ got' = got /\ taken' = taken /\ done' = done
        /\ since' = since /\ closed' = closed /\ \E l : pc' = [pc EXCEPT ![r] = l]
    BY <1>5 DEF CountRLock, Counted, goto, prodVars, subVars
  <2>2. \A y \in Proc : y # r => pc'[y] = pc[y]
    BY <1>1, <1>d, <2>1
  <2>3. /\ \A s \in Subscribers : pc'[s] = pc[s]
        /\ \A c \in Closers : pc'[c] = pc[c]
        /\ \A p \in Producers : pc'[p] = pc[p]
    BY <1>d, <2>2
  <2> QED BY <2>1, <2>3 DEF Quiet
<1>6. ASSUME UNCHANGED vars PROVE Quiet
  <2>1. /\ subs' = subs /\ todo' = todo /\ sent' = sent /\ got' = got /\ taken' = taken /\ done' = done
        /\ since' = since /\ closed' = closed /\ pc' = pc
    BY <1>6 DEF vars, prodVars, subVars
  <2> QED BY <2>1 DEF Quiet
<1> QED BY <1>2, <1>3, <1>4, <1>5, <1>6, BusSteps

\* Every step keeps what a subscriber receives in order.
LEMMA FlowStep ==
  ASSUME BusInv, FlowInv, Next
  PROVE  FlowInv'
<1>1. TypeOK /\ LockInv
  BY DEF BusInv
<1>2. CASE Quiet
  BY <1>1, <1>2, QuietStep
<1>3. ASSUME NEW p \in Producers, NEW t \in Tables \cup {NoTable}, Walk(p, t)
      PROVE  FlowInv'
  BY <1>1, <1>3, WalkFlow
<1>4. ASSUME NEW p \in Producers, DeliverSend(p) \/ BlockedSend(p)
      PROVE  FlowInv'
  BY <1>1, <1>4, PutFlow
<1>5. ASSUME NEW p \in Producers, LetGo(p)
      PROVE  FlowInv'
  BY <1>1, <1>5, LetGoFlow
<1>6. ASSUME NEW s \in Subscribers, Subscribed(s)
      PROVE  FlowInv'
  BY <1>1, <1>6, SubscribedFlow
<1>7. ASSUME NEW s \in Subscribers, Unsubscribed(s) \/ Receive(s) \/ Stop(s)
      PROVE  FlowInv'
  BY <1>1, <1>7, UnsubscribedFlow, ReceiveFlow, StopFlow
<1>8. ASSUME NEW c \in Closers, CloseChannels(c)
      PROVE  FlowInv'
  BY <1>1, <1>8, CloseFlow
<1> QED BY <1>1, <1>2, <1>3, <1>4, <1>5, <1>6, <1>7, <1>8, QuietSteps

\* However many producers fill a channel that its subscriber empties as it likes,
\* leaves or loses to Shutdown, what it receives of each producer is the events
\* that concern it since it subscribed, without a gap, a repetition or an exchange
\* (service.go:68-167).
THEOREM ReceivedWithoutGaps == Spec => []ReceivedInOrder
<1>1. BusInv /\ FlowInv /\ [Next]_vars => FlowInv'
  <2> SUFFICES ASSUME BusInv, FlowInv, [Next]_vars PROVE FlowInv'
    OBVIOUS
  <2>1. CASE Next
    BY <2>1, FlowStep
  <2>2. CASE UNCHANGED vars
    <3>1. /\ subs' = subs /\ todo' = todo /\ sent' = sent /\ got' = got /\ taken' = taken /\ done' = done
          /\ since' = since /\ closed' = closed /\ pc' = pc
      BY <2>2 DEF vars, prodVars, subVars
    <3>2. Quiet
      BY <3>1 DEF Quiet
    <3>3. TypeOK
      BY DEF BusInv
    <3> QED BY <3>2, <3>3, QuietStep
  <2> QED BY <2>1, <2>2
<1>2. BusInv /\ FlowInv => ReceivedInOrder
  <2> SUFFICES ASSUME BusInv, FlowInv, NEW s \in Subscribers, NEW p \in Producers PROVE InOrder(s, p)
    BY DEF ReceivedInOrder, InOrder
  <2>1. CASE pc[s] \in Gone
    BY <2>1 DEF FlowInv, GoneInv
  <2>2. CASE pc[s] \notin Gone
    BY <2>2, OnIsInOrder DEF BusInv, FlowInv
  <2> QED BY <2>1, <2>2
<1> QED BY <1>1, <1>2, FlowInit, BusInvariant, PTL DEF Spec
=============================================================================
