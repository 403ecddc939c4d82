---------------------------- MODULE PgStepProofs ----------------------------
(***************************************************************************)
(* What the operators of the ack gate return, type correctness of          *)
(* PgPipeline, message ids and the account of every change, for every      *)
(* number of transactions and failures and every capacity of the bus; the  *)
(* steps of the publisher, of the database and of the process keep         *)
(* PgInvariant.                                                            *)
(***************************************************************************)
EXTENDS PgInvariant, PublisherProofs

\* The prover of the leaves that name none, and its time limit.
USE ZenonT(40)

\* What the lemmas assume and conclude.  Opaque: a leaf that expands TypeOK or IInv
\* would otherwise expand them in the statement of every lemma before it.
Typed == TypeOK
Sound == IInv

-----------------------------------------------------------------------------
(***************************************************************************)
(* The ack gate.                                                           *)
(***************************************************************************)
\* The larger of two positions is one of them and not below either.
LEMMA MaxOfTwo ==
  ASSUME SetLaws, NEW a \in Lsn, NEW b \in Lsn
  PROVE  /\ Max({a, b}) \in {a, b}
         /\ Max({a, b}) >= a /\ Max({a, b}) >= b
<1>1. {a, b} \in SUBSET (0 .. MaxLsn) /\ {a, b} # {}
  BY DEF Lsn
<1> QED BY <1>1, MaxIsGreatest, MaxLsnAssumption

\* The loop of settle stops after some prefix of acks entries.
LEMMA SettledPrefixExists ==
  ASSUME SetLaws, NEW commits \in Seq(PendingCommit), NEW acks \in Nat
  PROVE  LET n == SettledPrefix(commits, acks)
         IN  /\ n \in 0 .. Len(commits)
             /\ \A i \in 1 .. n : commits[i].lastSequence <= acks
             /\ n < Len(commits) => commits[n + 1].lastSequence > acks
<1> DEFINE Waits(n) == /\ \A i \in 1 .. n : commits[i].lastSequence <= acks
                       /\ n < Len(commits) => commits[n + 1].lastSequence > acks
           T == {i \in 1 .. Len(commits) : commits[i].lastSequence > acks}
<1>1. \A i \in 1 .. Len(commits) : commits[i].lastSequence \in Nat
  <2>1. \A i \in 1 .. Len(commits) : commits[i] \in PendingCommit
    BY SMTT(40)
  <2> QED BY <2>1 DEF PendingCommit
<1>2. \E n \in 0 .. Len(commits) : Waits(n)
  <2>1. CASE T = {}
    <3>1. \A i \in 1 .. Len(commits) : commits[i].lastSequence <= acks
      BY SMTT(40), <2>1, <1>1
    <3>2. Waits(Len(commits))
      BY SMTT(40), <3>1
    <3> QED BY SMTT(40), <3>2
  <2>2. CASE T # {}
    <3>1. PICK x \in T : \A y \in T : x <= y
      <4>1. T \in SUBSET Nat
        BY SMTT(40)
      <4> HIDE DEF T
      <4> QED BY <4>1, <2>2, LeastElement
    <3>2. \A i \in 1 .. x - 1 : commits[i].lastSequence <= acks
      BY SMTT(40), <3>1, <1>1
    <3>3. x - 1 \in 0 .. Len(commits) /\ Waits(x - 1)
      BY SMTT(40), <3>1, <3>2
    <3> QED BY <3>3
  <2> QED BY <2>1, <2>2
<1> HIDE DEF Waits
<1>3. SettledPrefix(commits, acks) = CHOOSE n \in 0 .. Len(commits) : Waits(n)
  BY DEF SettledPrefix, Waits
<1>4. /\ SettledPrefix(commits, acks) \in 0 .. Len(commits)
      /\ Waits(SettledPrefix(commits, acks))
  BY <1>2, <1>3
<1> QED BY <1>4 DEF Waits

\* settle drops a prefix of acks entries and raises confirmable to one of
\* their ends, or leaves it.
LEMMA SettleFacts ==
  ASSUME SetLaws, NEW g \in Gate, NEW acks \in Nat
  PROVE  LET s == settle(g, acks)
         IN  /\ s \in Gate
             /\ s.handed = g.handed /\ s.inTxn = g.inTxn
             /\ s.confirmable >= g.confirmable
             /\ \/ s.confirmable = g.confirmable
                \/ \E k \in 1 .. Len(g.commits) :
                     /\ g.commits[k].lastSequence <= acks
                     /\ s.confirmable = g.commits[k].end
             /\ \E n \in 0 .. Len(g.commits) :
                  /\ Len(s.commits) = Len(g.commits) - n
                  /\ \A k \in 1 .. Len(s.commits) : s.commits[k] = g.commits[k + n]
<1> DEFINE n == SettledPrefix(g.commits, acks)
           C == {g.confirmable} \cup {g.commits[i].end : i \in 1 .. n}
           s == settle(g, acks)
<1>1. g.commits \in Seq(PendingCommit) /\ g.confirmable \in Lsn
  BY DEF Gate
<1>2. n \in 0 .. Len(g.commits) /\ \A i \in 1 .. n : g.commits[i].lastSequence <= acks
  BY <1>1, SettledPrefixExists
<1> HIDE DEF n
<1>3. \A i \in 1 .. n : g.commits[i].end \in Lsn
  <2>1. \A i \in 1 .. n : g.commits[i] \in PendingCommit
    BY SMTT(40), <1>1, <1>2
  <2> QED BY <2>1 DEF PendingCommit
<1>4. Max(C) \in C /\ \A y \in C : Max(C) >= y
  <2>1. C \in SUBSET (0 .. MaxLsn) /\ C # {}
    BY <1>1, <1>3 DEF Lsn
  <2> HIDE DEF C
  <2> QED BY <2>1, MaxIsGreatest, MaxLsnAssumption
<1>5. s = [g EXCEPT !.commits = SubSeq(g.commits, n + 1, Len(g.commits)),
                    !.confirmable = Max(C)]
  BY DEF settle, n
<1>6. Max(C) \in Lsn /\ Max(C) >= g.confirmable
  BY <1>1, <1>3, <1>4
<1> HIDE DEF C
<1>7. /\ SubSeq(g.commits, n + 1, Len(g.commits)) \in Seq(PendingCommit)
      /\ Len(SubSeq(g.commits, n + 1, Len(g.commits))) = Len(g.commits) - n
      /\ \A k \in 1 .. Len(g.commits) - n :
           SubSeq(g.commits, n + 1, Len(g.commits))[k] = g.commits[k + n]
  BY SMTT(40), <1>1, <1>2
<1>8. /\ s \in Gate /\ s.handed = g.handed /\ s.inTxn = g.inTxn
      /\ s.confirmable = Max(C)
      /\ s.commits = SubSeq(g.commits, n + 1, Len(g.commits))
  BY <1>5, <1>6, <1>7 DEF Gate
<1> HIDE DEF s
<1>9. /\ Len(s.commits) = Len(g.commits) - n
      /\ \A k \in 1 .. Len(s.commits) : s.commits[k] = g.commits[k + n]
  BY <1>1, <1>2, <1>7, <1>8
<1>10. \/ s.confirmable = g.confirmable
       \/ \E k \in 1 .. Len(g.commits) :
            g.commits[k].lastSequence <= acks /\ s.confirmable = g.commits[k].end
  <2>1. CASE Max(C) = g.confirmable
    BY <2>1, <1>8
  <2>2. CASE Max(C) # g.confirmable
    <3>1. PICK k \in 1 .. n : Max(C) = g.commits[k].end
      BY <2>2, <1>4 DEF C
    <3>2. k \in 1 .. Len(g.commits)
      BY SMTT(40), <1>1, <1>2
    <3> QED BY <3>1, <3>2, <1>2, <1>8
  <2> QED BY <2>1, <2>2
<1> QED BY <1>2, <1>6, <1>8, <1>9, <1>10 DEF s

\* Committed adds at most one entry, for the highest number handed, and keeps
\* the rest of the gate but the open transaction.
LEMMA CommittedFacts ==
  ASSUME SetLaws, NEW g \in Gate, NEW end \in Lsn
  PROVE  LET c == Committed(g, end)
             last == Len(c.commits)
         IN  /\ c \in Gate
             /\ c.handed = g.handed /\ c.inTxn = FALSE /\ c.confirmable = g.confirmable
             /\ last \in {Len(g.commits), Len(g.commits) + 1} /\ last > 0
             /\ \A k \in 1 .. last - 1 : c.commits[k] = g.commits[k]
             /\ c.commits[last].lastSequence = g.handed
             /\ \/ c.commits[last].end = end
                \/ /\ last = Len(g.commits)
                   /\ c.commits[last].end = g.commits[last].end
                   /\ g.commits[last].lastSequence = g.handed
             /\ last = Len(g.commits) => g.commits[last].lastSequence = g.handed
             /\ last = Len(g.commits) + 1 /\ g.commits # <<>>
                  => g.commits[Len(g.commits)].lastSequence # g.handed
<1> DEFINE m == Len(g.commits)
           c == Committed(g, end)
           shared == [lastSequence |-> g.handed, end |-> Max({g.commits[m].end, end})]
           fresh == [lastSequence |-> g.handed, end |-> end]
<1>1. g.commits \in Seq(PendingCommit) /\ g.handed \in Nat /\ m \in Nat
  BY SMTT(40) DEF Gate
<1>2. CASE SharesLastEntry(g)
  <2>1. m \in 1 .. m /\ g.commits[m].lastSequence = g.handed
    BY SMTT(40), <1>1, <1>2 DEF SharesLastEntry
  <2>2. g.commits[m] \in PendingCommit
    BY SMTT(40), <1>1, <2>1
  <2>3. g.commits[m].end \in Lsn
    BY <2>2 DEF PendingCommit
  <2>4. /\ Max({g.commits[m].end, end}) \in Lsn
        /\ Max({g.commits[m].end, end}) \in {g.commits[m].end, end}
    BY <2>3, MaxOfTwo
  <2>5. c = [g EXCEPT !.inTxn = FALSE, !.commits = [g.commits EXCEPT ![m] = shared]]
    BY <1>2 DEF Committed
  <2>6. shared \in PendingCommit
    BY <1>1, <2>4 DEF PendingCommit
  <2> DEFINE new == [g.commits EXCEPT ![m] = shared]
  <2>7. /\ new \in Seq(PendingCommit) /\ Len(new) = m
        /\ \A k \in 1 .. m - 1 : new[k] = g.commits[k]
        /\ new[m] = shared
    <3> HIDE DEF shared
    <3> QED BY SMTT(40), <1>1, <2>1, <2>6
  <2>8. new[m].lastSequence = g.handed /\ new[m].end \in {g.commits[m].end, end}
    BY SMTT(40), <2>4, <2>7
  <2> HIDE DEF new, shared
  <2>9. /\ c \in Gate /\ c.commits = new
        /\ c.handed = g.handed /\ c.inTxn = FALSE /\ c.confirmable = g.confirmable
    BY <2>5, <2>7 DEF Gate, new
  <2> QED BY SMTT(40), <2>1, <2>7, <2>8, <2>9
<1>3. CASE ~SharesLastEntry(g)
  <2>1. c = [g EXCEPT !.inTxn = FALSE, !.commits = Append(g.commits, fresh)]
    BY <1>3 DEF Committed
  <2>2. fresh \in PendingCommit
    BY <1>1 DEF PendingCommit
  <2> DEFINE new == Append(g.commits, fresh)
  <2>3. /\ new \in Seq(PendingCommit) /\ Len(new) = m + 1
        /\ \A k \in 1 .. m : new[k] = g.commits[k]
        /\ new[m + 1] = fresh
    <3> HIDE DEF fresh
    <3> QED BY SMTT(40), <1>1, <2>2
  <2>4. new[m + 1].lastSequence = g.handed /\ new[m + 1].end = end
    BY SMTT(40), <2>3
  <2>5. g.commits # <<>> => g.commits[m].lastSequence # g.handed
    BY <1>3 DEF SharesLastEntry
  <2> HIDE DEF new, fresh
  <2>6. /\ c \in Gate /\ c.commits = new
        /\ c.handed = g.handed /\ c.inTxn = FALSE /\ c.confirmable = g.confirmable
    BY <2>1, <2>3 DEF Gate, new
  <2> QED BY SMTT(40), <1>1, <2>3, <2>4, <2>5, <2>6
<1> QED BY <1>2, <1>3

\* Idle settles, and confirms the offered position only between transactions
\* with no commit waiting and every handed event acks.
LEMMA IdleFacts ==
  ASSUME SetLaws, NEW g \in Gate, NEW acks \in Nat, NEW position \in Lsn
  PROVE  LET s == settle(g, acks)
             r == Idle(g, acks, position)
         IN  /\ r \in Gate
             /\ r.handed = g.handed /\ r.inTxn = g.inTxn /\ r.commits = s.commits
             /\ r.confirmable >= s.confirmable
             /\ \/ r.confirmable = s.confirmable
                \/ /\ r.confirmable = position
                   /\ ~g.inTxn /\ g.handed <= acks
<1> DEFINE s == settle(g, acks)
           r == Idle(g, acks, position)
<1>1. /\ s \in Gate /\ s.handed = g.handed /\ s.inTxn = g.inTxn
  BY SettleFacts
<1> HIDE DEF s
<1>2. s.confirmable \in Lsn /\ s.handed \in Nat
  BY <1>1 DEF Gate
<1>3. CASE s.inTxn \/ s.commits # <<>> \/ Pending(s, acks)
  <2>1. r = s
    BY <1>3 DEF Idle, s
  <2> HIDE DEF r
  <2> QED BY SMTT(40), <1>1, <1>2, <2>1 DEF s, r, Lsn
<1>4. CASE ~(s.inTxn \/ s.commits # <<>> \/ Pending(s, acks))
  <2>1. r = [s EXCEPT !.confirmable = Max({s.confirmable, position})]
    BY <1>4 DEF Idle, s
  <2>2. /\ Max({s.confirmable, position}) \in {s.confirmable, position}
        /\ Max({s.confirmable, position}) >= s.confirmable
    BY <1>2, MaxOfTwo
  <2>3. /\ r \in Gate /\ r.handed = g.handed /\ r.inTxn = g.inTxn /\ r.commits = s.commits
        /\ r.confirmable = Max({s.confirmable, position})
    BY <1>1, <1>2, <2>1, <2>2 DEF Gate
  <2>4. ~g.inTxn /\ g.handed <= acks
    BY SMTT(40), <1>1, <1>2, <1>4 DEF Pending
  <2> HIDE DEF r
  <2> QED BY <2>2, <2>3, <2>4 DEF s, r
<1> QED BY <1>3, <1>4

\* The operators that change one field.
LEMMA FieldFacts ==
  ASSUME NEW g \in Gate
  PROVE  /\ Begin(g) \in Gate /\ NewSession(g) \in Gate /\ Hand(g) \in Gate
         /\ Begin(g).inTxn = TRUE /\ NewSession(g).inTxn = FALSE
         /\ Hand(g).inTxn = g.inTxn /\ Hand(g).handed = g.handed + 1
         /\ Begin(g).handed = g.handed /\ NewSession(g).handed = g.handed
         /\ \A h \in {Begin(g), NewSession(g), Hand(g)} :
              h.commits = g.commits /\ h.confirmable = g.confirmable
         /\ Unhand(Hand(g)) = g
<1>1. /\ Begin(g) \in Gate /\ Begin(g).inTxn = TRUE /\ Begin(g).handed = g.handed
      /\ Begin(g).commits = g.commits /\ Begin(g).confirmable = g.confirmable
  BY DEF Gate, Begin
<1>2. /\ NewSession(g) \in Gate /\ NewSession(g).inTxn = FALSE
      /\ NewSession(g).handed = g.handed
      /\ NewSession(g).commits = g.commits /\ NewSession(g).confirmable = g.confirmable
  BY DEF Gate, NewSession
<1>3. /\ Hand(g) \in Gate /\ Hand(g).inTxn = g.inTxn /\ Hand(g).handed = g.handed + 1
      /\ Hand(g).commits = g.commits /\ Hand(g).confirmable = g.confirmable
  BY SMTT(40) DEF Gate, Hand
<1>4. Unhand(Hand(g)) = g
  <2> DEFINE h == Hand(g)
             u == Unhand(h)
  <2> HIDE DEF h
  <2>1. g.handed \in Nat /\ h.handed - 1 = g.handed
    BY SMTT(40), <1>3 DEF Gate, h
  <2>2. /\ u \in Gate /\ u.inTxn = h.inTxn /\ u.handed = h.handed - 1
        /\ u.commits = h.commits /\ u.confirmable = h.confirmable
    BY <1>3, <2>1 DEF Gate, Unhand, h
  <2> HIDE DEF u
  <2>3. u = g
    BY SMTT(40), <1>3, <2>1, <2>2 DEF Gate, h
  <2> QED BY <2>3 DEF u, h
<1> QED BY <1>1, <1>2, <1>3, <1>4

\* ObservePublished of a newer event raises the acks number to that event's.
LEMMA ObserveFacts ==
  ASSUME SetLaws, NEW a \in Nat, NEW s \in Nat, a < s
  PROVE  ObservePublished(a, s) = s
<1>1. {a, s} \in SUBSET (0 .. s) /\ {a, s} # {}
  BY SMTT(40)
<1>2. Max({a, s}) \in {a, s} /\ Max({a, s}) >= s
  BY <1>1, MaxIsGreatest
<1> QED BY SMTT(40), <1>2 DEF ObservePublished

-----------------------------------------------------------------------------
(***************************************************************************)
(* How far a gate has come, and the order of its entries.                  *)
(***************************************************************************)
\* Pending entries wait on different events, in order, that were handed.
Ordered(g) ==
  /\ \A j, k \in 1 .. Len(g.commits) :
       j < k => g.commits[j].lastSequence < g.commits[k].lastSequence
  /\ \A k \in 1 .. Len(g.commits) : g.commits[k].lastSequence <= g.handed

\* h is no further back than g, and in order if g is.
Onward(g, h) ==
  h \in Gate /\ h.confirmable >= g.confirmable /\ (Ordered(g) => Ordered(h))

\* What the properties of a gate need of its fields.
LEMMA GateFields ==
  ASSUME NEW g \in Gate
  PROVE  /\ g.confirmable \in 0 .. MaxLsn /\ g.handed \in Nat /\ MaxLsn \in Nat
         /\ g.commits \in Seq(PendingCommit)
         /\ \A k \in 1 .. Len(g.commits) : g.commits[k].lastSequence \in Nat
<1>1. g.confirmable \in 0 .. MaxLsn /\ g.handed \in Nat /\ g.commits \in Seq(PendingCommit)
  BY DEF Gate, Lsn
<1>2. \A k \in 1 .. Len(g.commits) : g.commits[k] \in PendingCommit
  BY SMTT(40), <1>1
<1>3. \A k \in 1 .. Len(g.commits) : g.commits[k].lastSequence \in Nat
  BY <1>2 DEF PendingCommit
<1> QED BY <1>1, <1>3, MaxLsnAssumption

\* Onward steps add up.
LEMMA OnwardTwice ==
  ASSUME NEW f \in Gate, NEW g, NEW h, Onward(f, g), Onward(g, h)
  PROVE  Onward(f, h)
<1>1. g \in Gate /\ h \in Gate
  BY DEF Onward
<1>2. /\ f.confirmable \in 0 .. MaxLsn /\ g.confirmable \in 0 .. MaxLsn
      /\ h.confirmable \in 0 .. MaxLsn /\ MaxLsn \in Nat
  BY <1>1, GateFields
<1> QED BY SMTT(40), <1>1, <1>2 DEF Onward

\* Dropping a prefix of the entries keeps them in order.
LEMMA OrderedSuffix ==
  ASSUME NEW g \in Gate, NEW h, NEW n \in 0 .. Len(g.commits), h.handed = g.handed,
         Len(h.commits) = Len(g.commits) - n,
         \A k \in 1 .. Len(h.commits) : h.commits[k] = g.commits[k + n],
         Ordered(g)
  PROVE  Ordered(h)
<1>1. Len(g.commits) \in Nat
  BY SMTT(40), GateFields
<1>2. \A k \in 1 .. Len(h.commits) : k \in Nat /\ k + n \in 1 .. Len(g.commits)
  BY SMTT(40), <1>1
<1>3. ASSUME NEW j \in 1 .. Len(h.commits), NEW k \in 1 .. Len(h.commits), j < k
      PROVE  h.commits[j].lastSequence < h.commits[k].lastSequence
  <2>1. j + n \in 1 .. Len(g.commits) /\ k + n \in 1 .. Len(g.commits) /\ j + n < k + n
    BY SMTT(40), <1>1, <1>2, <1>3
  <2>2. g.commits[j + n].lastSequence < g.commits[k + n].lastSequence
    BY <2>1 DEF Ordered
  <2> QED BY <2>2
<1>4. ASSUME NEW k \in 1 .. Len(h.commits)
      PROVE  h.commits[k].lastSequence <= h.handed
  <2>1. g.commits[k + n].lastSequence <= g.handed
    BY <1>2 DEF Ordered
  <2> QED BY <2>1
<1> QED BY <1>3, <1>4 DEF Ordered

\* Begin, Hand and a new session leave entries and position alone.
LEMMA FieldsOnward ==
  ASSUME NEW g \in Gate
  PROVE  /\ Onward(g, g) /\ Onward(g, Begin(g)) /\ Onward(g, Hand(g))
         /\ Onward(g, NewSession(g))
<1>f. /\ g.confirmable \in 0 .. MaxLsn /\ g.handed \in Nat /\ MaxLsn \in Nat
      /\ \A k \in 1 .. Len(g.commits) : g.commits[k].lastSequence \in Nat
  BY GateFields
<1>1. ASSUME NEW h \in Gate, h.commits = g.commits, h.confirmable = g.confirmable,
             h.handed = g.handed \/ h.handed = g.handed + 1
      PROVE  Onward(g, h)
  <2>1. Ordered(g) => Ordered(h)
    BY SMTT(40), <1>f, <1>1 DEF Ordered
  <2> QED BY SMTT(40), <1>f, <1>1, <2>1 DEF Onward
<1>2. Onward(g, g)
  BY <1>1
<1>3. ASSUME NEW h \in {Begin(g), NewSession(g), Hand(g)}
      PROVE  h.commits = g.commits /\ h.confirmable = g.confirmable
  BY FieldFacts
<1>4. /\ Begin(g) \in Gate /\ NewSession(g) \in Gate /\ Hand(g) \in Gate
      /\ Hand(g).handed = g.handed + 1
      /\ Begin(g).handed = g.handed /\ NewSession(g).handed = g.handed
  BY FieldFacts
<1>5. Onward(g, Begin(g)) /\ Onward(g, NewSession(g)) /\ Onward(g, Hand(g))
  BY <1>1, <1>3, <1>4
<1> QED BY <1>2, <1>5

\* A commit adds one entry, for a higher number, or none.
LEMMA CommittedOnward ==
  ASSUME SetLaws, NEW g \in Gate, NEW end \in Lsn
  PROVE  Onward(g, Committed(g, end))
<1> DEFINE h == Committed(g, end)
<1>b. /\ g.confirmable \in 0 .. MaxLsn /\ g.handed \in Nat /\ MaxLsn \in Nat
      /\ g.commits \in Seq(PendingCommit)
  BY GateFields
<1>c. \A k \in 1 .. Len(g.commits) : g.commits[k].lastSequence \in Nat
  BY GateFields
<1> DEFINE m == Len(h.commits)
           l == Len(g.commits)
<1>2. /\ h \in Gate /\ h.handed = g.handed /\ h.confirmable = g.confirmable
      /\ m \in {l, l + 1} /\ m > 0
      /\ \A k \in 1 .. m - 1 : h.commits[k] = g.commits[k]
      /\ h.commits[m].lastSequence = g.handed
      /\ m = l => g.commits[m].lastSequence = g.handed
      /\ m = l + 1 /\ g.commits # <<>> => g.commits[l].lastSequence # g.handed
  BY CommittedFacts
<1> HIDE DEF h
<1>3. l \in Nat /\ m \in Nat
  BY SMTT(40), <1>b, <1>2
<1>4. ASSUME Ordered(g), NEW k \in 1 .. m - 1
      PROVE  k \in 1 .. l /\ g.commits[k].lastSequence < g.handed
  <2>1. k \in 1 .. l
    BY SMTT(40), <1>2, <1>3
  <2>2. CASE m = l
    <3>1. m \in 1 .. l /\ k < m
      BY SMTT(40), <1>2, <1>3, <2>2
    <3> QED BY <1>2, <2>1, <2>2, <3>1, <1>4 DEF Ordered
  <2>3. CASE m = l + 1
    <3>1. l \in 1 .. l /\ g.commits # <<>>
      BY SMTT(40), <1>b, <1>3, <2>1
    <3>2. g.commits[l].lastSequence < g.handed
      BY SMTT(40), <3>1, <2>3, <1>2, <1>4, <1>b, <1>c DEF Ordered
    <3>3. k = l \/ g.commits[k].lastSequence < g.commits[l].lastSequence
      BY SMTT(40), <2>1, <3>1, <1>3, <1>4 DEF Ordered
    <3> QED BY SMTT(40), <2>1, <3>1, <3>2, <3>3, <1>b, <1>c
  <2> QED BY <1>2, <2>2, <2>3
<1>5. ASSUME Ordered(g) PROVE Ordered(h)
  <2>1. ASSUME NEW j \in 1 .. m, NEW k \in 1 .. m, j < k
        PROVE  h.commits[j].lastSequence < h.commits[k].lastSequence
    <3>1. j \in 1 .. m - 1 /\ h.commits[j] = g.commits[j]
      BY SMTT(40), <1>2, <1>3, <2>1
    <3>2. CASE k = m
      BY <3>1, <3>2, <1>2, <1>4, <1>5
    <3>3. CASE k # m
      <4>1. k \in 1 .. m - 1 /\ h.commits[k] = g.commits[k]
        BY SMTT(40), <1>2, <1>3, <3>3
      <4> QED BY <3>1, <4>1, <2>1, <1>4, <1>5 DEF Ordered
    <3> QED BY <3>2, <3>3
  <2>2. ASSUME NEW k \in 1 .. m
        PROVE  h.commits[k].lastSequence <= h.handed
    <3>1. CASE k = m
      BY SMTT(40), <3>1, <1>2, <1>b
    <3>2. CASE k # m
      <4>1. k \in 1 .. m - 1 /\ h.commits[k] = g.commits[k]
        BY SMTT(40), <1>2, <1>3, <3>2
      <4> QED BY SMTT(40), <4>1, <1>2, <1>4, <1>5, <1>b, <1>c
    <3> QED BY <3>1, <3>2
  <2> QED BY <2>1, <2>2 DEF Ordered
<1> QED BY SMTT(40), <1>2, <1>5, <1>b DEF Onward, h

\* An idle keepalive settles and may raise the position.
LEMMA IdleOnward ==
  ASSUME SetLaws, NEW g \in Gate, NEW acks \in Nat, NEW position \in Lsn
  PROVE  Onward(g, Idle(g, acks, position))
<1> DEFINE s == settle(g, acks)
           h == Idle(g, acks, position)
<1>1. /\ s \in Gate /\ s.confirmable >= g.confirmable
      /\ \E n \in 0 .. Len(g.commits) :
           /\ Len(s.commits) = Len(g.commits) - n
           /\ \A k \in 1 .. Len(s.commits) : s.commits[k] = g.commits[k + n]
  BY SettleFacts
<1>2. /\ h \in Gate /\ h.handed = g.handed /\ h.commits = s.commits
      /\ h.confirmable >= s.confirmable
  BY IdleFacts
<1> HIDE DEF s, h
<1>3. PICK n \in 0 .. Len(g.commits) :
        /\ Len(h.commits) = Len(g.commits) - n
        /\ \A k \in 1 .. Len(h.commits) : h.commits[k] = g.commits[k + n]
  BY <1>1, <1>2
<1>4. Ordered(g) => Ordered(h)
  BY <1>2, <1>3, OrderedSuffix
<1>5. h.confirmable >= g.confirmable
  <2>1. /\ s.confirmable \in 0 .. MaxLsn /\ h.confirmable \in 0 .. MaxLsn
        /\ g.confirmable \in 0 .. MaxLsn /\ MaxLsn \in Nat
    BY <1>1, <1>2, GateFields
  <2> QED BY SMTT(40), <2>1, <1>1, <1>2
<1> QED BY <1>2, <1>4, <1>5 DEF Onward, h

-----------------------------------------------------------------------------
(***************************************************************************)
(* Types.                                                                  *)
(***************************************************************************)
\* The kinds of changes in the log.
LEMMA ChangeKinds == ChangeKind = {"row", "large", "wide", "huge", "filtered", "bad"}
BY KindFacts DEF ChangeKind

\* The transactions of the log are sequences of change kinds.
LEMMA WalFacts ==
  ASSUME Typed, NEW t \in 1 .. MaxLsn
  PROVE  /\ wal[t] \in Seq(ChangeKind)
         /\ Len(wal[t]) \in Nat /\ DOMAIN wal[t] = 1 .. Len(wal[t])
         /\ \A i \in 1 .. Len(wal[t]) : wal[t][i] \in ChangeKind
<1> TypeOK
  BY DEF Typed
<1>1. wal[t] \in Seq(ChangeKind)
  BY PgAssumption DEF TypeOK
<1> HIDE DEF ChangeKind
<1> QED BY SMTT(40), <1>1

\* The process that has not started yet satisfies the invariant.
LEMMA InitHolds == Init => TypeOK /\ IInv
<1> SUFFICES ASSUME Init PROVE TypeOK /\ IInv
  OBVIOUS
<1> USE DEF Init, PubInit
<1>1. TypeOK
  <2>1. PubTypeOK
    BY PubInitType
  <2>2. gate \in Gate
    BY SMTT(40), MaxLsnAssumption DEF newAckGate, Gate, Lsn
  <2>3. /\ wal \in [1 .. MaxLsn -> TxnShapes] /\ committed \in Lsn /\ status \in Lsn
        /\ slot \in [state : {"none", "ok", "lost"}, confirmed : Lsn]
        /\ acked \in Nat /\ txnIndex \in Nat /\ lastFlushSent \in Lsn /\ recreated \in Nat
        /\ skipped \in SUBSET (1 .. MaxLsn) /\ proc \in {"up", "down"}
    BY SMTT(40), MaxLsnAssumption DEF Lsn
  <2>4. used \in [crashes : 0 .. MaxCrashes, drops : 0 .. MaxDrops,
                  losses : 0 .. MaxLosses, expiries : 0 .. MaxExpiries]
    BY SMTT(40), PgAssumption
  <2>5. sess \in [up : BOOLEAN, sent : Lsn, at : Nat]
    BY SMTT(40), MaxLsnAssumption DEF Lsn, NoSession
  <2>6. caughtUp \in BOOLEAN
    OBVIOUS
  <2> QED BY <2>1, <2>2, <2>3, <2>4, <2>5, <2>6 DEF TypeOK
<1>2. Queue = {}
  BY SMTT(40), KindFacts DEF Queue
<1>3. Stored = {}
  BY SMTT(40) DEF Stored
<1>4. gate.commits = <<>> /\ gate.handed = 0 /\ gate.confirmable = 0
  BY DEF newAckGate
<1>5. AcksInOrder /\ EventsAreChanges /\ MessagesAreChanges /\ SessionIsSound
  BY SMTT(40), <1>2, <1>4 DEF AcksInOrder, EventsAreChanges, MessagesAreChanges, SessionIsSound, NoSession
<1>6. StreamedIsAccounted /\ CommitsAreAccounted /\ QueueHasNoGaps
  BY SMTT(40), <1>2, <1>4 DEF StreamedIsAccounted, CommitsAreAccounted, QueueHasNoGaps, NoSession
<1>7. PositionsAreDelivered
  BY SMTT(40), <1>4 DEF PositionsAreDelivered, Contract!DeliveredUpTo
<1> QED BY <1>1, <1>5, <1>6, <1>7 DEF IInv

-----------------------------------------------------------------------------
(***************************************************************************)
(* How the gate changes when a message has been handled with gate g: it    *)
(* is g, or g settled and reported.                                        *)
(***************************************************************************)
GateMoves(g) ==
  /\ gate' \in Gate /\ gate'.handed = g.handed /\ gate'.inTxn = g.inTxn
  /\ gate'.confirmable >= g.confirmable
  /\ \/ gate'.confirmable = g.confirmable
     \/ \E k \in 1 .. Len(g.commits) :
          g.commits[k].lastSequence <= acked /\ gate'.confirmable = g.commits[k].end
  /\ \E n \in 0 .. Len(g.commits) :
       /\ Len(gate'.commits) = Len(g.commits) - n
       /\ \A k \in 1 .. Len(gate'.commits) : gate'.commits[k] = g.commits[k + n]
  /\ status' \in {status, gate'.confirmable}
  /\ lastFlushSent' \in {lastFlushSent, gate'.confirmable}

\* sendStatus settles the gate, and reports a position the settled gate confirms.
LEMMA SendStatusFacts ==
  ASSUME SetLaws, NEW g \in Gate, acked \in Nat, sendStatus(g)
  PROVE  GateMoves(g)
<1> DEFINE s == settle(g, acked)
<1>1. /\ s \in Gate
      /\ s.handed = g.handed /\ s.inTxn = g.inTxn
      /\ s.confirmable >= g.confirmable
      /\ \/ s.confirmable = g.confirmable
         \/ \E k \in 1 .. Len(g.commits) :
              g.commits[k].lastSequence <= acked /\ s.confirmable = g.commits[k].end
      /\ \E n \in 0 .. Len(g.commits) :
           /\ Len(s.commits) = Len(g.commits) - n
           /\ \A k \in 1 .. Len(s.commits) : s.commits[k] = g.commits[k + n]
  BY SettleFacts
<1>2. gate' = s /\ status' = s.confirmable /\ lastFlushSent' = s.confirmable
  BY DEF sendStatus, Flush
<1> HIDE DEF s
<1> QED BY <1>1, <1>2 DEF GateMoves

\* Sending no status leaves the gate where the handler put it.
LEMMA StayFacts ==
  ASSUME NEW g \in Gate, gate' = g, UNCHANGED <<status, lastFlushSent>>
  PROVE  GateMoves(g)
<1>1. g.commits \in Seq(PendingCommit) /\ g.confirmable \in 0 .. MaxLsn
  BY DEF Gate, Lsn
<1>2. 0 \in 0 .. Len(g.commits) /\ Len(g.commits) = Len(g.commits) - 0
  BY SMTT(40), <1>1
<1>3. \A k \in 1 .. Len(g.commits) : g.commits[k] = g.commits[k + 0]
  BY SMTT(40), <1>1
<1>4. \E n \in 0 .. Len(g.commits) :
       /\ Len(gate'.commits) = Len(g.commits) - n
       /\ \A k \in 1 .. Len(gate'.commits) : gate'.commits[k] = g.commits[k + n]
  BY <1>2, <1>3
<1>5. gate'.confirmable >= g.confirmable
  BY SMTT(40), <1>1, MaxLsnAssumption
<1> QED BY <1>4, <1>5 DEF GateMoves

\* maintainHeartbeatAndStatus does one or the other.
LEMMA MaintainFacts ==
  ASSUME SetLaws, NEW g \in Gate, acked \in Nat, Maintain(g)
  PROVE  GateMoves(g)
<1>1. CASE sendStatus(g)
  BY <1>1, SendStatusFacts
<1>2. CASE gate' = g /\ UNCHANGED <<status, lastFlushSent>>
  BY <1>2, StayFacts
<1> QED BY <1>1, <1>2 DEF Maintain

\* The types of what a handled message changes in the listener.
LEMMA GateMovesType ==
  ASSUME NEW g \in Gate, GateMoves(g), status \in Lsn, lastFlushSent \in Lsn
  PROVE  gate' \in Gate /\ status' \in Lsn /\ lastFlushSent' \in Lsn
<1>1. gate' \in Gate /\ gate'.confirmable \in Lsn
  BY DEF GateMoves, Gate
<1> QED BY <1>1 DEF GateMoves

-----------------------------------------------------------------------------
(***************************************************************************)
(* Type correctness of every step.  A position inside a transaction is     *)
(* below the end of the log, which SessionIsSound supplies.                *)
(***************************************************************************)
LEMMA UseType ==
  ASSUME Typed, NEW w \in {"crashes", "drops", "losses", "expiries"}, Use(w),
         \/ w = "crashes" /\ used.crashes < MaxCrashes
         \/ w = "drops" /\ used.drops < MaxDrops
         \/ w = "losses" /\ used.losses < MaxLosses
         \/ w = "expiries" /\ used.expiries < MaxExpiries
  PROVE  used' \in [crashes : 0 .. MaxCrashes, drops : 0 .. MaxDrops,
                    losses : 0 .. MaxLosses, expiries : 0 .. MaxExpiries]
<1> TypeOK
  BY DEF Typed
<1> USE PgAssumption DEF TypeOK, Use
<1>1. CASE w = "crashes"
  BY SMTT(40), <1>1
<1>2. CASE w = "drops"
  BY SMTT(40), <1>2
<1>3. CASE w = "losses"
  BY SMTT(40), <1>3
<1>4. CASE w = "expiries"
  BY SMTT(40), <1>4
<1> QED BY <1>1, <1>2, <1>3, <1>4

\* A new slot is a slot, and skips transactions of the log.
LEMMA CreateSlotType ==
  ASSUME Typed, CreateSlot
  PROVE  /\ slot' \in [state : {"none", "ok", "lost"}, confirmed : Lsn]
         /\ skipped' \in SUBSET (1 .. MaxLsn)
<1> TypeOK
  BY DEF Typed
<1>1. slot.confirmed \in 0 .. MaxLsn /\ committed \in 0 .. MaxLsn
  BY DEF TypeOK, Lsn
<1>2. (slot.confirmed + 1) .. committed \subseteq 1 .. MaxLsn
  BY SMTT(40), <1>1, MaxLsnAssumption
<1>3. slot' \in [state : {"none", "ok", "lost"}, confirmed : Lsn]
  BY DEF CreateSlot, TypeOK
<1>4. skipped' = skipped \cup ((slot.confirmed + 1) .. committed) /\ skipped \in SUBSET (1 .. MaxLsn)
  BY DEF CreateSlot, TypeOK
<1> QED BY <1>2, <1>3, <1>4

\* What the listener's receive actions have in common.
LEMMA ReceiveTypes ==
  ASSUME SetLaws, Typed, SessionIsSound, ReceiveXLogData \/ ReceiveKeepalive
  PROVE  /\ \E g \in Gate : GateMoves(g)
         /\ sess' \in [up : BOOLEAN, sent : Lsn, at : Nat]
         /\ txnIndex' \in Nat /\ caughtUp' \in BOOLEAN
         /\ chan' \in Seq(Event) /\ Len(chan') <= BufCap
         /\ UNCHANGED <<cur, pub, nats, failed, ctxDone, stream, remembered, wal,
                        committed, slot, proc, acked, recreated, skipped, used>>
<1> TypeOK
  BY DEF Typed
<1>a. gate \in Gate /\ acked \in Nat /\ txnIndex \in Nat /\ sess.sent \in 0 .. MaxLsn /\ sess.at \in Nat
  BY DEF TypeOK, Lsn
<1>b. chan \in Seq(Event) /\ Len(chan) <= BufCap
  BY DEF TypeOK, PubTypeOK
<1>c. sess.at # 0 => sess.sent < committed /\ sess.sent + 1 \in 1 .. MaxLsn
  BY SMTT(40), <1>a, MaxLsnAssumption DEF SessionIsSound, TypeOK, Lsn
<1>d. sess' = [sess EXCEPT !.at = sess.at + 1] => sess' \in [up : BOOLEAN, sent : Lsn, at : Nat]
  BY SMTT(40) DEF TypeOK
<1>e. caughtUp \in BOOLEAN
  BY DEF TypeOK
<1>1. CASE ReceiveBegin
  <2>1. Begin(gate) \in Gate /\ Maintain(Begin(gate))
    BY <1>a, <1>1, FieldFacts DEF ReceiveBegin
  <2>2. chan' \in Seq(Event) /\ Len(chan') <= BufCap
    BY <1>1, KindFacts, HandleEventType DEF ReceiveBegin, Marker, TypeOK
  <2>3. sess' \in [up : BOOLEAN, sent : Lsn, at : Nat]
    BY <1>1 DEF ReceiveBegin, TypeOK
  <2> QED BY <1>1, <1>a, <1>e, <2>1, <2>2, <2>3, MaintainFacts DEF ReceiveBegin, dbVars
<1>2. CASE ReceiveFiltered
  BY <1>2, <1>a, <1>b, <1>d, <1>e, MaintainFacts DEF ReceiveFiltered, dbVars, pubVars
<1>3. CASE ReceiveRefused
  <2>1. Unhand(Hand(gate)) = gate
    BY <1>a, FieldFacts
  <2> QED BY SMTT(40), <1>3, <2>1, <1>a, <1>b, <1>d, <1>e, MaintainFacts DEF ReceiveRefused, dbVars, pubVars
<1>4. CASE ReceiveChange
  <2>1. Hand(gate) \in Gate /\ Maintain(Hand(gate))
    BY <1>a, <1>4, FieldFacts DEF ReceiveChange
  <2>2. ChangeEvent(Hand(gate)) \in Event
    <3>1. sess.at # 0 /\ sess.at <= Len(wal[sess.sent + 1]) /\ wal[sess.sent + 1][sess.at] \notin {"filtered", "bad"}
      BY <1>4 DEF ReceiveChange, AtChange, Txn
    <3>2. wal[sess.sent + 1][sess.at] \in ChangeKind
      BY SMTT(40), <3>1, <1>a, <1>c, WalFacts
    <3>3. Txn[sess.at] \in DOMAIN Fitting
      BY <3>1, <3>2, KindFacts, ChangeKinds DEF Txn
    <3>4. Hand(gate).handed \in Nat /\ sess.sent + 1 \in Nat
      BY SMTT(40), <2>1, <1>a DEF Gate
    <3> QED BY <3>3, <3>4, <1>a DEF ChangeEvent, Event, Form
  <2>3. chan' \in Seq(Event) /\ Len(chan') <= BufCap
    BY <1>4, <2>2, HandleEventType DEF ReceiveChange, TypeOK
  <2> QED BY SMTT(40), <1>4, <1>a, <1>d, <1>e, <2>1, <2>3, MaintainFacts DEF ReceiveChange, dbVars
<1>5. CASE ReceiveCommit
  <2>1. sess.sent + 1 \in Lsn
    BY SMTT(40), <1>5, <1>c DEF ReceiveCommit, Lsn
  <2>2. Committed(gate, sess.sent + 1) \in Gate /\ Maintain(Committed(gate, sess.sent + 1))
    BY <1>a, <1>5, <2>1, CommittedFacts DEF ReceiveCommit
  <2>3. chan' \in Seq(Event) /\ Len(chan') <= BufCap
    BY <1>5, KindFacts, HandleEventType DEF ReceiveCommit, Marker, TypeOK
  <2>4. sess' \in [up : BOOLEAN, sent : Lsn, at : Nat]
    BY <1>5, <2>1 DEF ReceiveCommit, TypeOK
  <2>5. caughtUp' \in BOOLEAN
    BY <1>5 DEF ReceiveCommit
  <2> QED BY <1>5, <1>a, <2>2, <2>3, <2>4, <2>5, MaintainFacts DEF ReceiveCommit, dbVars
<1>6. CASE ReceiveKeepalive
  <2>1. PICK position \in KeepalivePositions, report \in BOOLEAN, heartbeat \in BOOLEAN :
          Keepalive(position, report, heartbeat)
    BY <1>6 DEF ReceiveKeepalive
  <2>2. position \in Lsn
    BY SMTT(40), <1>a, <1>c DEF KeepalivePositions, Lsn
  <2> DEFINE g == Idle(gate, acked, position)
  <2>3. g \in Gate
    BY <1>a, <2>2, IdleFacts
  <2>4. \/ sendStatus(g)
        \/ gate' = g /\ UNCHANGED <<status, lastFlushSent>>
    BY <2>1 DEF Keepalive
  <2>5. GateMoves(g)
    <3> HIDE DEF g
    <3> QED BY <1>a, <2>3, <2>4, SendStatusFacts, StayFacts
  <2>6. chan' \in Seq(Event) /\ Len(chan') <= BufCap
    BY <2>1, <1>b, KindFacts, HandleEventType DEF Keepalive, Marker, TypeOK
  <2>7. caughtUp' \in BOOLEAN
    BY <2>1 DEF Keepalive
  <2>8. sess' \in [up : BOOLEAN, sent : Lsn, at : Nat] /\ txnIndex' \in Nat
    BY <2>1, <1>a DEF Keepalive, TypeOK
  <2> QED BY <2>1, <2>3, <2>5, <2>6, <2>7, <2>8 DEF Keepalive, dbVars
<1> QED BY <1>1, <1>2, <1>3, <1>4, <1>5, <1>6 DEF ReceiveXLogData

\* Every step of the pipeline is well typed.
LEMMA TypeStep ==
  ASSUME SetLaws, Typed, SessionIsSound, Next
  PROVE  Typed'
<1> SUFFICES ASSUME TypeOK
             PROVE  TypeOK'
  BY DEF Typed
<1>a. PubTypeOK /\ slot \in [state : {"none", "ok", "lost"}, confirmed : Lsn] /\ status \in Lsn
  BY DEF TypeOK
<1>1. CASE ReceiveXLogData \/ ReceiveKeepalive
  <2>1. PICK g \in Gate : GateMoves(g)
    BY <1>1, ReceiveTypes
  <2>2. gate' \in Gate /\ status' \in Lsn /\ lastFlushSent' \in Lsn
    BY <2>1, GateMovesType DEF TypeOK
  <2>3. /\ sess' \in [up : BOOLEAN, sent : Lsn, at : Nat]
        /\ txnIndex' \in Nat /\ caughtUp' \in BOOLEAN
        /\ chan' \in Seq(Event) /\ Len(chan') <= BufCap
        /\ UNCHANGED <<cur, pub, nats, failed, ctxDone, stream, remembered, wal,
                       committed, slot, proc, acked, recreated, skipped, used>>
    BY <1>1, ReceiveTypes
  <2>4. PubTypeOK'
    BY <1>a, <2>3 DEF PubTypeOK
  <2> QED BY <2>2, <2>3, <2>4 DEF TypeOK
<1>2. CASE DbCommit
  BY SMTT(40), <1>2, MaxLsnAssumption
     DEF DbCommit, TypeOK, PubTypeOK, pubVars, gateVars, Lsn
<1>3. CASE SlotAdvances
  <2>1. Max({slot.confirmed, status}) \in Lsn /\ 0 \in Lsn
    BY SMTT(40), <1>a, MaxOfTwo, MaxLsnAssumption DEF Lsn
  <2>2. slot' \in [state : {"none", "ok", "lost"}, confirmed : Lsn] /\ status' \in Lsn
    BY <1>3, <1>a, <2>1 DEF SlotAdvances
  <2> QED BY <1>3, <2>2 DEF SlotAdvances, TypeOK, PubTypeOK, pubVars, dbVars, gateVars
<1>4. CASE SlotLost
  <2>1. used' \in [crashes : 0 .. MaxCrashes, drops : 0 .. MaxDrops,
                   losses : 0 .. MaxLosses, expiries : 0 .. MaxExpiries]
    BY <1>4, UseType DEF SlotLost
  <2>2. /\ slot' \in [state : {"none", "ok", "lost"}, confirmed : Lsn] /\ status' \in Lsn
        /\ sess' \in [up : BOOLEAN, sent : Lsn, at : Nat]
    BY SMTT(40), <1>4, <1>a, MaxLsnAssumption DEF SlotLost, NoSession, Lsn
  <2> QED BY <1>4, <2>1, <2>2 DEF SlotLost, TypeOK, PubTypeOK, pubVars, dbVars, gateVars
<1>5. CASE StartProcess
  <2>1. /\ slot' \in [state : {"none", "ok", "lost"}, confirmed : Lsn]
        /\ skipped' \in SUBSET (1 .. MaxLsn)
    BY <1>5, CreateSlotType DEF StartProcess, TypeOK
  <2> QED BY <1>5, <2>1 DEF StartProcess, TypeOK, PubTypeOK, pubVars, dbVars, gateVars
<1>6. CASE EndProcess
  <2>1. used' \in [crashes : 0 .. MaxCrashes, drops : 0 .. MaxDrops,
                   losses : 0 .. MaxLosses, expiries : 0 .. MaxExpiries]
    BY <1>6, UseType DEF EndProcess
  <2>2. PubTypeOK'
    BY <1>6, <1>a, PublisherTypes DEF EndProcess
  <2>3. /\ gate' \in Gate /\ sess' \in [up : BOOLEAN, sent : Lsn, at : Nat]
        /\ lastFlushSent' \in Lsn
    BY SMTT(40), <1>6, MaxLsnAssumption DEF EndProcess, Gate, newAckGate, NoSession, Lsn
  <2>4. caughtUp' \in BOOLEAN
    BY <1>6 DEF EndProcess
  <2> QED BY <1>6, <2>1, <2>2, <2>3, <2>4 DEF EndProcess, TypeOK, dbVars
<1>7. CASE StartStreaming
  <2>1. gate' \in Gate
    BY <1>7, FieldFacts DEF StartStreaming, TypeOK
  <2>2. /\ sess' \in [up : BOOLEAN, sent : Lsn, at : Nat]
        /\ status' \in Lsn /\ lastFlushSent' \in Lsn
    BY SMTT(40), <1>7, <1>a, MaxLsnAssumption DEF StartStreaming, Lsn
  <2> QED BY <1>7, <2>1, <2>2 DEF StartStreaming, TypeOK, PubTypeOK, pubVars, dbVars
<1>8. CASE RecreateDrop
  <2>1. slot' \in [state : {"none", "ok", "lost"}, confirmed : Lsn]
    BY <1>8, <1>a DEF RecreateDrop
  <2> QED BY <1>8, <2>1 DEF RecreateDrop, TypeOK, PubTypeOK, pubVars, dbVars, gateVars
<1>9. CASE RecreateCreate
  <2>1. /\ slot' \in [state : {"none", "ok", "lost"}, confirmed : Lsn]
        /\ skipped' \in SUBSET (1 .. MaxLsn)
    BY <1>9, CreateSlotType DEF RecreateCreate
  <2> QED BY SMTT(40), <1>9, <2>1 DEF RecreateCreate, TypeOK, PubTypeOK, pubVars, dbVars, gateVars
<1>10. CASE DropConnection
  <2>1. used' \in [crashes : 0 .. MaxCrashes, drops : 0 .. MaxDrops,
                   losses : 0 .. MaxLosses, expiries : 0 .. MaxExpiries]
    BY <1>10, UseType DEF DropConnection
  <2>2. sess' \in [up : BOOLEAN, sent : Lsn, at : Nat]
    BY SMTT(40), <1>10, MaxLsnAssumption DEF DropConnection, NoSession, Lsn
  <2> QED BY <1>10, <2>1, <2>2 DEF DropConnection, TypeOK, PubTypeOK, pubVars, dbVars, gateVars
<1>11. CASE PublishAndObserve
  <2>1. PubTypeOK'
    BY <1>11, <1>a, PublisherTypes DEF PublishAndObserve
  <2>2. acked' \in Nat
    <3>1. acked \in Nat /\ cur.seq \in Nat
      BY DEF TypeOK, PubTypeOK, Event
    <3>2. CASE acked < cur.seq
      BY <1>11, <3>1, <3>2, ObserveFacts DEF PublishAndObserve
    <3>3. CASE cur.seq <= acked
      <4>1. {acked, cur.seq} \in SUBSET (0 .. acked) /\ {acked, cur.seq} # {}
        BY SMTT(40), <3>1, <3>3
      <4>2. Max({acked, cur.seq}) \in {acked, cur.seq}
        BY <3>1, <4>1, MaxIsGreatest
      <4> QED BY <1>11, <3>1, <4>2 DEF PublishAndObserve, ObservePublished
    <3> QED BY SMTT(40), <3>1, <3>2, <3>3
  <2> QED BY <1>11, <2>1, <2>2 DEF PublishAndObserve, TypeOK, listenerVars, dbVars
<1>12. CASE PublisherRuns \/ NatsChanges \/ Shutdown
  <2>1. PubTypeOK'
    BY <1>12, <1>a, PublisherTypes DEF PublisherRuns, NatsChanges, Shutdown
  <2> QED BY <1>12, <2>1 DEF PublisherRuns, NatsChanges, Shutdown, TypeOK, listenerVars, dbVars
<1>13. CASE WindowMoves
  <2>1. PubTypeOK'
    BY <1>13, <1>a, PublisherTypes DEF WindowMoves
  <2>2. used' \in [crashes : 0 .. MaxCrashes, drops : 0 .. MaxDrops,
                   losses : 0 .. MaxLosses, expiries : 0 .. MaxExpiries]
    BY <1>13, UseType DEF WindowMoves
  <2> QED BY <1>13, <2>1, <2>2 DEF WindowMoves, TypeOK, listenerVars, dbVars
<1> QED BY <1>1, <1>2, <1>3, <1>4, <1>5, <1>6, <1>7, <1>8, <1>9, <1>10, <1>11, <1>12,
           <1>13 DEF Next

-----------------------------------------------------------------------------
(***************************************************************************)
(* Message ids.                                                            *)
(***************************************************************************)
LEMMA EmittedFacts ==
  ASSUME SetLaws, NEW t, NEW i \in Nat
  PROVE  /\ IsFiniteSet(EmittedBefore(t, i))
         /\ Cardinality(EmittedBefore(t, i)) \in Nat
<1>1. IsFiniteSet(1 .. i - 1)
  BY SMTT(40), CountInterval
<1>2. EmittedBefore(t, i) \in SUBSET (1 .. i - 1)
  BY DEF EmittedBefore
<1>3. IsFiniteSet(EmittedBefore(t, i))
  BY <1>1, <1>2, CountSubset
<1> QED BY <1>3, CountType

\* The index advances by one at a change that is not filtered.
LEMMA EmittedNext ==
  ASSUME SetLaws, NEW t, NEW i \in Nat \ {0}
  PROVE  Cardinality(EmittedBefore(t, i + 1)) =
           IF wal[t][i] = "filtered" THEN Cardinality(EmittedBefore(t, i))
                                     ELSE Cardinality(EmittedBefore(t, i)) + 1
<1>1. CASE wal[t][i] = "filtered"
  <2>1. EmittedBefore(t, i + 1) = EmittedBefore(t, i)
    BY SMTT(40), <1>1 DEF EmittedBefore
  <2> QED BY <1>1, <2>1
<1>2. CASE wal[t][i] # "filtered"
  <2>1. EmittedBefore(t, i + 1) = EmittedBefore(t, i) \cup {i}
    BY SMTT(40), <1>2 DEF EmittedBefore
  <2>2. i \notin EmittedBefore(t, i)
    BY SMTT(40) DEF EmittedBefore
  <2> QED BY <1>2, <2>1, <2>2, EmittedFacts, CountAdd
<1> QED BY <1>1, <1>2

\* So two changes of a transaction that are emitted have different indices.
LEMMA EmittedIncreases ==
  ASSUME SetLaws, NEW t, NEW i \in Nat \ {0}, NEW j \in Nat, i < j, wal[t][i] # "filtered"
  PROVE  Cardinality(EmittedBefore(t, i)) < Cardinality(EmittedBefore(t, j))
<1>1. EmittedBefore(t, i + 1) \in SUBSET EmittedBefore(t, j)
  BY SMTT(40) DEF EmittedBefore
<1>2. IsFiniteSet(EmittedBefore(t, j))
  BY EmittedFacts
<1>3. Cardinality(EmittedBefore(t, i + 1)) <= Cardinality(EmittedBefore(t, j))
  BY <1>1, <1>2, CountSubset
<1>4. Cardinality(EmittedBefore(t, i + 1)) = Cardinality(EmittedBefore(t, i)) + 1
  BY EmittedNext
<1>5. /\ Cardinality(EmittedBefore(t, i)) \in Nat /\ Cardinality(EmittedBefore(t, j)) \in Nat
      /\ Cardinality(EmittedBefore(t, i + 1)) \in Nat
  BY SMTT(40), EmittedFacts
<1> QED BY SMTT(40), <1>3, <1>4, <1>5

\* Two changes that pass the filter have different message ids.
LEMMA SourceIdInjective ==
  ASSUME SetLaws, NEW t, NEW i \in Nat \ {0}, NEW u, NEW j \in Nat \ {0},
         wal[t][i] # "filtered", wal[u][j] # "filtered",
         SourceId(t, i) = SourceId(u, j)
  PROVE  t = u /\ i = j
<1>1. t = u /\ Cardinality(EmittedBefore(t, i)) = Cardinality(EmittedBefore(u, j))
  BY DEF SourceId
<1>2. /\ Cardinality(EmittedBefore(t, i)) \in Nat
      /\ Cardinality(EmittedBefore(u, j)) \in Nat
  BY EmittedFacts
<1>3. ~ (i < j)
  BY SMTT(40), <1>1, <1>2, EmittedIncreases
<1>4. ~ (j < i)
  BY SMTT(40), <1>1, <1>2, EmittedIncreases
<1> QED BY SMTT(40), <1>1, <1>3, <1>4

-----------------------------------------------------------------------------
(***************************************************************************)
(* What every step has to do with the events in flight: a change that is   *)
(* owed stays queued under its number, is stored, or is dropped by a       *)
(* publisher that acks no more.  Then no account is ever lost.             *)
(***************************************************************************)
Carries ==
  /\ wal' = wal /\ skipped \subseteq skipped' /\ Stored \subseteq Stored'
  /\ Halted => Halted' /\ acked' = acked
  /\ \A e \in Queue : Contract!Owed(e.change[1], e.change[2]) =>
       \/ \E f \in Queue' : f.change = e.change /\ f.seq = e.seq
       \/ e.change \in Stored'
       \/ Halted' /\ acked' < e.seq

Keeps ==
  /\ wal' = wal /\ Stored \subseteq Stored' /\ (Halted => Halted')
  /\ \A t, i : Contract!Owed(t, i)' => Contract!Owed(t, i)
  /\ \A t, i : \A s \in Nat :
       Contract!Owed(t, i) /\ Accounted(t, i, s) => Accounted(t, i, s)'

\* Carrying the events in flight keeps every account.
LEMMA CarriesKeeps ==
  ASSUME Typed, Typed', Carries
  PROVE  Keeps
<1> TypeOK /\ TypeOK'
  BY DEF Typed
<1>1. \A t, i : Contract!Owed(t, i)' => Contract!Owed(t, i)
  BY DEF Carries, Contract!Owed
<1>2. ASSUME NEW t, NEW i, NEW s \in Nat, Contract!Owed(t, i), Accounted(t, i, s)
      PROVE  Accounted(t, i, s)'
  <2>1. CASE <<t, i>> \in Stored
    BY <2>1 DEF Carries, Accounted
  <2>2. CASE Halted /\ acked < s
    BY <2>2 DEF Carries, Accounted
  <2>3. CASE InFlight(t, i, s)
    <3>1. PICK e \in Queue : e.change = <<t, i>> /\ e.seq <= s
      BY <2>3 DEF InFlight
    <3>2. e.change[1] = t /\ e.change[2] = i
      BY SMTT(40), <3>1
    <3>3. e.seq \in Nat /\ acked' \in Nat
      BY QueueType DEF TypeOK
    <3>4. CASE \E f \in Queue' : f.change = e.change /\ f.seq = e.seq
      BY <3>1, <3>4 DEF Accounted, InFlight
    <3>5. CASE e.change \in Stored'
      BY <3>1, <3>5 DEF Accounted
    <3>6. CASE Halted' /\ acked' < e.seq
      BY SMTT(40), <3>1, <3>3, <3>6 DEF Accounted
    <3> QED BY <1>2, <3>2, <3>4, <3>5, <3>6 DEF Carries
  <2> QED BY <1>2, <2>1, <2>2, <2>3 DEF Accounted
<1> QED BY <1>1, <1>2 DEF Keeps, Carries

\* Steps that keep the account keep it for everything the session passed.
LEMMA StreamedKept ==
  ASSUME Typed, StreamedIsAccounted, Keeps, sess' = sess \/ ~sess'.up,
         gate'.handed = gate.handed
  PROVE  StreamedIsAccounted'
<1> TypeOK
  BY DEF Typed
<1>1. gate.handed \in Nat
  BY DEF TypeOK, Gate
<1>2. CASE ~sess'.up
  BY <1>2 DEF StreamedIsAccounted
<1>3. CASE sess' = sess
  BY <1>1, <1>3 DEF StreamedIsAccounted, Keeps
<1> QED BY <1>2, <1>3

\* Steps that keep the account keep it for every pending commit.
LEMMA CommitsKept ==
  ASSUME Typed, CommitsAreAccounted, Keeps, committed' \in Lsn, committed' >= committed,
         gate'.handed = gate.handed, gate'.commits = gate.commits
  PROVE  CommitsAreAccounted'
<1> TypeOK
  BY DEF Typed
<1>1. ASSUME NEW k \in 1 .. Len(gate.commits)
      PROVE  gate.commits[k].lastSequence \in Nat /\ gate.commits[k].end \in 0 .. MaxLsn
  <2>1. gate.commits \in Seq(PendingCommit)
    BY DEF TypeOK, Gate
  <2>2. gate.commits[k] \in PendingCommit
    BY SMTT(40), <2>1
  <2> QED BY <2>2 DEF PendingCommit, Lsn
<1>2. committed \in 0 .. MaxLsn /\ committed' \in 0 .. MaxLsn
  BY DEF TypeOK, Lsn
<1> SUFFICES ASSUME NEW k \in 1 .. Len(gate.commits)
             PROVE  /\ gate.commits[k].lastSequence <= gate.handed
                    /\ gate.commits[k].end <= committed'
                    /\ \A t \in 1 .. gate.commits[k].end : \A i \in DOMAIN wal'[t] :
                         Contract!Owed(t, i)' => Accounted(t, i, gate.commits[k].lastSequence)'
  BY DEF CommitsAreAccounted
<1>3. gate.commits[k].lastSequence <= gate.handed /\ gate.commits[k].end <= committed'
  BY SMTT(40), <1>1, <1>2, MaxLsnAssumption DEF CommitsAreAccounted
<1> QED BY <1>1, <1>3 DEF CommitsAreAccounted, Keeps

\* A queue whose events were all there before has no new gaps.
LEMMA GapsKept ==
  ASSUME Typed, AcksInOrder, QueueHasNoGaps, Keeps,
         \A f \in Queue' : \E e \in Queue : e.change = f.change /\ e.seq = f.seq
  PROVE  QueueHasNoGaps'
<1> TypeOK
  BY DEF Typed
<1> SUFFICES ASSUME NEW f \in Queue', NEW t \in 1 .. f.change[1], NEW i \in DOMAIN wal'[t],
                    t < f.change[1] \/ i < f.change[2], Contract!Owed(t, i)'
             PROVE  Accounted(t, i, f.seq - 1)' \/ Halted'
  BY DEF QueueHasNoGaps
<1>1. PICK e \in Queue : e.change = f.change /\ e.seq = f.seq
  OBVIOUS
<1>2. Contract!Owed(t, i) /\ wal' = wal
  BY DEF Keeps
<1>3. Accounted(t, i, f.seq - 1) \/ Halted
  BY <1>1, <1>2 DEF QueueHasNoGaps
<1>4. f.seq - 1 \in Nat
  <2>1. e.seq \in Nat /\ acked \in Nat /\ acked < e.seq
    BY QueueType DEF TypeOK, AcksInOrder
  <2> QED BY SMTT(40), <1>1, <2>1
<1> QED BY <1>2, <1>3, <1>4 DEF Keeps

-----------------------------------------------------------------------------
(***************************************************************************)
(* JetStream.  A duplicate is a repeat of the same change, so a publish    *)
(* that succeeds leaves the change stored either way.                      *)
(***************************************************************************)
LEMMA ChangeIndex ==
  ASSUME Typed, NEW x, NEW c, Names(x, c)
  PROVE  c[2] \in Nat \ {0} /\ c[1] \in 1 .. MaxLsn
<1> TypeOK
  BY DEF Typed
<1>1. committed \in 0 .. MaxLsn
  BY DEF TypeOK, Lsn
<1> QED BY SMTT(40), <1>1, MaxLsnAssumption, WalFacts DEF Names, IsChange

\* An id names one change.
LEMMA NamesOne ==
  ASSUME SetLaws, Typed, NEW x, NEW c, NEW d, Names(x, c), Names(x, d)
  PROVE  c[1] = d[1] /\ c[2] = d[2]
<1> TypeOK
  BY DEF Typed
<1>1. c[2] \in Nat \ {0} /\ d[2] \in Nat \ {0}
  BY ChangeIndex
<1>2. /\ wal[c[1]][c[2]] # "filtered" /\ wal[d[1]][d[2]] # "filtered"
      /\ SourceId(c[1], c[2]) = SourceId(d[1], d[2])
  BY DEF Names
<1> QED BY SMTT(40), <1>1, <1>2, SourceIdInjective

\* What an id names does not change as the log grows.
LEMMA NamesKept ==
  ASSUME Typed, wal' = wal, committed' \in Lsn, committed' >= committed
  PROVE  \A x, c : Names(x, c) => Names(x, c)'
<1> TypeOK
  BY DEF Typed
<1>1. committed \in 0 .. MaxLsn /\ committed' \in 0 .. MaxLsn
  BY DEF TypeOK, Lsn
<1> QED BY SMTT(40), <1>1, MaxLsnAssumption DEF Names, IsChange, SourceId, EmittedBefore

\* JetStream comes to hold the event's change, whether it stores the message or
\* finds its id in the duplicate window: the id names that change.
LEMMA StoreFacts ==
  ASSUME SetLaws, Typed, EventsAreChanges, MessagesAreChanges, NEW e \in Queue, Store(e),
         wal' = wal, committed' = committed
  PROVE  Stored' = Stored \cup {e.change} /\ MessagesAreChanges'
<1> TypeOK
  BY DEF Typed
<1>a. stream \in Seq(Message) /\ e \in Event
  BY QueueType DEF TypeOK, PubTypeOK
<1>b. Names(e.id, e.change) /\ e.change = <<e.change[1], e.change[2]>>
  BY QueueType DEF EventsAreChanges, TypeOK
<1>c. \A x, c : Names(x, c)' <=> Names(x, c)
  BY DEF Names, IsChange, SourceId, EmittedBefore
<1>1. CASE e.id \in remembered
  <2>1. stream' = stream /\ remembered' = remembered
    BY <1>1 DEF Store
  <2>2. PICK k \in 1 .. Len(stream) : stream[k].id = e.id
    BY <1>1 DEF MessagesAreChanges
  <2>3. Names(e.id, stream[k].change)
    BY <2>2 DEF MessagesAreChanges
  <2>4. stream[k].change[1] = e.change[1] /\ stream[k].change[2] = e.change[2]
    BY SMTT(40), <1>b, <2>3, NamesOne
  <2>5. stream[k].change = e.change
    BY <1>b, <2>4, MessageType DEF TypeOK
  <2>6. Stored' = Stored \cup {e.change}
    BY <2>1, <2>5 DEF Stored
  <2>7. MessagesAreChanges'
    BY <1>c, <2>1 DEF MessagesAreChanges
  <2> QED BY <2>6, <2>7
<1>2. CASE e.id \notin remembered
  <2> DEFINE m == [id |-> e.id, change |-> e.change, form |-> e.form]
  <2>1. stream' = Append(stream, m) /\ remembered' = remembered \cup {e.id} /\ m \in Message
    BY <1>2, <1>a DEF Store, Message, Event
  <2>2. m.id = e.id /\ m.change = e.change
    OBVIOUS
  <2> HIDE DEF m
  <2>3. /\ Len(stream') = Len(stream) + 1 /\ Len(stream) \in Nat
        /\ stream'[Len(stream) + 1] = m
        /\ \A k \in 1 .. Len(stream) : stream'[k] = stream[k]
    BY SMTT(40), <1>a, <2>1
  <2>4. /\ \A k \in 1 .. Len(stream') : k \in 1 .. Len(stream) \/ k = Len(stream) + 1
        /\ \A k \in 1 .. Len(stream) : k \in 1 .. Len(stream')
        /\ Len(stream) + 1 \in 1 .. Len(stream')
    BY SMTT(40), <2>3
  <2>5. Stored' = Stored \cup {e.change}
    <3>1. \A x \in Stored' : x \in Stored \cup {e.change}
      BY <2>2, <2>3, <2>4 DEF Stored
    <3>2. \A x \in Stored : x \in Stored'
      BY <2>3, <2>4 DEF Stored
    <3>3. e.change \in Stored'
      BY <2>2, <2>3, <2>4 DEF Stored
    <3> QED BY <3>1, <3>2, <3>3
  <2>6. \A k \in 1 .. Len(stream') : Names(stream'[k].id, stream'[k].change)
    BY <1>b, <2>2, <2>3, <2>4 DEF MessagesAreChanges
  <2>7. \A x \in remembered' : \E k \in 1 .. Len(stream') : stream'[k].id = x
    BY SMTT(40), <2>1, <2>2, <2>3, <2>4 DEF MessagesAreChanges
  <2>8. (\A k \in 1 .. Len(stream) : Names(stream[k].id, stream[k].change))'
    BY <2>6 DEF Names, IsChange, SourceId, EmittedBefore
  <2> QED BY <2>5, <2>7, <2>8 DEF MessagesAreChanges
<1> QED BY <1>1, <1>2

-----------------------------------------------------------------------------
(***************************************************************************)
(* Events and messages.  An event the publisher works on after a step      *)
(* is one it worked on before.                                             *)
(***************************************************************************)
Descends ==
  \A f \in Queue' : \E e \in Queue :
    e.seq = f.seq /\ e.id = f.id /\ e.change = f.change /\ e.kind = f.kind

\* Events that descend from queued ones name the changes they did.
LEMMA EventsKept ==
  ASSUME Typed, EventsAreChanges, Descends,
         wal' = wal, committed' \in Lsn, committed' >= committed
  PROVE  EventsAreChanges'
<1> TypeOK
  BY DEF Typed
<1> SUFFICES ASSUME NEW f \in Queue'
             PROVE  Names(f.id, f.change)' /\ wal[f.change[1]][f.change[2]] = f.kind
  BY DEF EventsAreChanges
<1>1. PICK e \in Queue : e.id = f.id /\ e.change = f.change /\ e.kind = f.kind
  BY DEF Descends
<1>2. Names(f.id, f.change) /\ wal[f.change[1]][f.change[2]] = f.kind
  BY <1>1 DEF EventsAreChanges
<1> QED BY <1>2, NamesKept

\* A stream that stores nothing new names the changes it did.
LEMMA MessagesKept ==
  ASSUME Typed, MessagesAreChanges, stream' = stream, remembered' \subseteq remembered,
         wal' = wal, committed' \in Lsn, committed' >= committed
  PROVE  MessagesAreChanges'
<1> TypeOK
  BY DEF Typed
<1>1. \A x, c : Names(x, c) => Names(x, c)'
  BY NamesKept
<1>2. \A k \in 1 .. Len(stream) : Names(stream[k].id, stream[k].change)
  BY DEF MessagesAreChanges
<1>3. \A t : t \in 1 .. committed => t \in 1 .. committed'
  BY SMTT(40), MaxLsnAssumption DEF TypeOK, Lsn
<1>4. (\A k \in 1 .. Len(stream) : Names(stream[k].id, stream[k].change))'
  BY <1>2, <1>3 DEF Names, IsChange, SourceId, EmittedBefore
<1> QED BY <1>4 DEF MessagesAreChanges

-----------------------------------------------------------------------------
(***************************************************************************)
(* The session and the positions.                                          *)
(***************************************************************************)
LEMMA SessionKept ==
  ASSUME Typed, SessionIsSound, wal' = wal, committed' \in Lsn, committed' >= committed,
         \/ sess' = NoSession
         \/ /\ sess' = sess /\ txnIndex' = txnIndex
            /\ gate'.inTxn = gate.inTxn /\ proc' = proc,
         proc' = "down" => ~ctxDone' /\ pub' = "await"
  PROVE  SessionIsSound'
<1> TypeOK
  BY DEF Typed
<1>1. committed \in 0 .. MaxLsn /\ committed' \in 0 .. MaxLsn /\ sess.sent \in 0 .. MaxLsn
  BY DEF TypeOK, Lsn
<1>2. CASE sess' = NoSession
  BY SMTT(40), <1>1, <1>2, MaxLsnAssumption DEF SessionIsSound, NoSession
<1>3. CASE sess' = sess /\ txnIndex' = txnIndex /\ gate'.inTxn = gate.inTxn /\ proc' = proc
  <2>1. Txn' = Txn /\ EmittedBefore(sess.sent + 1, sess.at)' = EmittedBefore(sess.sent + 1, sess.at)
    BY <1>3 DEF Txn, EmittedBefore
  <2>2. sess.sent <= committed' /\ (sess.sent < committed => sess.sent < committed')
    BY SMTT(40), <1>1, MaxLsnAssumption DEF SessionIsSound
  <2> QED BY <1>3, <2>1, <2>2 DEF SessionIsSound
<1> QED BY <1>2, <1>3

\* Positions that cover only delivered changes keep doing so.
LEMMA PositionsKept ==
  ASSUME Typed, PositionsAreDelivered, Keeps, committed' \in Lsn, committed' >= committed,
         gate'.confirmable = gate.confirmable, status' \in {status, 0},
         slot'.confirmed <= committed',
         \A u \in 1 .. slot'.confirmed : \A i \in DOMAIN wal[u] :
           Contract!Owed(u, i)' => <<u, i>> \in Stored'
  PROVE  PositionsAreDelivered'
<1> TypeOK
  BY DEF Typed
<1>1. /\ committed \in 0 .. MaxLsn /\ committed' \in 0 .. MaxLsn
      /\ gate.confirmable \in 0 .. MaxLsn /\ status \in 0 .. MaxLsn
  BY DEF TypeOK, Lsn, Gate
<1>2. gate'.confirmable <= committed' /\ status' <= committed'
  BY SMTT(40), <1>1, MaxLsnAssumption DEF PositionsAreDelivered
<1>3. Contract!DeliveredUpTo(gate.confirmable)'
  BY DEF PositionsAreDelivered, Contract!DeliveredUpTo, Keeps
<1>4. Contract!DeliveredUpTo(status)'
  BY SMTT(40) DEF PositionsAreDelivered, Contract!DeliveredUpTo, Keeps
<1>5. Contract!DeliveredUpTo(slot.confirmed)'
  BY DEF Contract!DeliveredUpTo, Keeps
<1> QED BY <1>2, <1>3, <1>4, <1>5 DEF PositionsAreDelivered

\* A slot that keeps its position keeps what lies before it delivered.
LEMMA SlotKept ==
  ASSUME Typed, PositionsAreDelivered, Keeps, committed' \in Lsn, committed' >= committed,
         slot'.confirmed = slot.confirmed
  PROVE  /\ slot'.confirmed <= committed'
         /\ \A u \in 1 .. slot'.confirmed : \A i \in DOMAIN wal[u] :
              Contract!Owed(u, i)' => <<u, i>> \in Stored'
<1> TypeOK
  BY DEF Typed
<1>1. committed \in 0 .. MaxLsn /\ committed' \in 0 .. MaxLsn /\ slot.confirmed \in 0 .. MaxLsn
  BY DEF TypeOK, Lsn
<1>2. slot'.confirmed <= committed'
  BY SMTT(40), <1>1, MaxLsnAssumption DEF PositionsAreDelivered
<1> QED BY <1>2 DEF PositionsAreDelivered, Contract!DeliveredUpTo, Keeps

\* Steps that touch neither the publisher nor the gate's account.
LEMMA QuietAccounts ==
  ASSUME Typed, Typed', Sound, UNCHANGED <<pubVars, acked, wal>>,
         gate'.handed = gate.handed, gate'.commits = gate.commits,
         skipped \subseteq skipped', committed' >= committed
  PROVE  /\ Keeps /\ AcksInOrder' /\ EventsAreChanges' /\ MessagesAreChanges'
         /\ CommitsAreAccounted' /\ QueueHasNoGaps'
<1> TypeOK /\ TypeOK' /\ IInv
  BY DEF Typed, Sound
<1> USE DEF IInv
<1>0. committed' \in Lsn
  BY DEF TypeOK
<1>1. UNCHANGED <<chan, cur, pub, ctxDone, stream, remembered>>
  BY DEF pubVars
<1>2. Queue' = Queue /\ Stored' = Stored /\ Halted' = Halted
  BY <1>1, QueueUnchanged DEF Stored, Halted
<1>3. Carries /\ Descends
  BY <1>2 DEF Carries, Descends
<1>4. Keeps
  BY <1>3, CarriesKeeps
<1>5. AcksInOrder'
  BY <1>1, <1>2 DEF AcksInOrder
<1>6. EventsAreChanges'
  BY <1>0, <1>3, EventsKept
<1>7. MessagesAreChanges'
  BY <1>0, <1>1, MessagesKept
<1>8. CommitsAreAccounted'
  BY <1>0, <1>4, CommitsKept
<1>9. QueueHasNoGaps'
  BY <1>3, <1>4, GapsKept DEF Descends
<1> QED BY <1>4, <1>5, <1>6, <1>7, <1>8, <1>9

-----------------------------------------------------------------------------
(***************************************************************************)
(* The publisher's steps.                                                  *)
(***************************************************************************)
PublisherFrame ==
  /\ UNCHANGED <<wal, committed, skipped, gate>>
  /\ TypeOK /\ TypeOK' /\ AcksInOrder /\ EventsAreChanges /\ MessagesAreChanges

PublisherGoal == Carries /\ Descends /\ AcksInOrder' /\ MessagesAreChanges'

\* Of the publisher's steps, those that do not store keep the messages.
LEMMA FrameMessages ==
  ASSUME PublisherFrame, stream' = stream, remembered' \subseteq remembered
  PROVE  MessagesAreChanges'
<1>1. committed \in 0 .. MaxLsn /\ committed' = committed
  BY DEF PublisherFrame, TypeOK, Lsn
<1>2. committed' \in Lsn /\ committed' >= committed
  BY SMTT(40), <1>1, MaxLsnAssumption DEF Lsn
<1> QED BY <1>2, MessagesKept DEF PublisherFrame, Typed

\* The goroutine or the connection moves on and the events stay.
LEMMA EventsStay ==
  ASSUME PublisherFrame, UNCHANGED <<chan, cur, stream, acked>>,
         remembered' \subseteq remembered, Halted => Halted',
         pub' = pub \/ (pub' \in {"loop", "wait"} /\ (pub' = "wait" => cur # NoEvent))
  PROVE  PublisherGoal
<1> USE DEF PublisherFrame
<1>1. Queue' = Queue
  BY QueueUnchanged
<1>2. Carries /\ Descends
  BY <1>1 DEF Carries, Descends, Stored
<1>3. AcksInOrder'
  BY <1>1 DEF AcksInOrder
<1>4. MessagesAreChanges'
  BY FrameMessages
<1> QED BY <1>2, <1>3, <1>4 DEF PublisherGoal

\* The goroutine returns and drops what it had: it acks no more.
LEMMA EventsDropped ==
  ASSUME PublisherFrame, Exit, UNCHANGED <<stream, remembered, acked, ctxDone>>
  PROVE  PublisherGoal
<1> USE DEF PublisherFrame
<1>1. Queue' = {} /\ Halted'
  BY QueueEmpty DEF Exit, Halted
<1>2. Carries /\ Descends
  BY <1>1 DEF Carries, Descends, Stored, AcksInOrder
<1>3. AcksInOrder'
  BY SMTT(40), <1>1 DEF AcksInOrder, Exit
<1>4. MessagesAreChanges'
  BY FrameMessages
<1> QED BY <1>2, <1>3, <1>4 DEF PublisherGoal

\* publishLoop takes the next event.
LEMMA EventTaken ==
  ASSUME PublisherFrame, Take, acked' = acked
  PROVE  PublisherGoal
<1> USE DEF PublisherFrame
<1>1. Queue' = Queue
  BY QueueTake DEF TypeOK
<1>2. Carries /\ Descends
  BY <1>1 DEF Carries, Descends, Stored, Take, Halted
<1>3. AcksInOrder'
  <2>1. /\ chan \in Seq(Event) /\ chan # <<>> /\ chan' = Tail(chan) /\ cur = NoEvent
        /\ cur' = IF IsPublishable(Head(chan)) THEN Head(chan) ELSE NoEvent
        /\ pub = "loop" /\ pub' = "loop"
    BY DEF Take, TypeOK, PubTypeOK
  <2>2. /\ Len(chan) \in Nat \ {0} /\ Len(chan') = Len(chan) - 1 /\ Head(chan) = chan[1]
        /\ \A k \in 1 .. Len(chan') : chan'[k] = chan[k + 1]
    BY SMTT(40), <2>1
  <2>3. \A j, k \in 1 .. Len(chan') :
          j < k /\ IsPublishable(chan'[j]) /\ IsPublishable(chan'[k]) => chan'[j].seq < chan'[k].seq
    <3> SUFFICES ASSUME NEW j \in 1 .. Len(chan'), NEW k \in 1 .. Len(chan'), j < k,
                        IsPublishable(chan'[j]), IsPublishable(chan'[k])
                 PROVE  chan'[j].seq < chan'[k].seq
      OBVIOUS
    <3>1. j + 1 \in 1 .. Len(chan) /\ k + 1 \in 1 .. Len(chan) /\ j + 1 < k + 1
      BY SMTT(40), <2>2
    <3>2. chan'[j] = chan[j + 1] /\ chan'[k] = chan[k + 1]
      BY <2>2
    <3> QED BY <3>1, <3>2 DEF AcksInOrder
  <2>4. \A k \in 1 .. Len(chan') : cur' # NoEvent /\ IsPublishable(chan'[k]) => cur'.seq < chan'[k].seq
    <3> SUFFICES ASSUME NEW k \in 1 .. Len(chan'), cur' # NoEvent, IsPublishable(chan'[k])
                 PROVE  cur'.seq < chan'[k].seq
      OBVIOUS
    <3>1. 1 \in 1 .. Len(chan) /\ k + 1 \in 1 .. Len(chan) /\ 1 < k + 1
      BY SMTT(40), <2>2
    <3>2. chan'[k] = chan[k + 1] /\ cur' = chan[1] /\ IsPublishable(chan[1])
      BY <2>1, <2>2
    <3> QED BY <3>1, <3>2 DEF AcksInOrder
  <2> HIDE DEF IsPublishable
  <2>5. cur' = NoEvent \/ IsPublishable(cur')
    BY <2>1
  <2> QED BY <1>1, <2>1, <2>3, <2>4, <2>5 DEF AcksInOrder
<1>4. MessagesAreChanges'
  BY FrameMessages DEF Take
<1> QED BY <1>2, <1>3, <1>4 DEF PublisherGoal

\* With nothing in hand, what is left is the buffer.
LEMMA HandEmptied ==
  ASSUME PublisherFrame, cur # NoEvent, cur' = NoEvent, chan' = chan
  PROVE  /\ cur \in Queue /\ Queue' \subseteq Queue
         /\ \A e \in Queue : e = cur \/ e \in Queue'
         /\ \A e \in Queue' : cur.seq < e.seq
<1> USE DEF PublisherFrame
<1> HIDE DEF IsPublishable
<1>1. cur \in Queue
  BY DEF AcksInOrder, Queue
<1>2. ~IsPublishable(NoEvent)
  BY KindFacts
<1>3. /\ \A e \in Queue' : IsPublishable(e) /\ \E k \in 1 .. Len(chan) : e = chan[k]
      /\ Queue' \subseteq Queue
  BY <1>2 DEF Queue
<1>4. \A e \in Queue : e = cur \/ e \in Queue'
  BY DEF Queue
<1>5. \A e \in Queue' : cur.seq < e.seq
  BY <1>3 DEF AcksInOrder
<1> QED BY <1>1, <1>3, <1>4, <1>5

\* Acks stay in hand-off order when the publisher is done with an event.
LEMMA HandEmptiedOrder ==
  ASSUME PublisherFrame, cur # NoEvent, cur' = NoEvent, chan' = chan, pub' = "loop",
         acked' \in Nat, acked' <= gate.handed, \A e \in Queue' : acked' < e.seq
  PROVE  AcksInOrder'
<1> USE DEF PublisherFrame
<1>1. Queue' \subseteq Queue
  BY HandEmptied
<1> QED BY <1>1 DEF AcksInOrder

\* The broker acks the event and the gate observes it.
LEMMA EventAcked ==
  ASSUME SetLaws, PublisherFrame, PublishAcked, acked' = ObservePublished(acked, cur.seq)
  PROVE  PublisherGoal
<1> USE DEF PublisherFrame
<1>0. /\ cur # NoEvent /\ cur' = NoEvent /\ chan' = chan /\ pub = "loop" /\ pub' = "loop"
      /\ ~ctxDone /\ Store(cur)
  BY DEF PublishAcked, CanSend, Publishing
<1>1. /\ cur \in Queue /\ Queue' \subseteq Queue
      /\ \A e \in Queue : e = cur \/ e \in Queue'
      /\ \A e \in Queue' : cur.seq < e.seq
  BY <1>0, HandEmptied
<1>2. Stored' = Stored \cup {cur.change} /\ MessagesAreChanges'
  BY <1>0, <1>1, StoreFacts DEF Typed
<1>3. acked' = cur.seq /\ cur.seq \in Nat /\ cur.seq <= gate.handed
  <2>1. acked \in Nat /\ cur.seq \in Nat /\ acked < cur.seq /\ cur.seq <= gate.handed
    BY <1>1, QueueType DEF AcksInOrder, TypeOK
  <2> QED BY <2>1, ObserveFacts
<1>4. ~Halted
  BY <1>0 DEF Halted
<1>5. Carries
  BY <1>1, <1>2, <1>4 DEF Carries
<1>6. Descends
  BY <1>1 DEF Descends
<1>7. AcksInOrder'
  BY <1>0, <1>1, <1>3, HandEmptiedOrder
<1> QED BY <1>2, <1>5, <1>6, <1>7 DEF PublisherGoal

\* The broker stores the event and the ack is lost.
LEMMA EventStoredUnacked ==
  ASSUME SetLaws, PublisherFrame, PublishAckLost, acked' = acked
  PROVE  PublisherGoal
<1> USE DEF PublisherFrame
<1>1. /\ cur # NoEvent /\ UNCHANGED <<chan, cur, pub, ctxDone>> /\ Store(cur)
  BY DEF PublishAckLost, CanSend, Publishing
<1>2. cur \in Queue /\ Queue' = Queue
  BY <1>1, QueueUnchanged DEF AcksInOrder, Queue
<1>3. Stored' = Stored \cup {cur.change} /\ MessagesAreChanges'
  BY <1>1, <1>2, StoreFacts DEF Typed
<1>4. Carries /\ Descends
  BY <1>1, <1>2, <1>3 DEF Carries, Descends, Halted
<1>5. AcksInOrder'
  BY <1>1, <1>2 DEF AcksInOrder
<1> QED BY <1>3, <1>4, <1>5 DEF PublisherGoal

\* A change that is given up was never owed: it fits in no form.
LEMMA EventTooLarge ==
  ASSUME PublisherFrame, PublishTooLarge, acked' = acked
  PROVE  PublisherGoal
<1> USE DEF PublisherFrame
<1>0. /\ cur # NoEvent /\ chan' = chan /\ pub = "loop" /\ pub' = "loop" /\ ~Fits(cur)
      /\ UNCHANGED <<stream, remembered, ctxDone>>
  BY DEF PublishTooLarge, CanSend, Publishing
<1>1. MessagesAreChanges'
  BY <1>0, FrameMessages
<1>2. cur \in Queue /\ IsPublishable(cur) /\ cur \in Event
  BY <1>0, QueueType DEF AcksInOrder, Queue, TypeOK
<1>3. CASE cur.form = "stripped"
  <2>1. cur' = NoEvent
    BY <1>3 DEF PublishTooLarge
  <2>2. /\ Queue' \subseteq Queue /\ \A e \in Queue : e = cur \/ e \in Queue'
    BY <1>0, <2>1, HandEmptied
  <2>3. cur.kind \notin Deliverable
    <3>1. cur.kind \in {"row", "large", "wide", "huge", "marker"}
      BY <1>2, KindFacts DEF Event
    <3> QED BY SMTT(40), <1>0, <1>3, <3>1 DEF Fits, Fitting, Form, Deliverable
  <2>4. ~Contract!Owed(cur.change[1], cur.change[2])
    BY <1>2, <2>3 DEF EventsAreChanges, Contract!Owed
  <2>5. Carries /\ Descends
    BY <1>0, <2>2, <2>4 DEF Carries, Descends, Stored, Halted
  <2>6. acked' \in Nat /\ acked' <= gate.handed /\ \A e \in Queue' : acked' < e.seq
    BY <2>2 DEF AcksInOrder, TypeOK
  <2>7. AcksInOrder'
    BY <1>0, <2>1, <2>6, HandEmptiedOrder
  <2> QED BY <1>1, <2>5, <2>7 DEF PublisherGoal
<1>4. CASE cur.form # "stripped"
  <2>1. cur'.seq = cur.seq /\ cur'.id = cur.id /\ cur'.change = cur.change /\ cur'.kind = cur.kind
    BY <1>2, <1>4, SmallerType DEF PublishTooLarge
  <2>2. IsPublishable(cur') /\ cur' # NoEvent
    BY SMTT(40), <1>2, <2>1 DEF IsPublishable, NoEvent
  <2>3. /\ \A f \in Queue' : f = cur' \/ f \in Queue
        /\ \A e \in Queue : e = cur \/ e \in Queue'
        /\ cur' \in Queue'
    BY <1>0, <2>2 DEF Queue
  <2>4. Carries /\ Descends
    BY <1>0, <1>2, <2>1, <2>3 DEF Carries, Descends, Stored, Halted
  <2>5. AcksInOrder'
    BY <1>0, <1>2, <2>1, <2>2, <2>3 DEF AcksInOrder
  <2> QED BY <1>1, <2>4, <2>5 DEF PublisherGoal
<1> QED BY <1>3, <1>4

\* The context ends the attempt: no ack will follow.
LEMMA EventCancelled ==
  ASSUME PublisherFrame, PublishCancelled, acked' = acked
  PROVE  PublisherGoal
<1> USE DEF PublisherFrame
<1>0. /\ cur # NoEvent /\ cur' = NoEvent /\ chan' = chan /\ pub' = "loop"
      /\ ctxDone /\ UNCHANGED <<stream, remembered, ctxDone>>
  BY DEF PublishCancelled
<1>1. MessagesAreChanges'
  BY <1>0, FrameMessages
<1>2. cur \in Queue /\ Queue' \subseteq Queue /\ \A e \in Queue : e = cur \/ e \in Queue'
  BY <1>0, HandEmptied
<1>3. Halted'
  BY <1>0 DEF Halted
<1>4. \A e \in Queue : acked' < e.seq
  BY DEF AcksInOrder
<1>5. Carries /\ Descends
  BY <1>0, <1>2, <1>3, <1>4 DEF Carries, Descends, Stored
<1>6. acked' \in Nat /\ acked' <= gate.handed /\ \A e \in Queue' : acked' < e.seq
  BY <1>2, <1>4 DEF AcksInOrder, TypeOK
<1>7. AcksInOrder'
  BY <1>0, <1>6, HandEmptiedOrder
<1> QED BY <1>1, <1>5, <1>7 DEF PublisherGoal

\* Every step of the publisher and its environment keeps the account.
LEMMA PublisherKeeps ==
  ASSUME SetLaws, PublisherFrame,
         \/ PublishAcked /\ acked' = ObservePublished(acked, cur.seq)
         \/ /\ acked' = acked
            /\ \/ PublisherStep \/ NatsConnect \/ NatsDisconnect \/ NatsClosed
               \/ CancelContext \/ \E id \in remembered : WindowExpires(id)
  PROVE  PublisherGoal
<1>1. CASE PublishAcked /\ acked' = ObservePublished(acked, cur.seq)
  BY <1>1, EventAcked
<1> SUFFICES ASSUME acked' = acked,
                    \/ PublisherStep \/ NatsConnect \/ NatsDisconnect \/ NatsClosed
                    \/ CancelContext \/ \E id \in remembered : WindowExpires(id)
             PROVE  PublisherGoal
  BY <1>1
<1>2. CASE AwaitStream \/ PublishDisconnected \/ WaitOver
  BY SMTT(40), <1>2, EventsStay DEF AwaitStream, PublishDisconnected, WaitOver, Publishing, Halted
<1>3. CASE NatsConnect \/ NatsDisconnect \/ NatsClosed \/ CancelContext
  BY SMTT(40), <1>3, EventsStay DEF NatsConnect, NatsDisconnect, NatsClosed, CancelContext, Halted
<1>4. CASE \E id \in remembered : WindowExpires(id)
  <2>1. remembered' \subseteq remembered /\ UNCHANGED <<chan, cur, pub, ctxDone, stream>>
    BY <1>4 DEF WindowExpires
  <2> QED BY <2>1, EventsStay DEF Halted
<1>5. CASE AwaitFatal \/ LoopCancelled \/ WaitClosed
  BY <1>5, EventsDropped DEF AwaitFatal, LoopCancelled, WaitClosed
<1>6. CASE Take
  BY <1>6, EventTaken
<1>7. CASE PublishAckLost
  BY <1>7, EventStoredUnacked
<1>8. CASE PublishTooLarge
  BY <1>8, EventTooLarge
<1>9. CASE PublishCancelled
  BY <1>9, EventCancelled
<1> QED BY <1>2, <1>3, <1>4, <1>5, <1>6, <1>7, <1>8, <1>9 DEF PublisherStep

-----------------------------------------------------------------------------
(***************************************************************************)
(* The slot.                                                               *)
(***************************************************************************)
\* A slot created anew skips what is between the old position and its own.
LEMMA CreateSlotFacts ==
  ASSUME Typed, PositionsAreDelivered, Keeps, CreateSlot, committed' = committed
  PROVE  /\ slot'.confirmed <= committed'
         /\ \A u \in 1 .. slot'.confirmed : \A i \in DOMAIN wal[u] :
              Contract!Owed(u, i)' => <<u, i>> \in Stored'
<1> TypeOK
  BY DEF Typed
<1>1. committed \in 0 .. MaxLsn /\ slot.confirmed \in 0 .. MaxLsn
  BY DEF TypeOK, Lsn
<1>2. slot'.confirmed = committed /\ skipped' = skipped \cup ((slot.confirmed + 1) .. committed)
  BY DEF CreateSlot
<1>3. slot'.confirmed <= committed'
  BY SMTT(40), <1>1, <1>2, MaxLsnAssumption
<1>4. ASSUME NEW u \in 1 .. committed, NEW i \in DOMAIN wal[u], Contract!Owed(u, i)'
      PROVE  <<u, i>> \in Stored'
  <2>1. u \notin skipped' /\ Contract!Owed(u, i)
    BY <1>4 DEF Keeps, Contract!Owed
  <2>2. u \in 1 .. slot.confirmed
    BY SMTT(40), <1>1, <1>2, <2>1, MaxLsnAssumption
  <2>3. <<u, i>> \in Stored
    BY <2>1, <2>2 DEF PositionsAreDelivered, Contract!DeliveredUpTo
  <2> QED BY <2>3 DEF Keeps
<1> QED BY <1>2, <1>3, <1>4

\* The primary moves the slot to a reported position, or not at all.
LEMMA SlotAdvancesFacts ==
  ASSUME SetLaws, Typed, PositionsAreDelivered, Keeps, SlotAdvances
  PROVE  /\ slot'.confirmed <= committed'
         /\ \A u \in 1 .. slot'.confirmed : \A i \in DOMAIN wal[u] :
              Contract!Owed(u, i)' => <<u, i>> \in Stored'
<1> TypeOK
  BY DEF Typed
<1>1. slot.confirmed \in Lsn /\ status \in Lsn /\ committed' = committed
  BY DEF TypeOK, SlotAdvances, dbVars
<1>2. slot'.confirmed = Max({slot.confirmed, status})
  BY DEF SlotAdvances, TypeOK
<1>3. slot'.confirmed = slot.confirmed \/ slot'.confirmed = status
  BY <1>1, <1>2, MaxOfTwo
<1>4. CASE slot'.confirmed = slot.confirmed
  BY <1>1, <1>4 DEF PositionsAreDelivered, Contract!DeliveredUpTo, Keeps
<1>5. CASE slot'.confirmed = status
  BY <1>1, <1>5 DEF PositionsAreDelivered, Contract!DeliveredUpTo, Keeps
<1> QED BY <1>3, <1>4, <1>5

-----------------------------------------------------------------------------
(***************************************************************************)
(* Steps of the publisher, of the database and of the process.             *)
(***************************************************************************)
LEMMA PublisherStepKeeps ==
  ASSUME SetLaws, Typed, Typed', Sound, PublishAndObserve \/ PublisherRuns \/ NatsChanges \/ Shutdown \/ WindowMoves
  PROVE  Sound'
<1> SUFFICES ASSUME TypeOK, TypeOK', IInv
             PROVE  IInv'
  BY DEF Typed, Sound
<1>1. /\ UNCHANGED <<wal, committed, skipped, gate, sess, txnIndex, proc, slot, status>>
      /\ \/ PublishAcked /\ acked' = ObservePublished(acked, cur.seq)
         \/ /\ acked' = acked
            /\ \/ PublisherStep \/ NatsConnect \/ NatsDisconnect \/ NatsClosed
               \/ CancelContext \/ \E id \in remembered : WindowExpires(id)
  BY DEF PublishAndObserve, PublisherRuns, NatsChanges, Shutdown, WindowMoves, listenerVars, dbVars
<1>2. PublisherFrame
  BY <1>1 DEF IInv, PublisherFrame
<1>3. Carries /\ Descends /\ AcksInOrder' /\ MessagesAreChanges'
  BY <1>1, <1>2, PublisherKeeps DEF PublisherGoal
<1>4. Keeps
  BY <1>3, CarriesKeeps
<1>5. committed' \in Lsn /\ committed' >= committed
  <2>1. committed \in 0 .. MaxLsn
    BY DEF TypeOK, Lsn
  <2> QED BY SMTT(40), <1>1, <2>1, MaxLsnAssumption DEF Lsn
<1>6. EventsAreChanges'
  BY <1>1, <1>3, <1>5, EventsKept DEF IInv
<1>7. proc' = "down" => ~ctxDone' /\ pub' = "await"
  <2>1. CASE proc = "up"
    BY <1>1, <2>1
  <2>2. CASE proc # "up"
    <3>1. \E id \in remembered : WindowExpires(id)
      BY <2>2 DEF PublishAndObserve, PublisherRuns, NatsChanges, Shutdown, WindowMoves
    <3>2. UNCHANGED <<pub, ctxDone>>
      BY <3>1 DEF WindowExpires
    <3> QED BY <1>1, <3>2 DEF IInv, SessionIsSound
  <2> QED BY <2>1, <2>2
<1>8. SessionIsSound'
  BY <1>1, <1>5, <1>7, SessionKept DEF IInv
<1>9. StreamedIsAccounted'
  BY <1>1, <1>4, StreamedKept DEF IInv
<1>10. CommitsAreAccounted'
  BY <1>1, <1>4, <1>5, CommitsKept DEF IInv
<1>11. PositionsAreDelivered'
  BY <1>1, <1>4, <1>5, SlotKept, PositionsKept DEF IInv
<1>12. QueueHasNoGaps'
  BY <1>3, <1>4, GapsKept DEF IInv, Descends
<1> QED BY <1>3, <1>6, <1>8, <1>9, <1>10, <1>11, <1>12 DEF IInv

\* The database moves, or the process or the listener opens or loses a slot or
\* a connection.
LEMMA QuietStepKeeps ==
  ASSUME SetLaws, Typed, Typed', Sound,
         \/ DbCommit \/ SlotAdvances \/ SlotLost \/ StartProcess
         \/ RecreateDrop \/ RecreateCreate \/ DropConnection
  PROVE  Sound'
<1> SUFFICES ASSUME TypeOK, TypeOK', IInv
             PROVE  IInv'
  BY DEF Typed, Sound
<1> USE DEF IInv
<1>1. /\ UNCHANGED <<pubVars, acked, wal, gate, txnIndex>> /\ UNCHANGED <<pub, ctxDone>>
      /\ status' \in {status, 0}
      /\ proc' = "down" => proc = "down"
      /\ sess' = NoSession \/ (sess' = sess /\ proc' = proc)
  <2>1. CASE StartProcess
    <3>1. sess' = NoSession
      BY <2>1 DEF StartProcess, SessionIsSound
    <3> QED BY <2>1, <3>1 DEF StartProcess, gateVars, dbVars, pubVars
  <2>2. CASE DbCommit
    BY <2>2 DEF DbCommit, gateVars, pubVars
  <2>3. CASE SlotAdvances \/ SlotLost
    BY <2>3 DEF SlotAdvances, SlotLost, gateVars, dbVars, pubVars
  <2>4. CASE RecreateDrop \/ RecreateCreate \/ DropConnection
    BY <2>4 DEF RecreateDrop, RecreateCreate, DropConnection, gateVars, dbVars, pubVars
  <2> QED BY <2>1, <2>2, <2>3, <2>4
<1>2. committed' \in Lsn /\ committed' >= committed
  <2>1. committed \in 0 .. MaxLsn
    BY DEF TypeOK, Lsn
  <2>2. committed' = committed \/ committed' = committed + 1
    BY DEF DbCommit, SlotAdvances, SlotLost, StartProcess, RecreateDrop, RecreateCreate,
           DropConnection, dbVars
  <2> QED BY SMTT(40), <2>1, <2>2, MaxLsnAssumption DEF TypeOK
<1>3. skipped \subseteq skipped'
  BY DEF DbCommit, SlotAdvances, SlotLost, StartProcess, RecreateDrop, RecreateCreate,
         DropConnection, CreateSlot
<1>4. /\ Keeps /\ AcksInOrder' /\ EventsAreChanges' /\ MessagesAreChanges'
      /\ CommitsAreAccounted' /\ QueueHasNoGaps'
  BY <1>1, <1>2, <1>3, QuietAccounts
<1>5. StreamedIsAccounted'
  BY SMTT(40), <1>1, <1>4, StreamedKept DEF NoSession
<1>6. SessionIsSound'
  <2>1. proc' = "down" => ~ctxDone' /\ pub' = "await"
    BY <1>1 DEF SessionIsSound
  <2> QED BY <1>1, <1>2, <2>1, SessionKept
<1>7. /\ slot'.confirmed <= committed'
      /\ \A u \in 1 .. slot'.confirmed : \A i \in DOMAIN wal[u] :
           Contract!Owed(u, i)' => <<u, i>> \in Stored'
  <2>1. CASE slot'.confirmed = slot.confirmed
    BY <1>2, <1>4, <2>1, SlotKept
  <2>2. CASE SlotAdvances
    BY <1>4, <2>2, SlotAdvancesFacts
  <2>3. CASE CreateSlot /\ committed' = committed
    BY <1>4, <2>3, CreateSlotFacts
  <2>4. slot'.confirmed = slot.confirmed \/ SlotAdvances \/ (CreateSlot /\ committed' = committed)
    <3>1. CASE SlotLost \/ RecreateDrop
      BY <3>1 DEF SlotLost, RecreateDrop, TypeOK
    <3>2. CASE DbCommit \/ DropConnection
      BY <3>2 DEF DbCommit, DropConnection
    <3>3. CASE StartProcess \/ RecreateCreate
      BY <3>3 DEF StartProcess, RecreateCreate, dbVars
    <3> QED BY <3>1, <3>2, <3>3
  <2> QED BY <2>1, <2>2, <2>3, <2>4
<1>8. PositionsAreDelivered'
  BY <1>1, <1>2, <1>4, <1>7, PositionsKept
<1> QED BY <1>4, <1>5, <1>6, <1>8

\* A new session starts at the slot's position, which is delivered.
LEMMA StartStreamingKeeps ==
  ASSUME Typed, Typed', Sound, StartStreaming
  PROVE  Sound'
<1> SUFFICES ASSUME TypeOK, TypeOK', IInv
             PROVE  IInv'
  BY DEF Typed, Sound
<1> USE DEF IInv
<1>1. /\ UNCHANGED <<pubVars, acked, wal, committed, slot, proc, skipped>>
      /\ proc = "up" /\ gate' = NewSession(gate) /\ status' = 0
      /\ sess' = [up |-> TRUE, sent |-> slot.confirmed, at |-> 0]
  BY DEF StartStreaming, Listening, dbVars, pubVars
<1>2. gate \in Gate /\ committed \in 0 .. MaxLsn /\ slot.confirmed \in 0 .. MaxLsn
  BY DEF TypeOK, Lsn
<1>3. gate'.handed = gate.handed /\ gate'.commits = gate.commits /\ gate'.confirmable = gate.confirmable
  BY <1>1, <1>2, FieldFacts
<1>4. committed' \in Lsn /\ committed' >= committed
  BY SMTT(40), <1>1, <1>2, MaxLsnAssumption DEF Lsn
<1>5. /\ Keeps /\ AcksInOrder' /\ EventsAreChanges' /\ MessagesAreChanges'
      /\ CommitsAreAccounted' /\ QueueHasNoGaps'
  <2>1. UNCHANGED <<pubVars, acked, wal>> /\ skipped \subseteq skipped'
    BY <1>1
  <2> HIDE DEF IInv
  <2> QED BY <1>3, <1>4, <2>1, QuietAccounts
<1>6. PositionsAreDelivered'
  <2>1. slot'.confirmed = slot.confirmed /\ status' \in {status, 0}
    BY <1>1
  <2>2. PositionsAreDelivered
    OBVIOUS
  <2> HIDE DEF IInv
  <2>3. /\ slot'.confirmed <= committed'
        /\ \A u \in 1 .. slot'.confirmed : \A i \in DOMAIN wal[u] :
             Contract!Owed(u, i)' => <<u, i>> \in Stored'
    BY <1>4, <1>5, <2>1, <2>2, SlotKept
  <2> QED BY <1>3, <1>4, <1>5, <2>1, <2>2, <2>3, PositionsKept
<1>7. SessionIsSound'
  BY <1>1, <1>2 DEF SessionIsSound, PositionsAreDelivered
<1>8. StreamedIsAccounted'
  <2>1. sess'.sent = slot'.confirmed /\ sess'.at = 0
    BY <1>1
  <2>2. \A t \in 1 .. slot'.confirmed : \A i \in DOMAIN wal'[t] :
          Contract!Owed(t, i)' => <<t, i>> \in Stored'
    BY <1>6 DEF PositionsAreDelivered, Contract!DeliveredUpTo
  <2>3. \A t \in 1 .. sess'.sent : \A i \in DOMAIN wal'[t] :
          Contract!Owed(t, i)' => Accounted(t, i, gate.handed)'
    BY <2>1, <2>2 DEF Accounted
  <2>4. 1 .. sess'.at - 1 = {}
    BY SMTT(40), <2>1
  <2> QED BY <2>3, <2>4 DEF StreamedIsAccounted
<1> QED BY <1>5, <1>6, <1>7, <1>8

\* A process that ends takes queue and gate with it; the slot stays delivered.
LEMMA EndProcessKeeps ==
  ASSUME Typed, Typed', Sound, EndProcess
  PROVE  Sound'
<1> SUFFICES ASSUME TypeOK, TypeOK', IInv
             PROVE  IInv'
  BY DEF Typed, Sound
<1> USE DEF IInv
<1>1. /\ UNCHANGED <<wal, committed, slot, status, skipped, stream, remembered>>
      /\ chan' = <<>> /\ cur' = NoEvent /\ pub' = "await" /\ ctxDone' = FALSE
      /\ acked' = 0 /\ gate' = newAckGate /\ sess' = NoSession /\ proc' = "down"
  BY DEF EndProcess, PubEnds, dbVars
<1>2. gate'.handed = 0 /\ gate'.commits = <<>> /\ gate'.confirmable = 0
  BY <1>1 DEF newAckGate
<1>3. Queue' = {} /\ Stored' = Stored
  BY <1>1, QueueEmpty DEF Stored
<1>4. committed' \in Lsn /\ committed' >= committed
  <2>1. committed \in 0 .. MaxLsn
    BY DEF TypeOK, Lsn
  <2> QED BY SMTT(40), <1>1, <2>1, MaxLsnAssumption DEF Lsn
<1>5. AcksInOrder' /\ EventsAreChanges' /\ QueueHasNoGaps'
  <2>1. AcksInOrder'
    BY SMTT(40), <1>1, <1>2, <1>3 DEF AcksInOrder
  <2>2. EventsAreChanges' /\ QueueHasNoGaps'
    BY <1>3 DEF EventsAreChanges, QueueHasNoGaps
  <2> QED BY <2>1, <2>2
<1>6. MessagesAreChanges'
  BY <1>1, <1>4, MessagesKept
<1>7. SessionIsSound'
  BY <1>1, <1>4, SessionKept
<1>8. StreamedIsAccounted' /\ CommitsAreAccounted'
  <2>1. ~sess'.up
    BY <1>1 DEF NoSession
  <2>2. 1 .. Len(gate'.commits) = {}
    BY SMTT(40), <1>2
  <2> QED BY <2>1, <2>2 DEF StreamedIsAccounted, CommitsAreAccounted
<1>9. PositionsAreDelivered'
  <2>1. Contract!DeliveredUpTo(status)' /\ Contract!DeliveredUpTo(slot.confirmed)'
    BY <1>1, <1>3 DEF PositionsAreDelivered, Contract!DeliveredUpTo, Contract!Owed
  <2>2. Contract!DeliveredUpTo(gate.confirmable)'
    BY SMTT(40), <1>2 DEF Contract!DeliveredUpTo
  <2>3. gate'.confirmable <= committed' /\ status' <= committed' /\ slot'.confirmed <= committed'
    BY SMTT(40), <1>1, <1>2, MaxLsnAssumption DEF PositionsAreDelivered, TypeOK, Lsn
  <2> QED BY <2>1, <2>2, <2>3 DEF PositionsAreDelivered
<1> QED BY <1>5, <1>6, <1>7, <1>8, <1>9

=============================================================================
