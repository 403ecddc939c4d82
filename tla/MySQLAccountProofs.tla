------------------------- MODULE MySQLAccountProofs -------------------------
(***************************************************************************)
(* Facts about MySQLPipeline, for every log, every capacity of the bus and *)
(* any number of failures: what the operators of the commit gate return,   *)
(* where binlog positions lie, which ids rows have, type correctness, the  *)
(* initial state, the account of every row between the binlog and the      *)
(* stream, and, conjunct by conjunct of MySQLInvariant, what it takes to   *)
(* keep it.                                                                *)
(***************************************************************************)
EXTENDS MySQLInvariant, PublisherProofs

\* The prover of the leaves that name none, and its time limit.
USE ZenonT(40)

\* What the lemmas assume and conclude.  Opaque: a leaf that expands TypeOK or IInv
\* would otherwise expand them in the statement of every lemma before it.
Typed == TypeOK
Sound == IInv

-----------------------------------------------------------------------------
(***************************************************************************)
(* The commit gate.                                                        *)
(***************************************************************************)
GateEntry == [lastHanded : Nat, pos : BinlogPosition]

\* The fields of a gate and of its entries.
LEMMA GateFields ==
  ASSUME NEW g \in CommitGateType
  PROVE  /\ g.handed \in Nat /\ g.commits \in Seq(GateEntry) /\ g.confirmable \in BinlogPosition
         /\ Len(g.commits) \in Nat
         /\ \A k \in 1 .. Len(g.commits) :
              g.commits[k].lastHanded \in Nat /\ g.commits[k].pos \in BinlogPosition
<1>1. g.handed \in Nat /\ g.commits \in Seq(GateEntry) /\ g.confirmable \in BinlogPosition
  BY DEF CommitGateType, GateEntry
<1>2. Len(g.commits) \in Nat /\ \A k \in 1 .. Len(g.commits) : g.commits[k] \in GateEntry
  BY SMTT(40), <1>1
<1> QED BY <1>1, <1>2 DEF GateEntry

\* The loop of Confirmable stops after some prefix of acked entries.
LEMMA SettledPrefixExists ==
  ASSUME SetLaws, NEW g \in CommitGateType, NEW acks \in Nat
  PROVE  /\ SettledPrefix(g, acks) \in 0 .. Len(g.commits)
         /\ \A k \in 1 .. SettledPrefix(g, acks) : g.commits[k].lastHanded <= acks
<1> DEFINE Waits(n) == /\ \A k \in 1 .. n : g.commits[k].lastHanded <= acks
                       /\ n < Len(g.commits) => g.commits[n + 1].lastHanded > acks
           T == {k \in 1 .. Len(g.commits) : g.commits[k].lastHanded > acks}
<1>1. Len(g.commits) \in Nat /\ \A k \in 1 .. Len(g.commits) : g.commits[k].lastHanded \in Nat
  BY GateFields
<1>2. \E n \in 0 .. Len(g.commits) : Waits(n)
  <2>1. CASE T = {}
    <3>1. \A k \in 1 .. Len(g.commits) : g.commits[k].lastHanded <= acks
      BY SMTT(40), <2>1, <1>1
    <3>2. Waits(Len(g.commits))
      BY SMTT(40), <1>1, <3>1
    <3> QED BY SMTT(40), <1>1, <3>2
  <2>2. CASE T # {}
    <3>1. PICK x \in T : \A y \in T : x <= y
      <4>1. T \in SUBSET Nat
        BY SMTT(40)
      <4> HIDE DEF T
      <4> QED BY <4>1, <2>2, LeastElement
    <3>2. \A k \in 1 .. x - 1 : g.commits[k].lastHanded <= acks
      BY SMTT(40), <3>1, <1>1
    <3>3. x - 1 \in 0 .. Len(g.commits) /\ Waits(x - 1)
      BY SMTT(40), <1>1, <3>1, <3>2
    <3> QED BY <3>3
  <2> QED BY <2>1, <2>2
<1> HIDE DEF Waits
<1>3. SettledPrefix(g, acks) = CHOOSE n \in 0 .. Len(g.commits) : Waits(n)
  BY DEF SettledPrefix, Waits
<1>4. SettledPrefix(g, acks) \in 0 .. Len(g.commits) /\ Waits(SettledPrefix(g, acks))
  BY <1>2, <1>3
<1> QED BY <1>4 DEF Waits

\* Confirmable drops a prefix of acked entries and takes the last one's position.
LEMMA ConfirmableFacts ==
  ASSUME SetLaws, NEW g \in CommitGateType, NEW acks \in Nat
  PROVE  LET s == Confirmable(g, acks)
         IN  /\ s \in CommitGateType /\ s.handed = g.handed
             /\ \E n \in 0 .. Len(g.commits) :
                  /\ \A k \in 1 .. n : g.commits[k].lastHanded <= acks
                  /\ Len(s.commits) = Len(g.commits) - n
                  /\ \A k \in 1 .. Len(s.commits) : s.commits[k] = g.commits[k + n]
                  /\ n = 0 => s.confirmable = g.confirmable
                  /\ n # 0 => s.confirmable = g.commits[n].pos
<1> DEFINE n == SettledPrefix(g, acks)
           s == Confirmable(g, acks)
           rest == SubSeq(g.commits, n + 1, Len(g.commits))
           p == IF n = 0 THEN g.confirmable ELSE g.commits[n].pos
<1>1. n \in 0 .. Len(g.commits) /\ \A k \in 1 .. n : g.commits[k].lastHanded <= acks
  BY SettledPrefixExists
<1>2. s = [g EXCEPT !.commits = rest, !.confirmable = p]
  BY DEF Confirmable
<1> HIDE DEF n
<1>3. /\ g.commits \in Seq(GateEntry) /\ g.confirmable \in BinlogPosition /\ Len(g.commits) \in Nat
      /\ \A k \in 1 .. Len(g.commits) : g.commits[k].pos \in BinlogPosition
  BY GateFields
<1>4. p \in BinlogPosition
  BY SMTT(40), <1>1, <1>3
<1>5. /\ rest \in Seq(GateEntry) /\ Len(rest) = Len(g.commits) - n
      /\ \A k \in 1 .. Len(rest) : rest[k] = g.commits[k + n]
  BY SMTT(40), <1>1, <1>3
<1> HIDE DEF p, rest
<1>6. s \in CommitGateType /\ s.handed = g.handed /\ s.commits = rest /\ s.confirmable = p
  BY <1>2, <1>4, <1>5 DEF CommitGateType, GateEntry
<1> HIDE DEF s
<1>7. /\ n = 0 => s.confirmable = g.confirmable
      /\ n # 0 => s.confirmable = g.commits[n].pos
  BY <1>6 DEF p
<1> QED BY <1>1, <1>5, <1>6, <1>7 DEF s

\* Committed ends the entries with one for the count handed; a place nothing can
\* resume from is ignored.
LEMMA CommittedFacts ==
  ASSUME NEW g \in CommitGateType, NEW p \in BinlogPosition, Resumable(p)
  PROVE  LET c == Committed(g, p)
             last == Len(c.commits)
         IN  /\ c \in CommitGateType /\ c.handed = g.handed /\ c.confirmable = g.confirmable
             /\ last \in {Len(g.commits), Len(g.commits) + 1} /\ last > 0
             /\ \A k \in 1 .. last - 1 : c.commits[k] = g.commits[k]
             /\ c.commits[last].lastHanded = g.handed /\ c.commits[last].pos = p
             /\ last = Len(g.commits) => g.commits[last].lastHanded = g.handed
             /\ last = Len(g.commits) + 1 /\ Len(g.commits) > 0
                  => g.commits[Len(g.commits)].lastHanded # g.handed
<1> DEFINE m == Len(g.commits)
           c == Committed(g, p)
           entry == [lastHanded |-> g.handed, pos |-> p]
<1>1. g.commits \in Seq(GateEntry) /\ g.handed \in Nat /\ m \in Nat
  BY GateFields
<1>2. entry \in GateEntry /\ entry.lastHanded = g.handed /\ entry.pos = p
  BY <1>1 DEF GateEntry
<1>3. CASE m > 0 /\ g.commits[m].lastHanded = g.handed
  <2> DEFINE new == [g.commits EXCEPT ![m] = entry]
  <2>1. c = [g EXCEPT !.commits = new]
    BY <1>3 DEF Committed
  <2> HIDE DEF entry
  <2>2. /\ new \in Seq(GateEntry) /\ Len(new) = m /\ new[m] = entry
        /\ \A k \in 1 .. m - 1 : new[k] = g.commits[k]
    BY SMTT(40), <1>1, <1>2, <1>3
  <2> HIDE DEF new
  <2>3. /\ c \in CommitGateType /\ c.commits = new
        /\ c.handed = g.handed /\ c.confirmable = g.confirmable
    BY <2>1, <2>2 DEF CommitGateType, GateEntry
  <2> QED BY SMTT(40), <1>2, <1>3, <2>2, <2>3
<1>4. CASE ~(m > 0 /\ g.commits[m].lastHanded = g.handed)
  <2> DEFINE new == Append(g.commits, entry)
  <2>1. c = [g EXCEPT !.commits = new]
    BY <1>4 DEF Committed
  <2> HIDE DEF entry
  <2>2. /\ new \in Seq(GateEntry) /\ Len(new) = m + 1 /\ new[m + 1] = entry
        /\ \A k \in 1 .. m : new[k] = g.commits[k]
    BY SMTT(40), <1>1, <1>2
  <2> HIDE DEF new
  <2>3. /\ c \in CommitGateType /\ c.commits = new
        /\ c.handed = g.handed /\ c.confirmable = g.confirmable
    BY <2>1, <2>2 DEF CommitGateType, GateEntry
  <2> QED BY SMTT(40), <1>1, <1>2, <1>4, <2>2, <2>3
<1> QED BY <1>3, <1>4

\* Hand counts one event more.
LEMMA HandFacts ==
  ASSUME NEW g \in CommitGateType
  PROVE  /\ Hand(g) \in CommitGateType /\ Hand(g).handed = g.handed + 1
         /\ Hand(g).commits = g.commits /\ Hand(g).confirmable = g.confirmable
BY SMTT(40) DEF CommitGateType, Hand

-----------------------------------------------------------------------------
(***************************************************************************)
(* Binlog positions.                                                       *)
(***************************************************************************)
LogType == binlog \in [1 .. MaxEntries -> Entries]

\* Multiples of a width are a width apart.
LEMMA Apart ==
  ASSUME NEW w \in Nat, NEW a \in Nat, NEW b \in Nat, a < b
  PROVE  w * a + w <= w * b
<1>1. w * (a + 1) = w * a + w
  BY SMTT(40)
<1>2. PICK d \in Nat : b = (a + 1) + d
  <2>1. b - (a + 1) \in Nat /\ b = (a + 1) + (b - (a + 1))
    BY SMTT(40)
  <2> QED BY <2>1
<1>3. w * b = w * (a + 1) + w * d
  BY SMTT(40), <1>2
<1>4. w * d \in Nat /\ w * (a + 1) \in Nat /\ w * a \in Nat
  BY SMTT(40)
<1> QED BY SMTT(40), <1>1, <1>3, <1>4

\* The rotations before a boundary, and the last of them.
LEMMA RotationFacts ==
  ASSUME SetLaws, NEW t \in 0 .. MaxEntries
  PROVE  /\ IsFiniteSet(Rotations(t)) /\ Cardinality(Rotations(t)) \in Nat
         /\ Max({0} \cup Rotations(t)) \in 0 .. t
         /\ Max({0} \cup Rotations(t)) \in {0} \cup Rotations(t)
<1>0. t \in Nat
  BY SMTT(40), MySQLAssumption
<1>1. Rotations(t) \in SUBSET (1 .. t)
  BY DEF Rotations
<1>2. IsFiniteSet(1 .. t)
  BY SMTT(40), <1>0, CountInterval
<1>3. IsFiniteSet(Rotations(t)) /\ Cardinality(Rotations(t)) \in Nat
  BY <1>1, <1>2, CountSubset, CountType
<1> DEFINE S == {0} \cup Rotations(t)
<1>4. S \in SUBSET (0 .. t) /\ S # {}
  BY SMTT(40), <1>0, <1>1
<1> HIDE DEF S
<1>5. Max(S) \in S
  BY <1>0, <1>4, MaxIsGreatest
<1> QED BY <1>3, <1>4, <1>5 DEF S

\* A boundary is a place to resume from, within the width of a file.
LEMMA BoundaryType ==
  ASSUME SetLaws, NEW t \in 0 .. MaxEntries
  PROVE  /\ Boundary(t) \in BinlogPosition /\ Resumable(Boundary(t)) /\ Boundary(t) # NoPosition
         /\ Boundary(t).file \in Nat \ {0} /\ Boundary(t).pos \in Nat
         /\ Boundary(t).pos >= minBinlogPosition
         /\ Boundary(t).pos <= minBinlogPosition + Span * t
<1> DEFINE R == Cardinality(Rotations(t))
           M == Max({0} \cup Rotations(t))
<1>1. R \in Nat /\ M \in 0 .. t /\ t \in Nat /\ Span \in Nat
  BY SMTT(40), RotationFacts, MySQLAssumption
<1>2. Boundary(t).file = 1 + R /\ Boundary(t).pos = minBinlogPosition + Span * (t - M)
  BY DEF Boundary
<1>3. Boundary(t) = [file |-> 1 + R, pos |-> minBinlogPosition + Span * (t - M)]
  BY DEF Boundary
<1> HIDE DEF R, M
<1>4. Span * (t - M) \in Nat /\ Span * (t - M) <= Span * t
  <2>1. t - M \in Nat /\ (t - M < t \/ t - M = t)
    BY SMTT(40), <1>1
  <2>2. Span * (t - M) \in Nat /\ Span * t \in Nat
    BY SMTT(40), <1>1, <2>1
  <2>3. t - M < t => Span * (t - M) + Span <= Span * t
    BY <1>1, <2>1, Apart
  <2> QED BY SMTT(40), <1>1, <2>1, <2>2, <2>3
<1> DEFINE d == Span * (t - M)
<1> HIDE DEF d
<1>5. d \in Nat /\ Boundary(t).pos = minBinlogPosition + d /\ d <= Span * t /\ Span * t \in Nat
  BY SMTT(40), <1>1, <1>2, <1>4 DEF d
<1>6. Boundary(t) = [file |-> 1 + R, pos |-> minBinlogPosition + d]
  BY <1>3 DEF d
<1> QED BY SMTT(40), <1>1, <1>2, <1>5, <1>6 DEF BinlogPosition, Resumable, NoPosition, minBinlogPosition

\* A later boundary is in a later file, or at least an entry further.
LEMMA BoundaryOrder ==
  ASSUME SetLaws, NEW s \in 0 .. MaxEntries, NEW t \in 0 .. MaxEntries, s < t
  PROVE  \/ Boundary(s).file < Boundary(t).file
         \/ /\ Boundary(s).file = Boundary(t).file
            /\ Boundary(s).pos + Span <= Boundary(t).pos
<1> DEFINE P == Rotations(s)
           Q == Rotations(t)
<1>1. P \in SUBSET Q /\ MaxEntries \in Nat /\ Span \in Nat
  BY SMTT(40), MySQLAssumption DEF Rotations
<1>2. IsFiniteSet(Q) /\ Cardinality(P) \in Nat /\ Cardinality(Q) \in Nat
  BY RotationFacts
<1>3. Cardinality(P) <= Cardinality(Q) /\ (Cardinality(Q) = Cardinality(P) => Q = P)
  BY <1>1, <1>2, CountSubset
<1>4. Boundary(s).file = 1 + Cardinality(P) /\ Boundary(t).file = 1 + Cardinality(Q)
  BY DEF Boundary
<1>5. CASE Q = P
  <2> DEFINE M == Max({0} \cup P)
  <2>1. M \in 0 .. s
    BY RotationFacts
  <2>2. /\ Boundary(s).pos = minBinlogPosition + Span * (s - M)
        /\ Boundary(t).pos = minBinlogPosition + Span * (t - M)
    BY <1>5 DEF Boundary
  <2> HIDE DEF M
  <2>3. s - M \in Nat /\ t - M \in Nat /\ s - M < t - M
    BY SMTT(40), <1>1, <2>1
  <2> DEFINE a == Span * (s - M)
             b == Span * (t - M)
  <2>4. a \in Nat /\ b \in Nat /\ a + Span <= b
    BY SMTT(40), <1>1, <2>3, Apart
  <2> HIDE DEF a, b
  <2>5. Boundary(s).pos = minBinlogPosition + a /\ Boundary(t).pos = minBinlogPosition + b
    BY <2>2 DEF a, b
  <2> QED BY SMTT(40), <1>1, <1>4, <1>5, <2>4, <2>5 DEF minBinlogPosition
<1>6. CASE Q # P
  <2> HIDE DEF P, Q
  <2> QED BY SMTT(40), <1>2, <1>3, <1>4, <1>6
<1> QED BY <1>5, <1>6

\* Rank counts the boundaries up to a position, so a boundary's rank is its own.
LEMMA RankOfBoundary ==
  ASSUME SetLaws, NEW t \in 0 .. MaxEntries
  PROVE  Rank(Boundary(t)) = t
<1>0. MaxEntries \in Nat /\ Span \in Nat \ {0}
  BY MySQLAssumption
<1>1. ASSUME NEW u \in 1 .. MaxEntries
      PROVE  Before(Boundary(t), Boundary(u)) <=> t < u
  <2>1. u \in 0 .. MaxEntries
    BY SMTT(40), <1>0
  <2>2. /\ Boundary(t).file \in Nat /\ Boundary(t).pos \in Nat
        /\ Boundary(u).file \in Nat /\ Boundary(u).pos \in Nat
    BY <2>1, BoundaryType
  <2>3. CASE t < u
    BY SMTT(40), <1>0, <2>1, <2>2, <2>3, BoundaryOrder DEF Before
  <2>4. CASE u < t
    BY SMTT(40), <1>0, <2>1, <2>2, <2>4, BoundaryOrder DEF Before
  <2>5. CASE u = t
    BY SMTT(40), <2>2, <2>5 DEF Before
  <2> QED BY SMTT(40), <1>0, <2>3, <2>4, <2>5
<1>2. {u \in 1 .. MaxEntries : ~Before(Boundary(t), Boundary(u))} = 1 .. t
  BY SMTT(40), <1>0, <1>1
<1>3. Cardinality(1 .. t) = t
  BY SMTT(40), <1>0, CountInterval
<1> QED BY <1>2, <1>3 DEF Rank

\* No boundary is as early as no position at all.
LEMMA RankOfNone ==
  ASSUME SetLaws
  PROVE  Rank(NoPosition) = 0
<1>0. MaxEntries \in Nat
  BY MySQLAssumption
<1>1. ASSUME NEW u \in 1 .. MaxEntries
      PROVE  Before(NoPosition, Boundary(u))
  <2>1. Boundary(u).file \in Nat \ {0}
    BY SMTT(40), <1>0, BoundaryType
  <2> QED BY SMTT(40), <2>1 DEF Before, NoPosition
<1>2. {u \in 1 .. MaxEntries : ~Before(NoPosition, Boundary(u))} = {}
  BY <1>1
<1> QED BY <1>2, CountEmpty DEF Rank

\* A rank is a number of entries.
LEMMA RankType ==
  ASSUME SetLaws, NEW p
  PROVE  Rank(p) \in 0 .. MaxEntries
<1> DEFINE S == {t \in 1 .. MaxEntries : ~Before(p, Boundary(t))}
<1>0. MaxEntries \in Nat
  BY MySQLAssumption
<1>1. IsFiniteSet(1 .. MaxEntries) /\ Cardinality(1 .. MaxEntries) = MaxEntries
  BY SMTT(40), <1>0, CountInterval
<1>2. S \in SUBSET (1 .. MaxEntries)
  OBVIOUS
<1> HIDE DEF S
<1>3. IsFiniteSet(S) /\ Cardinality(S) <= MaxEntries
  BY <1>1, <1>2, CountSubset
<1>4. Cardinality(S) \in Nat
  BY <1>3, CountType
<1>5. Cardinality(S) \in 0 .. MaxEntries
  BY SMTT(40), <1>0, <1>3, <1>4
<1> QED BY <1>5 DEF S, Rank

\* The order of boundaries is the order of their ranks.
LEMMA NotBefore ==
  ASSUME SetLaws, NEW s \in 0 .. MaxEntries, NEW t \in 0 .. MaxEntries, s <= t
  PROVE  ~Before(Boundary(t), Boundary(s))
<1>1. /\ Boundary(t).file \in Nat /\ Boundary(t).pos \in Nat
      /\ Boundary(s).file \in Nat /\ Boundary(s).pos \in Nat /\ Span \in Nat
  BY BoundaryType, MySQLAssumption
<1>2. CASE s = t
  BY SMTT(40), <1>1, <1>2 DEF Before
<1>3. CASE s < t
  BY SMTT(40), <1>1, <1>3, BoundaryOrder DEF Before
<1>4. s = t \/ s < t
  BY SMTT(40), MySQLAssumption
<1> QED BY <1>2, <1>3, <1>4

\* The log is never rewritten, so positions and ranks stay.
LEMMA LogFixed ==
  ASSUME binlog' = binlog
  PROVE  /\ \A t : Boundary(t)' = Boundary(t)
         /\ \A p : Rank(p)' = Rank(p)
         /\ \A t, i : Id(t, i)' = Id(t, i)
         /\ \A t : Rows(t)' = Rows(t)
<1>1. \A t : Rotations(t)' = Rotations(t)
  BY DEF Rotations
<1>2. \A t : Boundary(t)' = Boundary(t)
  BY <1>1 DEF Boundary
<1>3. \A p : Rank(p)' = Rank(p)
  BY <1>2 DEF Rank, Before
<1>4. \A t : Rows(t)' = Rows(t)
  BY DEF Rows
<1>5. \A t, i : SharedWith(t, i)' = SharedWith(t, i) /\ EmittedBefore(t, i)' = EmittedBefore(t, i)
  BY <1>4 DEF SharedWith, EmittedBefore
<1>6. \A t, i : Id(t, i)' = Id(t, i)
  BY <1>2, <1>5 DEF Id, Inside, SourceID
<1> QED BY <1>2, <1>3, <1>4, <1>6

\* The kinds of rows.
LEMMA RowKinds == RowKind = {"row", "large", "wide", "huge", "filtered"}
BY KindFacts DEF RowKind

\* An entry of the log.
LEMMA EntryFacts ==
  ASSUME LogType, NEW t \in 1 .. MaxEntries
  PROVE  /\ binlog[t].form \in EntryForm /\ Rows(t) \in Seq(RowKind)
         /\ Len(Rows(t)) \in Nat /\ DOMAIN Rows(t) = 1 .. Len(Rows(t))
         /\ \A i \in 1 .. Len(Rows(t)) : Rows(t)[i] \in RowKind /\ binlog[t].event[i] \in 1 .. Span - 2
         /\ binlog[t].form = "ddl" => Len(Rows(t)) = 1
         /\ binlog[t].form = "rotate" => Len(Rows(t)) = 0
<1>1. binlog[t] \in Entries
  BY DEF LogType
<1>2. /\ binlog[t].form \in EntryForm /\ Rows(t) \in Seq(RowKind)
      /\ binlog[t].event \in [DOMAIN Rows(t) -> 1 .. Span - 2]
      /\ binlog[t].form = "ddl" => Len(Rows(t)) = 1
      /\ binlog[t].form = "rotate" => Rows(t) = <<>>
  BY <1>1, MySQLAssumption DEF Rows
<1> HIDE DEF Rows
<1>3. /\ Len(Rows(t)) \in Nat /\ DOMAIN Rows(t) = 1 .. Len(Rows(t))
      /\ \A i \in 1 .. Len(Rows(t)) : Rows(t)[i] \in RowKind
      /\ binlog[t].form = "rotate" => Len(Rows(t)) = 0
  BY SMTT(40), <1>2
<1> QED BY <1>2, <1>3

\* A source id determines the position, the index and the format.
LEMMA SourceIdParts ==
  ASSUME NEW p, NEW q, p.file \in Nat, q.file \in Nat,
         p.pos \in Nat, q.pos \in Nat, p.pos < FileSpan, q.pos < FileSpan, FileSpan \in Nat,
         NEW a \in Nat, NEW b \in Nat, NEW f \in 0 .. 2, NEW g \in 0 .. 2,
         SourceID(p, a, f) = SourceID(q, b, g)
  PROVE  p.file = q.file /\ p.pos = q.pos /\ a = b /\ f = g
<1>1. FileSpan * p.file + p.pos = FileSpan * q.file + q.pos /\ 3 * a + f = 3 * b + g
  BY DEF SourceID
<1>2. a = b /\ f = g
  BY SMTT(40), <1>1
<1> DEFINE m == FileSpan * p.file
           n == FileSpan * q.file
<1>3. m \in Nat /\ n \in Nat
  BY SMTT(40)
<1>4. p.file < q.file => m + FileSpan <= n
  BY Apart
<1>5. q.file < p.file => n + FileSpan <= m
  BY Apart
<1>6. m + p.pos = n + q.pos
  BY <1>1
<1>7. p.file = q.file => m = n
  OBVIOUS
<1> HIDE DEF m, n
<1> QED BY SMTT(40), <1>2, <1>3, <1>4, <1>5, <1>6, <1>7

\* A place strictly inside the entry after the t-th.
LEMMA InsideFacts ==
  ASSUME SetLaws, NEW t \in 1 .. MaxEntries, NEW d \in 1 .. Span - 1
  PROVE  /\ Inside(t - 1, d).file = Boundary(t - 1).file
         /\ Inside(t - 1, d).pos = Boundary(t - 1).pos + d
         /\ Inside(t - 1, d).file \in Nat \ {0} /\ Inside(t - 1, d).pos \in Nat
         /\ Inside(t - 1, d).pos < FileSpan
<1>0. MaxEntries \in Nat /\ Span \in Nat \ {0} /\ t - 1 \in 0 .. MaxEntries /\ t \in Nat
  BY SMTT(40), MySQLAssumption
<1>1. /\ Boundary(t - 1) \in BinlogPosition /\ Boundary(t - 1).file \in Nat \ {0}
      /\ Boundary(t - 1).pos \in Nat /\ Boundary(t - 1).pos <= minBinlogPosition + Span * (t - 1)
  BY <1>0, BoundaryType
<1>2. /\ Inside(t - 1, d).file = Boundary(t - 1).file
      /\ Inside(t - 1, d).pos = Boundary(t - 1).pos + d
  BY <1>1 DEF Inside, BinlogPosition
<1>3. Span * (t - 1) + Span <= MaxEntries * Span
  <2>1. Span * (t - 1) + Span <= Span * t
    BY SMTT(40), <1>0, Apart
  <2>2. t < MaxEntries => Span * t + Span <= Span * MaxEntries
    BY <1>0, Apart
  <2> DEFINE x == Span * t
             y == Span * MaxEntries
             z == Span * (t - 1)
  <2>3. x \in Nat /\ y \in Nat /\ z \in Nat /\ (t = MaxEntries => x = y) /\ y = MaxEntries * Span
    BY SMTT(40), <1>0
  <2> HIDE DEF x, y, z
  <2>4. z + Span <= x /\ (t < MaxEntries => x + Span <= y)
    BY <2>1, <2>2 DEF x, y, z
  <2>5. z + Span <= y
    BY SMTT(40), <1>0, <2>3, <2>4
  <2> QED BY <2>3, <2>5 DEF z
<1> DEFINE x == Span * (t - 1)
           y == MaxEntries * Span
<1>4. FileSpan > minBinlogPosition + y
  BY MySQLAssumption
<1>5. x + Span <= y /\ x \in Nat /\ y \in Nat /\ Boundary(t - 1).pos <= minBinlogPosition + x
  BY SMTT(40), <1>0, <1>1, <1>3
<1> HIDE DEF x, y
<1>6. Boundary(t - 1).pos + d < FileSpan
  BY SMTT(40), MySQLAssumption, <1>0, <1>1, <1>4, <1>5 DEF minBinlogPosition
<1> QED BY SMTT(40), <1>0, <1>1, <1>2, <1>6

\* Two places inside entries are the same only for the same entry.
LEMMA InsideInjective ==
  ASSUME SetLaws, NEW s \in 1 .. MaxEntries, NEW t \in 1 .. MaxEntries,
         NEW c \in 1 .. Span - 1, NEW d \in 1 .. Span - 1,
         Inside(s - 1, c).file = Inside(t - 1, d).file,
         Inside(s - 1, c).pos = Inside(t - 1, d).pos
  PROVE  s = t /\ c = d
<1>0. /\ MaxEntries \in Nat /\ Span \in Nat /\ s - 1 \in 0 .. MaxEntries /\ t - 1 \in 0 .. MaxEntries
  BY SMTT(40), MySQLAssumption
<1>1. /\ Boundary(s - 1).file = Boundary(t - 1).file
      /\ Boundary(s - 1).pos + c = Boundary(t - 1).pos + d
  BY InsideFacts
<1>2. /\ Boundary(s - 1).file \in Nat /\ Boundary(s - 1).pos \in Nat
      /\ Boundary(t - 1).file \in Nat /\ Boundary(t - 1).pos \in Nat
  BY <1>0, BoundaryType
<1>3. ~(s < t)
  <2> SUFFICES ASSUME s - 1 < t - 1 PROVE FALSE
    BY SMTT(40), <1>0
  <2>1. Boundary(s - 1).pos + Span <= Boundary(t - 1).pos
    BY SMTT(40), <1>0, <1>1, <1>2, BoundaryOrder
  <2> QED BY SMTT(40), <1>0, <1>1, <1>2, <2>1
<1>4. ~(t < s)
  <2> SUFFICES ASSUME t - 1 < s - 1 PROVE FALSE
    BY SMTT(40), <1>0
  <2>1. Boundary(t - 1).pos + Span <= Boundary(s - 1).pos
    BY SMTT(40), <1>0, <1>1, <1>2, BoundaryOrder
  <2> QED BY SMTT(40), <1>0, <1>1, <1>2, <2>1
<1>5. s = t
  BY SMTT(40), <1>0, <1>3, <1>4
<1> QED BY SMTT(40), <1>0, <1>1, <1>2, <1>5

\* Boundaries are the same only for the same entry.
LEMMA BoundaryInjective ==
  ASSUME SetLaws, NEW s \in 0 .. MaxEntries, NEW t \in 0 .. MaxEntries,
         Boundary(s).file = Boundary(t).file, Boundary(s).pos = Boundary(t).pos
  PROVE  s = t
<1>0. MaxEntries \in Nat /\ Span \in Nat \ {0}
  BY MySQLAssumption
<1>1. /\ Boundary(s).file \in Nat /\ Boundary(s).pos \in Nat
  BY BoundaryType
<1>2. ~(s < t) /\ ~(t < s)
  BY SMTT(40), <1>0, <1>1, BoundaryOrder
<1> QED BY SMTT(40), <1>0, <1>2

\* A boundary lies within its file's width.
LEMMA BoundaryFits ==
  ASSUME SetLaws, NEW t \in 0 .. MaxEntries
  PROVE  Boundary(t).pos < FileSpan
<1>0. MaxEntries \in Nat /\ Span \in Nat \ {0} /\ t \in Nat /\ FileSpan \in Nat
  BY SMTT(40), MySQLAssumption
<1>1. Boundary(t).pos \in Nat /\ Boundary(t).pos <= minBinlogPosition + Span * t
  BY BoundaryType
<1>2. t < MaxEntries => Span * t + Span <= Span * MaxEntries
  BY <1>0, Apart
<1> DEFINE x == Span * t
           y == Span * MaxEntries
<1>3. x \in Nat /\ y \in Nat /\ (t = MaxEntries => x = y) /\ y = MaxEntries * Span
  BY SMTT(40), <1>0
<1>4. FileSpan > minBinlogPosition + y
  BY <1>3, MySQLAssumption
<1> HIDE DEF x, y
<1>5. Boundary(t).pos <= minBinlogPosition + x /\ (t < MaxEntries => x + Span <= y)
  BY <1>1, <1>2 DEF x, y
<1> QED BY SMTT(40), <1>0, <1>1, <1>3, <1>4, <1>5 DEF minBinlogPosition

\* The rows emitted before a row grow with each one emitted.
LEMMA EmittedBeforeFacts ==
  ASSUME SetLaws, NEW t, NEW i \in Nat
  PROVE  /\ IsFiniteSet(EmittedBefore(t, i)) /\ Cardinality(EmittedBefore(t, i)) \in Nat
         /\ i >= 1 =>
              Cardinality(EmittedBefore(t, i + 1)) =
                Cardinality(EmittedBefore(t, i)) + (IF Rows(t)[i] # "filtered" THEN 1 ELSE 0)
<1>1. EmittedBefore(t, i) \in SUBSET (1 .. i - 1)
  BY DEF EmittedBefore
<1>2. IsFiniteSet(EmittedBefore(t, i)) /\ Cardinality(EmittedBefore(t, i)) \in Nat
  <2>1. i - 1 \in Int /\ 1 \in Int
    BY SMTT(40)
  <2>2. IsFiniteSet(1 .. i - 1)
    BY <2>1, CountInterval
  <2> QED BY <1>1, <2>2, CountSubset, CountType
<1>3. ASSUME i >= 1, Rows(t)[i] # "filtered"
      PROVE  Cardinality(EmittedBefore(t, i + 1)) = Cardinality(EmittedBefore(t, i)) + 1
  <2>1. EmittedBefore(t, i + 1) = EmittedBefore(t, i) \cup {i} /\ i \notin EmittedBefore(t, i)
    BY SMTT(40), <1>3 DEF EmittedBefore
  <2> QED BY <1>2, <2>1, CountAdd
<1>4. ASSUME i >= 1, Rows(t)[i] = "filtered"
      PROVE  Cardinality(EmittedBefore(t, i + 1)) = Cardinality(EmittedBefore(t, i))
  <2>1. EmittedBefore(t, i + 1) = EmittedBefore(t, i)
    BY SMTT(40), <1>4 DEF EmittedBefore
  <2> QED BY <2>1
<1> QED BY SMTT(40), <1>2, <1>3, <1>4

\* So their number names a row.
LEMMA EmittedIncreases ==
  ASSUME SetLaws, NEW t, NEW i \in Nat \ {0}, NEW j \in Nat, i < j, Rows(t)[i] # "filtered"
  PROVE  Cardinality(EmittedBefore(t, i)) < Cardinality(EmittedBefore(t, j))
<1>1. /\ IsFiniteSet(EmittedBefore(t, j)) /\ Cardinality(EmittedBefore(t, j)) \in Nat
      /\ Cardinality(EmittedBefore(t, i)) \in Nat
      /\ Cardinality(EmittedBefore(t, i + 1)) = Cardinality(EmittedBefore(t, i)) + 1
  BY SMTT(40), EmittedBeforeFacts
<1>2. EmittedBefore(t, i + 1) \in SUBSET EmittedBefore(t, j)
  BY SMTT(40) DEF EmittedBefore
<1>3. Cardinality(EmittedBefore(t, i + 1)) <= Cardinality(EmittedBefore(t, j))
  BY <1>1, <1>2, CountSubset
<1> QED BY SMTT(40), <1>1, <1>3

\* The least of a set of naturals.
LEMMA MinIsLeast ==
  ASSUME SetLaws, NEW S \in SUBSET Nat, S # {}
  PROVE  Min(S) \in S /\ \A y \in S : Min(S) <= y
<1>1. \E x \in S : \A y \in S : x <= y
  BY LeastElement
<1> QED BY <1>1 DEF Min

\* A change of the log.
IsRow(t, i) == t \in 1 .. MaxEntries /\ i \in DOMAIN Rows(t) /\ Rows(t)[i] # "filtered"

\* The index of a row in its rows event.
LEMMA IndexFacts ==
  ASSUME SetLaws, LogType, NEW t \in 1 .. MaxEntries, NEW i \in 1 .. Len(Rows(t))
  PROVE  Min(SharedWith(t, i)) \in 1 .. i
<1>1. Len(Rows(t)) \in Nat /\ DOMAIN Rows(t) = 1 .. Len(Rows(t))
  BY EntryFacts
<1>2. SharedWith(t, i) \in SUBSET (1 .. Len(Rows(t))) /\ i \in SharedWith(t, i)
  BY <1>1 DEF SharedWith
<1>3. SharedWith(t, i) \in SUBSET Nat /\ SharedWith(t, i) # {}
  BY SMTT(40), <1>1, <1>2
<1>4. Min(SharedWith(t, i)) \in SharedWith(t, i) /\ Min(SharedWith(t, i)) <= i
  BY <1>2, <1>3, MinIsLeast
<1> QED BY SMTT(40), <1>1, <1>2, <1>4

\* The position, the index and the format of the id of a row.
IdPosition(t, i) ==
  IF binlog[t].form = "txn" THEN Inside(t - 1, 1 + binlog[t].event[i])
  ELSE IF binlog[t].form = "packed" THEN Inside(t - 1, 1)
  ELSE Boundary(t)
IdIndex(t, i) ==
  IF binlog[t].form = "txn" THEN i - Min(SharedWith(t, i))
  ELSE IF binlog[t].form = "packed" THEN Cardinality(EmittedBefore(t, i))
  ELSE 0
IdFormat(t) ==
  IF binlog[t].form = "txn" THEN 0 ELSE IF binlog[t].form = "packed" THEN 1 ELSE 2

\* The parts of the id onRow gives a change, in their ranges.
LEMMA IdFacts ==
  ASSUME SetLaws, LogType, NEW t, NEW i, IsRow(t, i)
  PROVE  /\ i \in Nat \ {0} /\ binlog[t].form \in {"txn", "packed", "ddl"}
         /\ Id(t, i) = SourceID(IdPosition(t, i), IdIndex(t, i), IdFormat(t))
         /\ IdPosition(t, i).file \in Nat \ {0} /\ IdPosition(t, i).pos \in Nat
         /\ IdPosition(t, i).pos < FileSpan
         /\ IdIndex(t, i) \in Nat /\ IdFormat(t) \in 0 .. 2
<1>0. t \in 1 .. MaxEntries /\ t \in 0 .. MaxEntries
  BY SMTT(40), MySQLAssumption DEF IsRow
<1>1. /\ Len(Rows(t)) \in Nat /\ i \in 1 .. Len(Rows(t)) /\ binlog[t].form \in EntryForm
      /\ binlog[t].event[i] \in 1 .. Span - 2 /\ (binlog[t].form = "rotate" => Len(Rows(t)) = 0)
  BY <1>0, EntryFacts DEF IsRow
<1>2. i \in Nat \ {0} /\ binlog[t].form \in {"txn", "packed", "ddl"}
  BY SMTT(40), <1>1 DEF EntryForm
<1>3. CASE binlog[t].form = "txn"
  <2>1. 1 + binlog[t].event[i] \in 1 .. Span - 1
    BY SMTT(40), <1>1, MySQLAssumption
  <2>2. /\ Id(t, i) = SourceID(IdPosition(t, i), IdIndex(t, i), IdFormat(t))
        /\ IdPosition(t, i) = Inside(t - 1, 1 + binlog[t].event[i])
        /\ IdIndex(t, i) = i - Min(SharedWith(t, i)) /\ IdFormat(t) = 0
    BY <1>3 DEF Id, IdPosition, IdIndex, IdFormat
  <2>3. /\ IdPosition(t, i).file \in Nat \ {0} /\ IdPosition(t, i).pos \in Nat
        /\ IdPosition(t, i).pos < FileSpan
    BY SMTT(40), <1>0, <2>1, <2>2, InsideFacts
  <2>4. Min(SharedWith(t, i)) \in 1 .. i
    BY <1>0, <1>1, IndexFacts
  <2> QED BY SMTT(40), <1>2, <2>2, <2>3, <2>4
<1>4. CASE binlog[t].form = "packed"
  <2>1. 1 \in 1 .. Span - 1
    BY SMTT(40), <1>1, MySQLAssumption
  <2>2. /\ Id(t, i) = SourceID(IdPosition(t, i), IdIndex(t, i), IdFormat(t))
        /\ IdPosition(t, i) = Inside(t - 1, 1)
        /\ IdIndex(t, i) = Cardinality(EmittedBefore(t, i)) /\ IdFormat(t) = 1
    BY <1>4 DEF Id, IdPosition, IdIndex, IdFormat
  <2>3. /\ IdPosition(t, i).file \in Nat \ {0} /\ IdPosition(t, i).pos \in Nat
        /\ IdPosition(t, i).pos < FileSpan
    BY <1>0, <2>1, <2>2, InsideFacts
  <2>4. Cardinality(EmittedBefore(t, i)) \in Nat
    BY <1>2, EmittedBeforeFacts
  <2> QED BY SMTT(40), <1>2, <2>2, <2>3, <2>4
<1>5. CASE binlog[t].form = "ddl"
  <2>2. /\ Id(t, i) = SourceID(IdPosition(t, i), IdIndex(t, i), IdFormat(t))
        /\ IdPosition(t, i) = Boundary(t)
        /\ IdIndex(t, i) = 0 /\ IdFormat(t) = 2
    BY <1>5 DEF Id, IdPosition, IdIndex, IdFormat
  <2>3. /\ IdPosition(t, i).file \in Nat \ {0} /\ IdPosition(t, i).pos \in Nat
        /\ IdPosition(t, i).pos < FileSpan
    BY <1>0, <2>2, BoundaryType, BoundaryFits
  <2> QED BY SMTT(40), <1>2, <2>2, <2>3
<1> QED BY <1>2, <1>3, <1>4, <1>5

\* The id of a change is a pair of numbers, and not the empty one.
LEMMA IdType ==
  ASSUME SetLaws, LogType, NEW t, NEW i, IsRow(t, i)
  PROVE  Id(t, i) \in Nat \X Nat /\ Id(t, i) # <<0, 0>>
<1> DEFINE p == IdPosition(t, i)
           x == FileSpan * p.file
<1>1. /\ p.file \in Nat \ {0} /\ p.pos \in Nat /\ IdIndex(t, i) \in Nat /\ IdFormat(t) \in 0 .. 2
      /\ Id(t, i) = SourceID(p, IdIndex(t, i), IdFormat(t)) /\ p.pos < FileSpan
  BY IdFacts
<1>2. FileSpan \in Nat
  BY MySQLAssumption
<1>3. FileSpan * 0 + FileSpan <= x /\ x \in Nat
  BY SMTT(40), <1>1, <1>2, Apart
<1>4. FileSpan * 0 = 0
  BY SMTT(40), <1>2
<1>5. Id(t, i) = <<x + p.pos, 3 * IdIndex(t, i) + IdFormat(t)>>
  BY <1>1 DEF SourceID
<1> HIDE DEF x, p
<1>6. x + p.pos \in Nat \ {0} /\ 3 * IdIndex(t, i) + IdFormat(t) \in Nat
  BY SMTT(40), <1>1, <1>2, <1>3, <1>4
<1> QED BY SMTT(40), <1>5, <1>6

\* Different changes have different ids.
LEMMA IdInjective ==
  ASSUME SetLaws, LogType, NEW s \in Nat, NEW i \in Nat, NEW t \in Nat, NEW j \in Nat,
         IsRow(s, i), IsRow(t, j), Id(s, i) = Id(t, j)
  PROVE  s = t /\ i = j
<1>0. /\ FileSpan \in Nat /\ Span \in Nat /\ s \in 1 .. MaxEntries /\ t \in 1 .. MaxEntries
      /\ s \in 0 .. MaxEntries /\ t \in 0 .. MaxEntries
  BY SMTT(40), MySQLAssumption DEF IsRow
<1>1. /\ IdPosition(s, i).file = IdPosition(t, j).file
      /\ IdPosition(s, i).pos = IdPosition(t, j).pos
      /\ IdIndex(s, i) = IdIndex(t, j) /\ IdFormat(s) = IdFormat(t)
  <2>1. /\ IdPosition(s, i).file \in Nat /\ IdPosition(s, i).pos \in Nat
        /\ IdPosition(s, i).pos < FileSpan /\ IdIndex(s, i) \in Nat /\ IdFormat(s) \in 0 .. 2
        /\ Id(s, i) = SourceID(IdPosition(s, i), IdIndex(s, i), IdFormat(s))
    BY IdFacts
  <2>2. /\ IdPosition(t, j).file \in Nat /\ IdPosition(t, j).pos \in Nat
        /\ IdPosition(t, j).pos < FileSpan /\ IdIndex(t, j) \in Nat /\ IdFormat(t) \in 0 .. 2
        /\ Id(t, j) = SourceID(IdPosition(t, j), IdIndex(t, j), IdFormat(t))
    BY IdFacts
  <2> DEFINE p == IdPosition(s, i)
             q == IdPosition(t, j)
             a == IdIndex(s, i)
             b == IdIndex(t, j)
             f == IdFormat(s)
             g == IdFormat(t)
  <2>3. SourceID(p, a, f) = SourceID(q, b, g)
    BY <2>1, <2>2
  <2> HIDE DEF p, q, a, b, f, g
  <2>4. p.file \in Nat /\ p.pos \in Nat /\ p.pos < FileSpan /\ a \in Nat /\ f \in 0 .. 2
    BY <2>1 DEF p, a, f
  <2>5. q.file \in Nat /\ q.pos \in Nat /\ q.pos < FileSpan /\ b \in Nat /\ g \in 0 .. 2
    BY <2>2 DEF q, b, g
  <2>6. p.file = q.file /\ p.pos = q.pos /\ a = b /\ f = g
    BY SMTT(40), <1>0, <2>3, <2>4, <2>5, SourceIdParts
  <2> QED BY SMTT(40), <2>6 DEF p, q, a, b, f, g
<1>2. /\ i \in Nat \ {0} /\ j \in Nat \ {0} /\ binlog[s].form \in {"txn", "packed", "ddl"}
      /\ binlog[t].form \in {"txn", "packed", "ddl"}
  BY IdFacts
<1>3. binlog[s].form = binlog[t].form
  BY SMTT(40), <1>1, <1>2 DEF IdFormat
<1>4. /\ binlog[s].event[i] \in 1 .. Span - 2 /\ binlog[t].event[j] \in 1 .. Span - 2
      /\ i \in 1 .. Len(Rows(s)) /\ j \in 1 .. Len(Rows(t))
  BY <1>0, EntryFacts DEF IsRow
<1>5. CASE binlog[s].form = "txn"
  <2>1. /\ 1 + binlog[s].event[i] \in 1 .. Span - 1 /\ 1 + binlog[t].event[j] \in 1 .. Span - 1
    <3> DEFINE a == binlog[s].event[i]
               b == binlog[t].event[j]
    <3>1. a \in 1 .. Span - 2 /\ b \in 1 .. Span - 2
      BY <1>4
    <3> HIDE DEF a, b
    <3>2. 1 + a \in 1 .. Span - 1 /\ 1 + b \in 1 .. Span - 1
      BY SMTT(40), <1>0, <3>1
    <3> QED BY <3>2 DEF a, b
  <2>2. /\ IdPosition(s, i) = Inside(s - 1, 1 + binlog[s].event[i])
        /\ IdPosition(t, j) = Inside(t - 1, 1 + binlog[t].event[j])
        /\ IdIndex(s, i) = i - Min(SharedWith(s, i)) /\ IdIndex(t, j) = j - Min(SharedWith(t, j))
    BY <1>3, <1>5 DEF IdPosition, IdIndex
  <2>3. s = t /\ 1 + binlog[s].event[i] = 1 + binlog[t].event[j]
    BY SMTT(40), <1>0, <1>1, <2>1, <2>2, InsideInjective
  <2>4. binlog[s].event[i] = binlog[t].event[j]
    BY SMTT(40), <1>4, <2>3
  <2>5. SharedWith(s, i) = SharedWith(t, j)
    BY <2>3, <2>4 DEF SharedWith
  <2>6. Min(SharedWith(s, i)) \in 1 .. i
    BY <1>0, <1>4, IndexFacts
  <2>7. i - Min(SharedWith(s, i)) = j - Min(SharedWith(s, i))
    BY <1>1, <2>2, <2>5
  <2> DEFINE m == Min(SharedWith(s, i))
  <2> HIDE DEF m
  <2>8. m \in 1 .. i /\ i - m = j - m
    BY <2>6, <2>7 DEF m
  <2>9. i = j
    BY SMTT(40), <2>8
  <2> QED BY <2>3, <2>9
<1>6. CASE binlog[s].form = "packed"
  <2>1. 1 \in 1 .. Span - 1
    BY SMTT(40), <1>0, <1>4
  <2>2. /\ IdPosition(s, i) = Inside(s - 1, 1) /\ IdPosition(t, j) = Inside(t - 1, 1)
        /\ IdIndex(s, i) = Cardinality(EmittedBefore(s, i))
        /\ IdIndex(t, j) = Cardinality(EmittedBefore(t, j))
    BY <1>3, <1>6 DEF IdPosition, IdIndex
  <2>3. s = t
    BY SMTT(40), <1>0, <1>1, <2>1, <2>2, InsideInjective
  <2>4. Cardinality(EmittedBefore(s, i)) \in Nat
    BY <1>2, EmittedBeforeFacts
  <2> DEFINE C(x) == Cardinality(EmittedBefore(s, x))
  <2>5. C(i) = C(j) /\ Rows(s)[i] # "filtered" /\ Rows(s)[j] # "filtered"
    BY <1>1, <2>2, <2>3 DEF IsRow
  <2>6. (i < j => C(i) < C(j)) /\ (j < i => C(j) < C(i))
    BY <1>2, <2>5, EmittedIncreases
  <2>7. C(i) \in Nat
    BY <2>4
  <2> HIDE DEF C
  <2> QED BY SMTT(40), <1>2, <2>3, <2>5, <2>6, <2>7
<1>7. CASE binlog[s].form = "ddl"
  <2>1. IdPosition(s, i) = Boundary(s) /\ IdPosition(t, j) = Boundary(t)
    BY <1>3, <1>7 DEF IdPosition
  <2>2. s = t
    BY <1>0, <1>1, <2>1, BoundaryInjective
  <2>3. i = 1 /\ j = 1
    <3>1. /\ i \in 1 .. Len(Rows(s)) /\ Len(Rows(s)) = 1
          /\ j \in 1 .. Len(Rows(t)) /\ Len(Rows(t)) = 1
      BY <1>0, <1>3, <1>4, <1>7, EntryFacts
    <3>2. i \in 1 .. 1 /\ j \in 1 .. 1
      BY SMTT(40), <3>1
    <3> QED BY SMTT(40), <3>2
  <2> QED BY <2>2, <2>3
<1> QED BY <1>2, <1>5, <1>6, <1>7

\* Where the session is in the log.
LEMMA SessionFacts ==
  ASSUME Typed, SessionIsSound
  PROVE  /\ LogType /\ MaxEntries \in Nat /\ committed \in 0 .. MaxEntries
         /\ sess.sent \in 0 .. MaxEntries /\ sess.sent \in Nat /\ sess.at \in Nat
         /\ (sess.sent + 1) - 1 = sess.sent
         /\ Entry = binlog[sess.sent + 1] /\ Entry.rows = Rows(sess.sent + 1)
         /\ sess.at # 0 => sess.sent + 1 \in 1 .. committed /\ sess.sent + 1 \in 1 .. MaxEntries
<1> TypeOK
  BY DEF Typed
<1>1. /\ LogType /\ MaxEntries \in Nat /\ committed \in 0 .. MaxEntries
      /\ sess.sent \in 0 .. MaxEntries /\ sess.at \in Nat
  BY MySQLAssumption DEF TypeOK, LogType
<1>2. Entry = binlog[sess.sent + 1] /\ Entry.rows = Rows(sess.sent + 1)
  BY DEF Entry, Rows
<1>3. sess.at # 0 => sess.sent < committed
  BY DEF SessionIsSound
<1> QED BY SMTT(40), <1>1, <1>2, <1>3

\* A row is where the log says.
LEMMA RowFacts ==
  ASSUME Typed, SessionIsSound, AtRow
  PROVE  /\ sess.up /\ ~handing /\ NextRow = sess.at
         /\ sess.sent + 1 \in 1 .. committed /\ sess.sent + 1 \in 1 .. MaxEntries
         /\ sess.at \in 1 .. Len(Rows(sess.sent + 1)) /\ sess.at \in DOMAIN Rows(sess.sent + 1)
         /\ Entry.rows[sess.at] = Rows(sess.sent + 1)[sess.at]
<1> TypeOK
  BY DEF Typed
<1>1. /\ sess.up /\ ~handing /\ sess.at # 0 /\ sess.at <= Len(Entry.rows) /\ sess.at \in Nat
      /\ Entry.rows = Rows(sess.sent + 1) /\ LogType
      /\ sess.sent + 1 \in 1 .. committed /\ sess.sent + 1 \in 1 .. MaxEntries
  BY SessionFacts DEF AtRow, Streaming
<1>2. Len(Rows(sess.sent + 1)) \in Nat /\ DOMAIN Rows(sess.sent + 1) = 1 .. Len(Rows(sess.sent + 1))
  BY <1>1, EntryFacts
<1>3. sess.at \in 1 .. Len(Rows(sess.sent + 1))
  BY SMTT(40), <1>1, <1>2
<1>4. NextRow = sess.at
  BY SMTT(40), <1>1 DEF NextRow
<1> QED BY <1>1, <1>2, <1>3, <1>4

\* The handler gives a row the id the log determines.
LEMMA RowId ==
  ASSUME SetLaws, Typed, SessionIsSound, AtRow, Entry.rows[sess.at] # "filtered"
  PROVE  /\ rowID(sess.at) = Id(sess.sent + 1, sess.at)
         /\ IsRow(sess.sent + 1, sess.at)
<1> TypeOK
  BY DEF Typed
<1> DEFINE t == sess.sent + 1
           i == sess.at
<1>0. /\ LogType /\ t - 1 = sess.sent /\ Entry = binlog[t] /\ Entry.rows = Rows(t)
      /\ t \in 1 .. MaxEntries
  BY SessionFacts, RowFacts
<1>1. IsRow(t, i) /\ sess.up /\ NextRow = i /\ i # 0 /\ i \in 1 .. Len(Rows(t))
  BY <1>0, RowFacts DEF IsRow, AtRow
<1>2. /\ currentFile = Boundary(sess.sent).file /\ txn = Inside(sess.sent, 1)
      /\ Entry.form = "packed" => txnRows = Cardinality(EmittedBefore(t, i))
  BY <1>1 DEF SessionIsSound
<1>3. binlog[t].form \in {"txn", "packed", "ddl"} /\ binlog[t].event[i] \in 1 .. Span - 2
  BY <1>0, <1>1, IdFacts, EntryFacts
<1> HIDE DEF i
<1>4. CASE binlog[t].form = "txn"
  <2> DEFINE d == 1 + binlog[t].event[i]
  <2>1. d \in 1 .. Span - 1
    <3> DEFINE a == binlog[t].event[i]
    <3>1. a \in 1 .. Span - 2 /\ Span \in Nat
      BY <1>3, MySQLAssumption
    <3> HIDE DEF a
    <3>2. 1 + a \in 1 .. Span - 1
      BY SMTT(40), <3>1
    <3> QED BY <3>2 DEF a
  <2> HIDE DEF d
  <2>2. Inside(t - 1, d).file = Boundary(t - 1).file
    BY <1>0, <2>1, InsideFacts
  <2>3. Inside(sess.sent, d).file = currentFile
    BY SMTT(40), <1>0, <1>2, <2>2
  <2>4. Id(t, i) = SourceID(Inside(sess.sent, d), i - Min(SharedWith(t, i)), 0)
    BY <1>0, <1>4 DEF Id, d
  <2>5. {j \in DOMAIN Entry.rows : Entry.event[j] = Entry.event[i]} = SharedWith(t, i)
    BY <1>0 DEF SharedWith
  <2>6. rowID(i) = SourceID([file |-> currentFile, pos |-> Inside(sess.sent, d).pos],
                            i - Min(SharedWith(t, i)), 0)
    BY <1>0, <1>4, <2>5 DEF rowID, d
  <2>7. rowID(i) = Id(t, i)
    BY <2>3, <2>4, <2>6 DEF SourceID
  <2> QED BY <1>1, <2>7 DEF i
<1>5. CASE binlog[t].form = "packed"
  <2>1. Id(t, i) = SourceID(Inside(sess.sent, 1), Cardinality(EmittedBefore(t, i)), 1)
    BY <1>0, <1>5 DEF Id
  <2>2. rowID(i) = SourceID(txn, txnRows, 1)
    BY <1>0, <1>5 DEF rowID
  <2>3. rowID(i) = Id(t, i)
    BY SMTT(40), <1>0, <1>2, <1>5, <2>1, <2>2
  <2> QED BY <1>1, <2>3 DEF i
<1>6. CASE binlog[t].form = "ddl"
  <2>1. rowID(i) = Id(t, i)
    BY <1>0, <1>6 DEF Id, rowID
  <2> QED BY <1>1, <2>1 DEF i
<1> QED BY <1>3, <1>4, <1>5, <1>6

\* The event emit hands to the bus.
RowEvent == [seq |-> 0, id |-> rowID(sess.at), change |-> <<sess.sent + 1, sess.at>>,
             kind |-> Entry.rows[sess.at], form |-> "full"]

\* The event of the row under the session is one the publisher publishes, under
\* the id and with the change of that row.
LEMMA RowEventType ==
  ASSUME SetLaws, Typed, SessionIsSound, AtRow, Entry.rows[sess.at] # "filtered"
  PROVE  /\ RowEvent \in Event /\ IsPublishable(RowEvent)
         /\ RowEvent.id = Id(sess.sent + 1, sess.at)
         /\ RowEvent.change = <<sess.sent + 1, sess.at>>
         /\ RowEvent.kind = Rows(sess.sent + 1)[sess.at]
<1> TypeOK
  BY DEF Typed
<1>1. /\ rowID(sess.at) = Id(sess.sent + 1, sess.at) /\ LogType
      /\ Id(sess.sent + 1, sess.at) \in Nat \X Nat
  BY RowId, IdType, SessionFacts
<1>2. Rows(sess.sent + 1)[sess.at] \in RowKind /\ Entry.rows[sess.at] = Rows(sess.sent + 1)[sess.at]
  BY <1>1, RowFacts, EntryFacts
<1>3. Entry.rows[sess.at] \in {"row", "large", "wide", "huge"}
  BY <1>2, RowKinds
<1>4. Entry.rows[sess.at] \in DOMAIN Fitting /\ Entry.rows[sess.at] # "marker"
  BY <1>3, KindFacts
<1>5. <<sess.sent + 1, sess.at>> \in Nat \X Nat /\ "full" \in Form
  BY SMTT(40), SessionFacts DEF Form
<1>6. RowEvent \in Event
  BY <1>1, <1>4, <1>5 DEF RowEvent, Event
<1>7. /\ RowEvent.id = rowID(sess.at) /\ RowEvent.change = <<sess.sent + 1, sess.at>>
      /\ RowEvent.kind = Entry.rows[sess.at]
  BY DEF RowEvent
<1> QED BY SMTT(40), <1>1, <1>2, <1>4, <1>6, <1>7 DEF IsPublishable

-----------------------------------------------------------------------------
(***************************************************************************)
(* Type correctness.                                                       *)
(***************************************************************************)
CounterType == [crashes : 0 .. MaxCrashes, saves : 0 .. MaxSaveFails, expiries : 0 .. MaxExpiries]
SessType == [up : BOOLEAN, sent : 0 .. MaxEntries, at : Nat]

\* A bounded fault that is used once more stays in its bound.
LEMMA UseType ==
  ASSUME Typed, NEW w \in {"crashes", "saves", "expiries"}, Use(w),
         \/ w = "crashes" /\ used.crashes < MaxCrashes
         \/ w = "saves" /\ used.saves < MaxSaveFails
         \/ w = "expiries" /\ used.expiries < MaxExpiries
  PROVE  used' \in CounterType
<1> TypeOK
  BY DEF Typed
<1> USE MySQLAssumption DEF TypeOK, Use, CounterType
<1>1. CASE w = "crashes"
  BY SMTT(40), <1>1
<1>2. CASE w = "saves"
  BY SMTT(40), <1>2
<1>3. CASE w = "expiries"
  BY SMTT(40), <1>3
<1> QED BY <1>1, <1>2, <1>3

\* Save writes the position and remembers it, or fails.
LEMMA SaveFacts ==
  ASSUME Typed, NEW p \in BinlogPosition, Save(p)
  PROVE  /\ offsetFile' \in {offsetFile, p} /\ offsetFile' \in BinlogPosition
         /\ savedOffset' \in BinlogPosition /\ used' \in CounterType
<1> TypeOK
  BY DEF Typed
<1>0. offsetFile \in BinlogPosition /\ savedOffset \in BinlogPosition /\ used \in CounterType
  BY DEF TypeOK, CounterType
<1>1. CASE offsetFile' = p /\ savedOffset' = p /\ UNCHANGED used
  BY <1>0, <1>1
<1>2. CASE used.saves < MaxSaveFails /\ Use("saves") /\ UNCHANGED <<offsetFile, savedOffset>>
  BY <1>0, <1>2, UseType
<1> QED BY <1>1, <1>2 DEF Save

\* What the gate lets the saver write.
LEMMA ToSaveType ==
  ASSUME SetLaws, Typed
  PROVE  ToSave \in BinlogPosition
<1> TypeOK
  BY DEF Typed
<1>1. Confirmable(gate, acked) \in CommitGateType
  BY ConfirmableFacts DEF TypeOK
<1> QED BY <1>1 DEF ToSave, CommitGateType

\* The gate stays a gate.
LEMMA CommittedType ==
  ASSUME NEW g \in CommitGateType, NEW p \in BinlogPosition
  PROVE  Committed(g, p) \in CommitGateType
<1>1. CASE Resumable(p)
  BY <1>1, CommittedFacts
<1>2. CASE ~Resumable(p)
  BY <1>2 DEF Committed
<1> QED BY <1>1, <1>2

\* The types of what the handler changes.
LEMMA CanalTypes ==
  ASSUME SetLaws, Typed, SessionIsSound, CanalCalls
  PROVE  /\ gate' \in CommitGateType /\ sess' \in SessType
         /\ currentFile' \in Nat /\ txn' \in BinlogPosition /\ txnRows' \in Nat
         /\ handing' \in BOOLEAN /\ chan' \in Seq(Event) /\ Len(chan') <= BufCap
         /\ UNCHANGED <<publisherVars, restVars>>
<1> TypeOK
  BY DEF Typed
<1>0. /\ gate \in CommitGateType /\ sess \in SessType /\ txn \in BinlogPosition
      /\ currentFile \in Nat /\ txnRows \in Nat /\ handing \in BOOLEAN
      /\ chan \in Seq(Event) /\ Len(chan) <= BufCap
  BY DEF TypeOK, SessType, PubTypeOK
<1>a. /\ MaxEntries \in Nat /\ sess.sent \in 0 .. MaxEntries /\ sess.at \in Nat
      /\ sess.at # 0 => sess.sent + 1 \in 1 .. MaxEntries
  BY SessionFacts
<1>b. ASSUME sess.sent + 1 \in 1 .. MaxEntries, EntryDone
      PROVE  sess' \in SessType
  <2>1. sess.sent + 1 \in 0 .. MaxEntries
    BY SMTT(40), <1>a, <1>b
  <2> DEFINE n == sess.sent + 1
  <2>2. sess' = [sess EXCEPT !.sent = n, !.at = 0]
    BY <1>0, <1>b DEF EntryDone, SessType
  <2> HIDE DEF n
  <2> QED BY <1>0, <2>1, <2>2 DEF n, SessType
<1>c. ASSUME sess' = [sess EXCEPT !.at = 1] \/ sess' = [sess EXCEPT !.at = @ + 1]
      PROVE  sess' \in SessType
  BY SMTT(40), <1>0, <1>c DEF SessType
<1>d. ASSUME NEW t \in 0 .. MaxEntries
      PROVE  /\ Boundary(t) \in BinlogPosition /\ Committed(gate, Boundary(t)) \in CommitGateType
             /\ Boundary(t).file \in Nat /\ Boundary(t).pos \in Nat
  BY <1>0, BoundaryType, CommittedType
<1>e. AtEntry => sess.sent + 1 \in 1 .. MaxEntries
  BY SMTT(40), SessionFacts DEF AtEntry
<1>1. CASE OnGTID
  <2>1. Inside(sess.sent, 1).pos \in Nat
    <3>1. Inside(sess.sent, 1).pos = Boundary(sess.sent).pos + 1
      BY <1>a, <1>d DEF Inside, BinlogPosition
    <3> QED BY SMTT(40), <1>a, <1>d, <3>1
  <2>2. txn' = [file |-> currentFile, pos |-> Inside(sess.sent, 1).pos]
    BY <1>1 DEF OnGTID
  <2>3. txn' \in BinlogPosition
    BY <1>0, <2>1, <2>2 DEF BinlogPosition
  <2> DEFINE p == [file |-> currentFile, pos |-> Boundary(sess.sent).pos]
  <2>4. p \in BinlogPosition
    BY <1>0, <1>a, <1>d DEF BinlogPosition
  <2>5. gate' = Committed(gate, p)
    BY <1>1 DEF OnGTID
  <2> HIDE DEF p
  <2>6. gate' \in CommitGateType
    BY <1>0, <2>4, <2>5, CommittedType
  <2>7. sess' \in SessType
    BY <1>1, <1>c DEF OnGTID
  <2> QED BY SMTT(25), <1>0, <1>1, <2>3, <2>6, <2>7 DEF OnGTID, pubVars, publisherVars
<1>2. CASE EmitToBus
  <2>1. RowEvent \in Event /\ HandleEvent(RowEvent)
    BY <1>2, RowEventType DEF EmitToBus, RowEvent
  <2>2. chan' \in Seq(Event) /\ Len(chan') <= BufCap
    BY <2>1, HandleEventType DEF TypeOK
  <2>3. txnRows' \in Nat
    BY SMTT(40), <1>0, <1>2 DEF EmitToBus
  <2>4. handing' \in BOOLEAN /\ UNCHANGED <<publisherVars, restVars, sess, gate, currentFile, txn>>
    BY <1>2 DEF EmitToBus
  <2> QED BY <1>0, <2>2, <2>3, <2>4
<1>3. CASE EmitHand
  <2>1. gate' \in CommitGateType /\ sess' \in SessType
    BY <1>0, <1>3, <1>c, HandFacts DEF EmitHand
  <2>2. handing' \in BOOLEAN /\ UNCHANGED <<pubVars, restVars, handlerVars>>
    BY <1>3 DEF EmitHand
  <2> QED BY <1>0, <2>1, <2>2 DEF pubVars, publisherVars, handlerVars
<1>4. CASE FilteredRow
  <2>1. sess' \in SessType
    BY <1>4, <1>c DEF FilteredRow
  <2>2. UNCHANGED <<pubVars, restVars, handing, gate, handlerVars>>
    BY <1>4 DEF FilteredRow
  <2> QED BY <1>0, <2>1, <2>2 DEF pubVars, publisherVars, handlerVars
<1>5. CASE OnXID
  <2>0. sess.sent + 1 \in 1 .. MaxEntries
    BY <1>5, <1>a DEF OnXID, AtEnd
  <2>1. sess' \in SessType
    BY <1>5, <1>b, <2>0 DEF OnXID
  <2>2. chan' \in Seq(Event) /\ Len(chan') <= BufCap
    BY <1>5, HandleEventType, KindFacts DEF TypeOK, OnXID
  <2>3. gate' \in CommitGateType
    <3>1. [Boundary(sess.sent) EXCEPT !.pos = 0] \in BinlogPosition
      BY <1>a, <1>d DEF BinlogPosition
    <3>2. sess.sent + 1 \in 0 .. MaxEntries
      BY SMTT(40), <2>0
    <3> QED BY <1>0, <1>5, <1>d, <3>1, <3>2, CommittedType DEF OnXID
  <2>4. UNCHANGED <<publisherVars, restVars, handing, handlerVars>>
    BY <1>5 DEF OnXID
  <2> QED BY <1>0, <2>1, <2>2, <2>3, <2>4 DEF handlerVars
<1>6. CASE OnDDL
  <2>0. sess.sent + 1 \in 1 .. MaxEntries /\ sess.sent + 1 \in 0 .. MaxEntries
    BY SMTT(40), <1>6, <1>a DEF OnDDL, AtEnd
  <2>1. sess' \in SessType /\ gate' \in CommitGateType
    BY <1>6, <1>b, <1>d, <2>0 DEF OnDDL
  <2>2. UNCHANGED <<pubVars, restVars, handing, handlerVars>>
    BY <1>6 DEF OnDDL
  <2> QED BY <1>0, <2>1, <2>2 DEF pubVars, publisherVars, handlerVars
<1>7. CASE OnRotate
  <2>0. sess.sent + 1 \in 1 .. MaxEntries /\ sess.sent + 1 \in 0 .. MaxEntries
    BY SMTT(40), <1>7, <1>e DEF OnRotate
  <2>1. sess' \in SessType /\ gate' \in CommitGateType /\ currentFile' \in Nat
    BY <1>7, <1>b, <1>d, <2>0 DEF OnRotate
  <2>2. UNCHANGED <<pubVars, restVars, handing, txn, txnRows>>
    BY <1>7 DEF OnRotate
  <2> QED BY <1>0, <2>1, <2>2 DEF pubVars, publisherVars
<1> QED BY <1>1, <1>2, <1>3, <1>4, <1>5, <1>6, <1>7 DEF CanalCalls

\* Where a process starts.
LEMMA StartPosition ==
  ASSUME SetLaws, Typed
  PROVE  startPos \in BinlogPosition
<1> TypeOK
  BY DEF Typed
<1>1. committed \in 0 .. MaxEntries /\ offsetFile \in BinlogPosition
  BY DEF TypeOK
<1> QED BY <1>1, BoundaryType DEF startPos

\* A process that ends leaves an empty publisher, gate and session.
LEMMA MemoryLostTypes ==
  ASSUME Typed, MemoryLost, offsetFile' \in BinlogPosition
  PROVE  Typed'
<1> SUFFICES ASSUME TypeOK
             PROVE  TypeOK'
  BY DEF Typed
<1>1. PubTypeOK'
  BY PublisherTypes DEF MemoryLost, TypeOK
<1>2. used' \in CounterType
  BY UseType DEF MemoryLost
<1>3. gate' \in CommitGateType /\ sess' \in SessType /\ NoPosition \in BinlogPosition
  BY SMTT(40), MySQLAssumption
     DEF MemoryLost, newCommitGate, CommitGateType, NoSession, SessType, NoPosition, BinlogPosition
<1>4. /\ handing' \in BOOLEAN /\ mysqlFailed' \in BOOLEAN
      /\ savedOffset' = NoPosition /\ txn' = NoPosition
      /\ acked' = 0 /\ currentFile' = 0 /\ txnRows' = 0 /\ proc' = "down"
      /\ UNCHANGED <<binlog, committed, skipped>>
  BY DEF MemoryLost, dbVars
<1>5. acked' \in Nat /\ currentFile' \in Nat /\ txnRows' \in Nat /\ proc' \in {"up", "down"}
  BY <1>4
<1>6. /\ binlog' \in [1 .. MaxEntries -> Entries] /\ committed' \in 0 .. MaxEntries
      /\ skipped' \in SUBSET (1 .. MaxEntries)
  BY <1>4 DEF TypeOK
<1> QED BY <1>1, <1>2, <1>3, <1>4, <1>5, <1>6 DEF TypeOK, CounterType, SessType

\* Every step is well typed.
LEMMA TypeStep ==
  ASSUME SetLaws, Typed, SessionIsSound, Next
  PROVE  Typed'
<1> SUFFICES ASSUME TypeOK
             PROVE  TypeOK'
  BY DEF Typed
<1>a. PubTypeOK /\ used \in CounterType /\ sess \in SessType
  BY DEF TypeOK, CounterType, SessType
<1>1. CASE CanalCalls
  <2>1. /\ gate' \in CommitGateType /\ sess' \in SessType
        /\ currentFile' \in Nat /\ txn' \in BinlogPosition /\ txnRows' \in Nat
        /\ handing' \in BOOLEAN /\ chan' \in Seq(Event) /\ Len(chan') <= BufCap
        /\ UNCHANGED <<publisherVars, restVars>>
    BY <1>1, CanalTypes
  <2>2. PubTypeOK'
    BY <1>a, <2>1 DEF PubTypeOK, publisherVars
  <2> QED BY <2>1, <2>2 DEF TypeOK, SessType, restVars, dbVars
<1>2. CASE DbCommit
  <2>1. committed' \in 0 .. MaxEntries
    BY SMTT(40), <1>2, MySQLAssumption DEF DbCommit, TypeOK
  <2>2. UNCHANGED <<pubVars, binlog, offsetFile, savedOffset, sess, handing, gate, acked,
                 handlerVars, mysqlFailed, proc, skipped, used>>
    BY <1>2 DEF DbCommit
  <2> QED BY <2>1, <2>2 DEF TypeOK, PubTypeOK, pubVars, handlerVars
<1>3. CASE StartProcess
  <2>1. startPos \in BinlogPosition
    BY StartPosition
  <2>2. /\ offsetFile' \in BinlogPosition /\ savedOffset' \in BinlogPosition
        /\ used' \in CounterType /\ skipped' \in SUBSET (1 .. MaxEntries)
    <3>1. CASE offsetFile = NoPosition
      <4>1. Save(startPos) /\ skipped' = skipped \cup (1 .. committed)
        BY <1>3, <3>1 DEF StartProcess, resolveStartPosition
      <4>2. skipped' \in SUBSET (1 .. MaxEntries)
        BY SMTT(40), <4>1, MySQLAssumption DEF TypeOK
      <4> QED BY <2>1, <4>1, <4>2, SaveFacts
    <3>2. CASE offsetFile # NoPosition
      <4>1. UNCHANGED <<offsetFile, savedOffset, skipped, used>>
        BY <1>3, <3>2 DEF StartProcess, resolveStartPosition
      <4> QED BY <1>a, <4>1 DEF TypeOK
    <3> QED BY <3>1, <3>2
  <2>3. /\ currentFile' = startPos.file /\ proc' = "up"
        /\ sess' = [up |-> TRUE, sent |-> Rank(startPos), at |-> 0]
        /\ UNCHANGED <<pubVars, dbVars, handing, gate, acked, txn, txnRows, mysqlFailed>>
    BY <1>3 DEF StartProcess
  <2>4. currentFile' \in Nat /\ proc' \in {"up", "down"} /\ sess' \in SessType
    BY <2>1, <2>3, RankType DEF BinlogPosition, SessType
  <2> QED BY <2>2, <2>3, <2>4
          DEF TypeOK, PubTypeOK, pubVars, dbVars, CounterType, SessType
<1>4. CASE Crash
  <2>1. offsetFile' \in BinlogPosition
    BY <1>4 DEF Crash, TypeOK
  <2> QED BY <1>4, <2>1, MemoryLostTypes DEF Crash, Typed
<1>5. CASE StopProcess
  <2>1. offsetFile' \in BinlogPosition
    BY <1>5, ToSaveType DEF StopProcess, TypeOK
  <2> QED BY <1>5, <2>1, MemoryLostTypes DEF StopProcess, Typed
<1>6. CASE OffsetSaver
  <2>1. /\ offsetFile' \in BinlogPosition /\ savedOffset' \in BinlogPosition
        /\ used' \in CounterType
    <3>1. CASE SaveIsDue
      BY <1>6, <3>1, ToSaveType, SaveFacts DEF OffsetSaver
    <3>2. CASE ~SaveIsDue
      BY <1>6, <1>a, <3>2 DEF OffsetSaver, TypeOK
    <3> QED BY <3>1, <3>2
  <2>2. gate' \in CommitGateType
    BY <1>6, ConfirmableFacts DEF OffsetSaver, TypeOK
  <2>3. UNCHANGED <<pubVars, dbVars, sess, handing, acked, handlerVars, mysqlFailed, proc, skipped>>
    BY <1>6 DEF OffsetSaver
  <2> QED BY <2>1, <2>2, <2>3
          DEF TypeOK, PubTypeOK, pubVars, dbVars, handlerVars, CounterType
<1>7. CASE CanalFails
  <2>1. sess' \in SessType
    BY SMTT(40), <1>7, MySQLAssumption DEF CanalFails, NoSession, SessType
  <2>2. /\ mysqlFailed' \in BOOLEAN
        /\ UNCHANGED <<pubVars, dbVars, offsetFile, savedOffset, handing, gate, acked, handlerVars,
                       proc, skipped, used>>
    BY <1>7 DEF CanalFails
  <2> QED BY <2>1, <2>2 DEF TypeOK, PubTypeOK, pubVars, dbVars, handlerVars, SessType
<1>8. CASE PublishAndObserve
  <2>1. PubTypeOK'
    BY <1>8, <1>a, PublisherTypes DEF PublishAndObserve
  <2>2. acked' \in Nat
    BY SMTT(40), <1>8 DEF PublishAndObserve, TypeOK
  <2>3. UNCHANGED <<listenerVars, used>>
    BY <1>8 DEF PublishAndObserve
  <2> QED BY <2>1, <2>2, <2>3 DEF TypeOK, listenerVars, dbVars, handlerVars
<1>9. CASE PublisherRuns \/ NatsChanges \/ Signal \/ MainReacts
  <2>1. PubTypeOK'
    BY <1>9, <1>a, PublisherTypes DEF PublisherRuns, NatsChanges, Signal, MainReacts
  <2>2. UNCHANGED <<listenerVars, acked, used>>
    BY <1>9 DEF PublisherRuns, NatsChanges, Signal, MainReacts
  <2> QED BY <2>1, <2>2 DEF TypeOK, listenerVars, dbVars, handlerVars
<1>10. CASE WindowMoves
  <2>1. PubTypeOK'
    BY <1>10, <1>a, PublisherTypes DEF WindowMoves
  <2>2. used' \in CounterType
    BY <1>10, UseType DEF WindowMoves
  <2>3. UNCHANGED <<listenerVars, acked>>
    BY <1>10 DEF WindowMoves
  <2> QED BY <2>1, <2>2, <2>3 DEF TypeOK, listenerVars, dbVars, handlerVars, CounterType
<1> QED BY SMTT(25), <1>1, <1>2, <1>3, <1>4, <1>5, <1>6, <1>7, <1>8, <1>9, <1>10 DEF Next

\* The process that has not started satisfies the invariant.
LEMMA InitHolds ==
  ASSUME SetLaws
  PROVE  Init => Typed /\ Sound
<1> SUFFICES Init => TypeOK /\ IInv
  BY DEF Typed, Sound
<1> SUFFICES ASSUME Init PROVE TypeOK /\ IInv
  OBVIOUS
<1> USE DEF Init
<1>1. TypeOK
  <2>1. PubTypeOK
    BY PubInitType
  <2>2. gate \in CommitGateType /\ sess \in SessType /\ NoPosition \in BinlogPosition
    BY SMTT(40), MySQLAssumption
       DEF newCommitGate, CommitGateType, NoSession, SessType, NoPosition, BinlogPosition
  <2>3. used \in CounterType
    BY SMTT(40), MySQLAssumption DEF CounterType
  <2>4. handing \in BOOLEAN /\ mysqlFailed \in BOOLEAN
    OBVIOUS
  <2>5. /\ committed \in 0 .. MaxEntries /\ acked \in Nat /\ currentFile \in Nat /\ txnRows \in Nat
        /\ proc \in {"up", "down"} /\ skipped \in SUBSET (1 .. MaxEntries)
    BY SMTT(40), MySQLAssumption
  <2> QED BY <2>1, <2>2, <2>3, <2>4, <2>5 DEF TypeOK, CounterType, SessType
<1>2. Queue = {} /\ chan = <<>> /\ cur = NoEvent /\ pub = "await" /\ ~ctxDone /\ stream = <<>>
      /\ remembered = {}
  BY SMTT(40), KindFacts DEF Queue, PubInit
<1>3. Waiting = {} /\ IsFiniteSet(Waiting) /\ Cardinality(Waiting) = 0
  BY <1>2, CountEmpty DEF Waiting
<1>4. gate.commits = <<>> /\ gate.handed = 0 /\ gate.confirmable = NoPosition
  BY DEF newCommitGate
<1>5. Emitted = 0
  BY SMTT(40), <1>4 DEF Emitted
<1>6. WaitingIsCounted
  BY SMTT(40), <1>3, <1>5 DEF WaitingIsCounted
<1>7. QueueInOrder /\ EventsAreChanges /\ MessagesAreChanges
  BY SMTT(40), <1>2 DEF QueueInOrder, EventsAreChanges, MessagesAreChanges
<1>8. SessionIsSound
  BY SMTT(40), <1>2 DEF SessionIsSound, NoSession, ProcessIsDown
<1>a. Marks = {}
  BY SMTT(40), <1>4 DEF Marks
<1>9. StreamedIsAccounted /\ CommitsAreAccounted /\ CommitsInOrder /\ QueueHasNoGaps
  <2>1. Len(gate.commits) = 0 /\ ~sess.up
    BY <1>4 DEF Init, NoSession
  <2>2. StreamedIsAccounted
    BY <2>1 DEF StreamedIsAccounted
  <2>3. CommitsAreAccounted /\ CommitsInOrder
    BY SMTT(40), <1>a, <2>1 DEF CommitsAreAccounted, CommitsInOrder
  <2>4. QueueHasNoGaps
    BY <1>3 DEF QueueHasNoGaps
  <2> QED BY <2>2, <2>3, <2>4
<1>10. PositionsAreDelivered
  <2>1. 0 \in Settled
    BY SMTT(40), MySQLAssumption DEF Settled, Contract!DeliveredUpTo
  <2> QED BY <1>4, <1>a, <2>1, RankOfNone DEF PositionsAreDelivered, NoSession
<1>11. SkippedIsPrefix
  <2>1. 0 \in 0 .. committed /\ skipped = 1 .. 0
    BY SMTT(40)
  <2> QED BY <2>1 DEF SkippedIsPrefix
<1> QED BY <1>1, <1>6, <1>7, <1>8, <1>9, <1>10, <1>11 DEF IInv

-----------------------------------------------------------------------------
(***************************************************************************)
(* The account.                                                            *)
(***************************************************************************)
\* What is owed: a deliverable row of an entry that no first start left out.
LEMMA OwedFacts ==
  ASSUME NEW t \in 1 .. MaxEntries, NEW i
  PROVE  Contract!Owed(t, i) <=> t \notin skipped /\ i \in DOMAIN Rows(t) /\ Rows(t)[i] \in Deliverable
BY DEF Contract!Owed, Rows

\* What delivered up to an entry means, spelled out over the rows.
LEMMA DeliveredFacts ==
  ASSUME NEW t \in 0 .. MaxEntries
  PROVE  Contract!DeliveredUpTo(t) <=>
           \A u \in 1 .. t : \A i \in DOMAIN Rows(u) : Contract!Owed(u, i) => <<u, i>> \in Stored
<1>1. \A u \in 1 .. t : u \in 1 .. MaxEntries
  BY SMTT(40), MySQLAssumption
<1>2. \A u \in 1 .. t : [x \in 1 .. MaxEntries |-> binlog[x].rows][u] = Rows(u)
  BY <1>1 DEF Rows
<1> QED BY <1>2 DEF Contract!DeliveredUpTo

\* What waits for the publisher are pairs of numbers.
LEMMA WaitingType ==
  ASSUME Typed
  PROVE  \A c \in Waiting : c = <<c[1], c[2]>> /\ c[1] \in Nat /\ c[2] \in Nat
<1> TypeOK
  BY DEF Typed
<1> QED BY QueueType DEF Waiting, TypeOK

\* The listener has emitted what it handed, and the event in its hand.
LEMMA EmittedType ==
  ASSUME Typed
  PROVE  /\ Emitted \in Nat /\ gate.handed \in Nat /\ gate.handed <= Emitted
         /\ Emitted = IF handing THEN gate.handed + 1 ELSE gate.handed
<1> TypeOK
  BY DEF Typed
<1>1. gate.handed \in Nat
  BY DEF TypeOK, CommitGateType
<1>2. CASE handing
  BY SMTT(40), <1>1, <1>2 DEF Emitted
<1>3. CASE ~handing
  BY SMTT(40), <1>1, <1>3 DEF Emitted
<1> QED BY <1>1, <1>2, <1>3

\* While an event from before the mark waits, the acks are short of its count.
LEMMA Counted ==
  ASSUME SetLaws, Typed, WaitingIsCounted, NEW n \in Nat, NEW t \in Nat,
         (\E c \in Waiting : c[1] <= t) => Cardinality(WaitingAfter(t)) = Emitted - n,
         NEW d \in Waiting, d[1] <= t
  PROVE  acked < n
<1> TypeOK
  BY DEF Typed
<1> DEFINE A == WaitingAfter(t)
<1>1. A \in SUBSET Waiting /\ d \notin A /\ A \cup {d} \in SUBSET Waiting
  BY SMTT(40), WaitingType DEF WaitingAfter
<1>2. Cardinality(A) = Emitted - n
  OBVIOUS
<1> HIDE DEF A
<1>3. IsFiniteSet(Waiting) /\ acked + Cardinality(Waiting) <= Emitted
  BY DEF WaitingIsCounted
<1>4. IsFiniteSet(A) /\ Cardinality(A \cup {d}) <= Cardinality(Waiting)
  BY <1>1, <1>3, CountSubset
<1>5. Cardinality(A \cup {d}) = Cardinality(A) + 1
  BY <1>1, <1>4, CountAdd
<1>6. Cardinality(A) \in Nat /\ Cardinality(Waiting) \in Nat
  BY <1>3, <1>4, CountType
<1>7. acked \in Nat /\ Emitted \in Nat
  BY EmittedType DEF TypeOK
<1> QED BY SMTT(40), <1>2, <1>3, <1>4, <1>5, <1>6, <1>7

\* Nothing waits that is not counted.
LEMMA CountedLast ==
  ASSUME SetLaws, Typed, WaitingIsCounted, NEW d \in Waiting
  PROVE  acked < Emitted
<1> TypeOK
  BY DEF Typed
<1>1. IsFiniteSet(Waiting) /\ acked + Cardinality(Waiting) <= Emitted
  BY DEF WaitingIsCounted
<1>2. Cardinality(Waiting) \in Nat /\ Cardinality(Waiting) # 0
  BY <1>1, CountType, CountEmpty
<1>3. acked \in Nat /\ Emitted \in Nat
  BY EmittedType DEF TypeOK
<1> QED BY SMTT(40), <1>1, <1>2, <1>3

\* What is up to a count that is acked is stored.
LEMMA AckedIsStored ==
  ASSUME SetLaws, Typed, WaitingIsCounted, NEW n \in Nat, NEW t \in 0 .. MaxEntries, Divides(n, t), n <= acked
  PROVE  Contract!DeliveredUpTo(t)
<1> TypeOK
  BY DEF Typed
<1>0. acked \in Nat /\ t \in Nat
  BY SMTT(40) DEF TypeOK
<1> SUFFICES ASSUME NEW u \in 1 .. t, NEW i \in DOMAIN Rows(u), Contract!Owed(u, i)
             PROVE  <<u, i>> \in Stored
  BY DeliveredFacts
<1>1. Accounted(u, i, n)
  BY DEF Divides
<1>2. ~(acked < n)
  BY SMTT(40), <1>0
<1>3. <<u, i>> \notin Waiting
  <2> SUFFICES ASSUME <<u, i>> \in Waiting PROVE FALSE
    OBVIOUS
  <2>1. <<u, i>>[1] <= t
    BY SMTT(40)
  <2> QED BY <1>0, <1>2, <2>1, Counted DEF Divides
<1> QED BY <1>1, <1>2, <1>3 DEF Accounted

\* A step of the publisher: a prefix of what waits is stored, given up or lost to
\* the end of the process.
Shrinks ==
  /\ binlog' = binlog /\ Emitted' = Emitted
  /\ Stored \subseteq Stored' /\ (Halted => Halted' /\ acked' = acked)
  /\ Waiting' \subseteq Waiting
  /\ \A t, i : Contract!Owed(t, i)' => Contract!Owed(t, i)
  /\ \A t, i : <<t, i>> \in Waiting /\ Contract!Owed(t, i)' =>
       <<t, i>> \in Waiting' \/ <<t, i>> \in Stored' \/ (Halted' /\ acked' = acked)
  /\ \A c \in Waiting', d \in Waiting \ Waiting' : Precedes(d, c)

\* A change that is accounted for stays so: its event is stored, or it still waits,
\* or the publisher stopped before it acknowledged it.
LEMMA AccountKept ==
  ASSUME Typed, Shrinks, NEW u, NEW i, NEW n, Contract!Owed(u, i)', Accounted(u, i, n),
         <<u, i>> \in Waiting => acked < n
  PROVE  \/ <<u, i>> \in Stored' \/ <<u, i>> \in Waiting' \/ (Halted' /\ acked' < n)
<1> TypeOK
  BY DEF Typed
<1>1. CASE <<u, i>> \in Stored
  BY <1>1 DEF Shrinks
<1>2. CASE Halted /\ acked < n
  BY <1>2 DEF Shrinks
<1>3. CASE <<u, i>> \in Waiting
  BY <1>3 DEF Shrinks
<1> QED BY <1>1, <1>2, <1>3 DEF Accounted

\* A count that divides the log into what came before and after stays one.
LEMMA DividesKept ==
  ASSUME SetLaws, Typed, WaitingIsCounted, Shrinks, NEW n \in Nat, NEW t \in Nat, Divides(n, t)
  PROVE  Divides(n, t)'
<1> TypeOK
  BY DEF Typed
<1>1. ASSUME NEW c \in Waiting', c[1] <= t
      PROVE  Cardinality(WaitingAfter(t)') = Emitted' - n
  <2>1. c \in Waiting /\ c[1] \in Nat
    BY WaitingType DEF Shrinks
  <2>2. \A d \in Waiting \ Waiting' : d[1] <= c[1]
    BY SMTT(40), <2>1, WaitingType DEF Shrinks, Precedes
  <2>3. \A d \in Waiting : d[1] > t => d \in Waiting'
    BY SMTT(40), <1>1, <2>1, <2>2, WaitingType
  <2>4. WaitingAfter(t)' = WaitingAfter(t)
    BY <2>3 DEF WaitingAfter, Shrinks
  <2>5. Cardinality(WaitingAfter(t)) = Emitted - n
    BY <1>1, <2>1 DEF Divides
  <2> QED BY <2>4, <2>5 DEF Shrinks
<1>2. ASSUME NEW u \in 1 .. t, NEW i \in DOMAIN Rows(u)', Contract!Owed(u, i)'
      PROVE  \/ <<u, i>> \in Stored' \/ <<u, i>> \in Waiting' \/ (Halted' /\ acked' < n)
  <2>1. Contract!Owed(u, i) /\ i \in DOMAIN Rows(u)
    BY <1>2 DEF Shrinks, Rows
  <2>2. Accounted(u, i, n)
    BY <2>1 DEF Divides
  <2>3. <<u, i>> \in Waiting => acked < n
    <3> SUFFICES ASSUME <<u, i>> \in Waiting PROVE acked < n
      OBVIOUS
    <3>1. <<u, i>>[1] <= t
      BY SMTT(40)
    <3> QED BY <3>1, Counted DEF Divides
  <2> QED BY <1>2, <2>2, <2>3, AccountKept
<1> QED BY <1>1, <1>2 DEF Divides, Accounted

\* A change that the last emitted event accounts for stays accounted for.
LEMMA LastKept ==
  ASSUME SetLaws, Typed, WaitingIsCounted, Shrinks, NEW t, NEW i,
         Contract!Owed(t, i)', Accounted(t, i, Emitted)
  PROVE  Accounted(t, i, Emitted)'
<1> TypeOK
  BY DEF Typed
<1>1. <<t, i>> \in Waiting => acked < Emitted
  BY CountedLast
<1>2. \/ <<t, i>> \in Stored' \/ <<t, i>> \in Waiting' \/ (Halted' /\ acked' < Emitted)
  BY <1>1, AccountKept
<1> QED BY <1>2 DEF Accounted, Shrinks

\* The queue gets no gaps where it only shrinks at its head.
LEMMA GapsKept ==
  ASSUME Typed, QueueHasNoGaps, Shrinks
  PROVE  QueueHasNoGaps'
<1> TypeOK
  BY DEF Typed
<1> SUFFICES ASSUME NEW c \in Waiting', NEW t \in 1 .. c[1], NEW i \in DOMAIN Rows(t)',
                    Precedes(<<t, i>>, c), Contract!Owed(t, i)'
             PROVE  <<t, i>> \in Stored' \/ <<t, i>> \in Waiting' \/ Halted'
  BY DEF QueueHasNoGaps, Precedes
<1>1. c \in Waiting /\ Contract!Owed(t, i) /\ i \in DOMAIN Rows(t)
  BY DEF Shrinks, Rows
<1>2. <<t, i>> \in Stored \/ <<t, i>> \in Waiting \/ Halted
  BY <1>1 DEF QueueHasNoGaps
<1> QED BY <1>2 DEF Shrinks

-----------------------------------------------------------------------------
(***************************************************************************)
(* JetStream.                                                              *)
(***************************************************************************)
\* A message that names a change carries the id of that row.
LEMMA NamesRow ==
  ASSUME SetLaws, Typed, NEW x, NEW c, Names(x, c)
  PROVE  IsRow(c[1], c[2]) /\ c[1] \in Nat \ {0} /\ c[2] \in Nat \ {0} /\ x = Id(c[1], c[2])
<1> TypeOK
  BY DEF Typed
<1>1. LogType /\ committed \in 0 .. MaxEntries /\ MaxEntries \in Nat
  BY MySQLAssumption DEF TypeOK, LogType
<1>2. /\ c[1] \in 1 .. committed /\ c[2] \in DOMAIN Rows(c[1]) /\ Rows(c[1])[c[2]] # "filtered"
      /\ x = Id(c[1], c[2])
  BY DEF Names, IsChange
<1>3. c[1] \in 1 .. MaxEntries
  BY SMTT(40), <1>1, <1>2
<1>4. IsRow(c[1], c[2])
  BY <1>2, <1>3 DEF IsRow
<1> QED BY SMTT(40), <1>1, <1>2, <1>3, <1>4, IdFacts

\* An id names one change.
LEMMA NamesOne ==
  ASSUME SetLaws, Typed, NEW x, NEW c, NEW d, Names(x, c), Names(x, d)
  PROVE  c[1] = d[1] /\ c[2] = d[2]
<1> TypeOK
  BY DEF Typed
<1>1. /\ IsRow(c[1], c[2]) /\ c[1] \in Nat /\ c[2] \in Nat /\ x = Id(c[1], c[2])
  BY NamesRow
<1>2. /\ IsRow(d[1], d[2]) /\ d[1] \in Nat /\ d[2] \in Nat /\ x = Id(d[1], d[2])
  BY NamesRow
<1>3. LogType
  BY DEF TypeOK, LogType
<1> QED BY <1>1, <1>2, <1>3, IdInjective

\* What an id names does not change as the log grows.
LEMMA NamesKept ==
  ASSUME Typed, binlog' = binlog, committed' \in 0 .. MaxEntries, committed' >= committed
  PROVE  \A x, c : Names(x, c) => Names(x, c)'
<1> TypeOK
  BY DEF Typed
<1>1. committed \in 0 .. MaxEntries /\ MaxEntries \in Nat
  BY MySQLAssumption DEF TypeOK
<1>2. \A t : t \in 1 .. committed => t \in 1 .. committed'
  BY SMTT(40), <1>1
<1>3. (\A t, i : Id(t, i)' = Id(t, i)) /\ (\A t : Rows(t)' = Rows(t))
  BY LogFixed
<1> QED BY <1>2, <1>3 DEF Names, IsChange

\* JetStream comes to hold the event's change, whether it stores the message or
\* finds its id in the duplicate window: the id names that change.
LEMMA StoreFacts ==
  ASSUME SetLaws, Typed, EventsAreChanges, MessagesAreChanges, NEW e \in Queue, Store(e),
         binlog' = binlog, committed' = committed
  PROVE  Stored' = Stored \cup {e.change} /\ MessagesAreChanges'
<1> TypeOK
  BY DEF Typed
<1>a. stream \in Seq(Message) /\ e \in Event /\ PubTypeOK
  BY QueueType DEF TypeOK, PubTypeOK
<1>b. Names(e.id, e.change) /\ e.change = <<e.change[1], e.change[2]>>
  BY QueueType DEF EventsAreChanges, TypeOK
<1>c. \A x, c : Names(x, c) => Names(x, c)'
  <2>1. committed' \in 0 .. MaxEntries /\ committed' >= committed
    BY SMTT(40) DEF TypeOK
  <2> QED BY <2>1, NamesKept
<1>1. CASE stream' = stream /\ remembered' = remembered /\ e.id \in remembered
  <2>2. PICK k \in 1 .. Len(stream) : stream[k].id = e.id
    BY <1>1 DEF MessagesAreChanges
  <2>3. Names(e.id, stream[k].change)
    BY <2>2 DEF MessagesAreChanges
  <2>4. stream[k].change[1] = e.change[1] /\ stream[k].change[2] = e.change[2]
    BY SMTT(40), <1>b, <2>3, NamesOne
  <2>5. stream[k].change = e.change
    BY <1>b, <2>4, MessageType DEF TypeOK
  <2>6. Stored' = Stored \cup {e.change}
    BY <1>1, <2>5 DEF Stored
  <2>7. MessagesAreChanges'
    BY <1>c, <1>1 DEF MessagesAreChanges
  <2> QED BY <2>6, <2>7
<1>2. CASE /\ remembered' = remembered \cup {e.id}
           /\ Len(stream) \in Nat /\ Len(stream') = Len(stream) + 1
           /\ \A k \in 1 .. Len(stream) : stream'[k] = stream[k]
           /\ stream'[Len(stream) + 1].id = e.id
           /\ stream'[Len(stream) + 1].change = e.change
  <2>4. /\ \A k \in 1 .. Len(stream') : k \in 1 .. Len(stream) \/ k = Len(stream) + 1
        /\ \A k \in 1 .. Len(stream) : k \in 1 .. Len(stream')
        /\ Len(stream) + 1 \in 1 .. Len(stream')
    BY SMTT(40), <1>2
  <2>5. Stored' = Stored \cup {e.change}
    <3>1. \A x \in Stored' : x \in Stored \cup {e.change}
      BY <1>2, <2>4 DEF Stored
    <3>2. \A x \in Stored : x \in Stored'
      BY <1>2, <2>4 DEF Stored
    <3>3. e.change \in Stored'
      BY <1>2, <2>4 DEF Stored
    <3> QED BY <3>1, <3>2, <3>3
  <2>6. \A k \in 1 .. Len(stream') : Names(stream'[k].id, stream'[k].change)
    BY <1>b, <1>2, <2>4 DEF MessagesAreChanges
  <2>7. \A x \in remembered' : \E k \in 1 .. Len(stream') : stream'[k].id = x
    BY SMTT(25), <1>2, <2>4 DEF MessagesAreChanges
  <2>8. (\A t, i : Id(t, i)' = Id(t, i)) /\ (\A t : Rows(t)' = Rows(t))
    BY LogFixed
  <2>9. (\A k \in 1 .. Len(stream) : Names(stream[k].id, stream[k].change))'
    BY <2>6, <2>8 DEF Names, IsChange
  <2> QED BY <2>5, <2>7, <2>9 DEF MessagesAreChanges
<1>3. IF e.id \in remembered THEN stream' = stream /\ remembered' = remembered
      ELSE remembered' = remembered \cup {e.id}
  BY DEF Store
<1>4. remembered' = remembered => e.id \in remembered
  BY <1>3
<1> QED BY <1>a, <1>1, <1>2, <1>3, <1>4, StoreAppends

\* An event the publisher works on after a step is one it worked on before.
Descends ==
  \A f \in Queue' : \E e \in Queue : e.id = f.id /\ e.change = f.change /\ e.kind = f.kind

\* Events that descend from the old ones still stand for changes.
LEMMA EventsKept ==
  ASSUME Typed, EventsAreChanges, Descends,
         binlog' = binlog, committed' \in 0 .. MaxEntries, committed' >= committed
  PROVE  EventsAreChanges'
<1> TypeOK
  BY DEF Typed
<1>1. (\A t : Rows(t)' = Rows(t)) /\ \A x, c : Names(x, c) => Names(x, c)'
  BY LogFixed, NamesKept
<1> SUFFICES ASSUME NEW f \in Queue'
             PROVE  Names(f.id, f.change)' /\ Rows(f.change[1])[f.change[2]] = f.kind
  BY <1>1 DEF EventsAreChanges, Names, IsChange
<1>2. PICK e \in Queue : e.id = f.id /\ e.change = f.change /\ e.kind = f.kind
  BY DEF Descends
<1>3. Names(f.id, f.change) /\ Rows(f.change[1])[f.change[2]] = f.kind
  BY <1>2 DEF EventsAreChanges
<1> QED BY <1>1, <1>3

\* The messages of a stream that gets none still stand for changes.
LEMMA MessagesKept ==
  ASSUME Typed, MessagesAreChanges, stream' = stream, remembered' \subseteq remembered,
         binlog' = binlog, committed' \in 0 .. MaxEntries, committed' >= committed
  PROVE  MessagesAreChanges'
<1> TypeOK
  BY DEF Typed
<1>1. \A x, c : Names(x, c) => Names(x, c)'
  BY NamesKept
<1>2. \A k \in 1 .. Len(stream) : Names(stream[k].id, stream[k].change)
  BY DEF MessagesAreChanges
<1>3. \A k \in 1 .. Len(stream) : Names(stream[k].id, stream[k].change)'
  BY <1>1, <1>2
<1>4. (\A k \in 1 .. Len(stream) : Names(stream[k].id, stream[k].change))'
  BY <1>3
<1> QED BY <1>4 DEF MessagesAreChanges

-----------------------------------------------------------------------------
(***************************************************************************)
(* The publisher's steps.                                                  *)
(***************************************************************************)
PublisherFrame ==
  /\ UNCHANGED <<binlog, committed, skipped, gate, handing>>
  /\ TypeOK /\ TypeOK' /\ WaitingIsCounted /\ QueueInOrder
  /\ EventsAreChanges /\ MessagesAreChanges

PublisherGoal ==
  Shrinks /\ Descends /\ WaitingIsCounted' /\ QueueInOrder' /\ MessagesAreChanges'

\* What the frame leaves alone.
LEMMA FrameFacts ==
  ASSUME PublisherFrame
  PROVE  /\ binlog' = binlog /\ Emitted' = Emitted
         /\ \A t, i : Contract!Owed(t, i)' <=> Contract!Owed(t, i)
BY DEF PublisherFrame, Emitted, Contract!Owed

\* The publisher's steps that store nothing leave the messages.
LEMMA FrameMessages ==
  ASSUME PublisherFrame, stream' = stream, remembered' \subseteq remembered
  PROVE  MessagesAreChanges'
<1>1. committed' \in 0 .. MaxEntries /\ committed' >= committed
  BY SMTT(40) DEF PublisherFrame, TypeOK
<1> QED BY <1>1, MessagesKept DEF PublisherFrame, Typed

\* As long as the same changes wait, nothing shrinks.
LEMMA SameWaiting ==
  ASSUME PublisherFrame, Waiting' = Waiting, acked' = acked, Stored \subseteq Stored',
         Halted => Halted'
  PROVE  Shrinks /\ WaitingIsCounted'
<1>1. Shrinks
  BY FrameFacts DEF Shrinks
<1>2. WaitingIsCounted'
  BY FrameFacts DEF WaitingIsCounted, PublisherFrame
<1> QED BY <1>1, <1>2

\* The goroutine or the connection moves on and the events stay.
LEMMA EventsStay ==
  ASSUME PublisherFrame, UNCHANGED <<chan, cur, stream, acked>>,
         remembered' \subseteq remembered, Halted => Halted',
         pub' = pub \/ (pub' \in {"loop", "wait"} /\ (pub' = "wait" => cur # NoEvent))
  PROVE  PublisherGoal
<1>1. Queue' = Queue
  BY QueueUnchanged
<1>2. Waiting' = Waiting /\ Stored' = Stored /\ Descends
  BY <1>1 DEF Waiting, Stored, Descends
<1>3. Shrinks /\ WaitingIsCounted'
  BY <1>2, SameWaiting
<1>4. QueueInOrder'
  BY SMTT(40) DEF QueueInOrder, PublisherFrame, Precedes
<1>5. MessagesAreChanges'
  BY FrameMessages
<1> QED BY <1>2, <1>3, <1>4, <1>5 DEF PublisherGoal

\* The goroutine returns and drops what it had: it acks no more.
LEMMA EventsDropped ==
  ASSUME SetLaws, PublisherFrame, Exit, UNCHANGED <<stream, remembered, acked, ctxDone>>
  PROVE  PublisherGoal
<1>1. Queue' = {} /\ Halted'
  BY QueueEmpty DEF Exit, Halted
<1>2. Waiting' = {} /\ Stored' = Stored /\ Descends
  BY <1>1 DEF Waiting, Stored, Descends
<1>3. Shrinks
  BY <1>1, <1>2, FrameFacts DEF Shrinks
<1>4. WaitingIsCounted'
  <2>1. Cardinality(Waiting') = 0 /\ IsFiniteSet(Waiting')
    BY <1>2, CountEmpty
  <2>2. /\ IsFiniteSet(Waiting) /\ acked + Cardinality(Waiting) <= Emitted /\ acked \in Nat
        /\ Emitted \in Nat /\ Cardinality(Waiting) \in Nat
    <3>1. Emitted \in Nat
      BY EmittedType DEF PublisherFrame, Typed
    <3> QED BY <3>1, CountType DEF PublisherFrame, WaitingIsCounted, TypeOK
  <2>3. acked' + 0 <= Emitted'
    BY SMTT(40), <2>2, FrameFacts
  <2> QED BY <2>1, <2>3 DEF WaitingIsCounted
<1>5. QueueInOrder'
  BY SMTT(40) DEF QueueInOrder, Exit
<1>6. MessagesAreChanges'
  BY FrameMessages
<1> QED BY <1>2, <1>3, <1>4, <1>5, <1>6 DEF PublisherGoal

\* publishLoop takes the next event.
LEMMA EventTaken ==
  ASSUME PublisherFrame, Take, acked' = acked
  PROVE  PublisherGoal
<1>1. Queue' = Queue
  BY QueueTake DEF TypeOK, PublisherFrame
<1>2. Waiting' = Waiting /\ Stored' = Stored /\ Descends /\ Halted' = Halted
  BY <1>1 DEF Waiting, Stored, Descends, Take, Halted
<1>3. Shrinks /\ WaitingIsCounted'
  BY <1>2, SameWaiting
<1>4. QueueInOrder'
  <2>1. /\ chan \in Seq(Event) /\ chan # <<>> /\ chan' = Tail(chan) /\ cur = NoEvent
        /\ cur' = IF IsPublishable(Head(chan)) THEN Head(chan) ELSE NoEvent
        /\ pub = "loop" /\ pub' = "loop"
    BY DEF Take, TypeOK, PubTypeOK, PublisherFrame
  <2>2. /\ Len(chan) \in Nat \ {0} /\ Len(chan') = Len(chan) - 1 /\ Head(chan) = chan[1]
        /\ \A k \in 1 .. Len(chan') : chan'[k] = chan[k + 1]
    BY SMTT(40), <2>1
  <2>0. \A j, k \in 1 .. Len(chan) :
          j < k /\ IsPublishable(chan[j]) /\ IsPublishable(chan[k])
            => Precedes(chan[j].change, chan[k].change)
    BY DEF PublisherFrame, QueueInOrder
  <2>3. \A j, k \in 1 .. Len(chan') :
          j < k /\ IsPublishable(chan'[j]) /\ IsPublishable(chan'[k])
            => Precedes(chan'[j].change, chan'[k].change)
    <3> SUFFICES ASSUME NEW j \in 1 .. Len(chan'), NEW k \in 1 .. Len(chan'), j < k,
                        IsPublishable(chan'[j]), IsPublishable(chan'[k])
                 PROVE  Precedes(chan'[j].change, chan'[k].change)
      OBVIOUS
    <3>1. j + 1 \in 1 .. Len(chan) /\ k + 1 \in 1 .. Len(chan) /\ j + 1 < k + 1
      BY SMTT(40), <2>2
    <3>2. chan'[j] = chan[j + 1] /\ chan'[k] = chan[k + 1]
      BY <2>2
    <3> QED BY <2>0, <3>1, <3>2
  <2>4. \A k \in 1 .. Len(chan') :
          cur' # NoEvent /\ IsPublishable(chan'[k]) => Precedes(cur'.change, chan'[k].change)
    <3> SUFFICES ASSUME NEW k \in 1 .. Len(chan'), cur' # NoEvent, IsPublishable(chan'[k])
                 PROVE  Precedes(cur'.change, chan'[k].change)
      OBVIOUS
    <3>1. 1 \in 1 .. Len(chan) /\ k + 1 \in 1 .. Len(chan) /\ 1 < k + 1
      BY SMTT(40), <2>2
    <3>2. chan'[k] = chan[k + 1] /\ cur' = chan[1] /\ IsPublishable(chan[1])
      BY <2>1, <2>2
    <3> QED BY <2>0, <3>1, <3>2
  <2>5. cur' = NoEvent \/ IsPublishable(cur')
    BY <2>1
  <2>6. pub' # "wait" /\ pub' \notin {"await", "exited"}
    BY <2>1
  <2> QED BY <2>3, <2>4, <2>5, <2>6 DEF QueueInOrder, Precedes, IsPublishable
<1>5. MessagesAreChanges'
  BY FrameMessages DEF Take
<1> QED BY <1>2, <1>3, <1>4, <1>5 DEF PublisherGoal

\* With nothing in hand, what is left is the buffer, and it comes later.
LEMMA HandEmptied ==
  ASSUME SetLaws, PublisherFrame, cur # NoEvent, cur' = NoEvent, chan' = chan
  PROVE  /\ cur \in Queue /\ Descends /\ cur.change \in Waiting
         /\ Waiting' = Waiting \ {cur.change}
         /\ \A c \in Waiting' : Precedes(cur.change, c)
         /\ IsFiniteSet(Waiting') /\ Cardinality(Waiting') \in Nat
         /\ Cardinality(Waiting) = Cardinality(Waiting') + 1
<1> HIDE DEF IsPublishable
<1>1. cur \in Queue
  BY DEF QueueInOrder, Queue, PublisherFrame
<1>2. ~IsPublishable(NoEvent)
  BY KindFacts
<1>3. /\ \A e \in Queue' : IsPublishable(e) /\ \E k \in 1 .. Len(chan) : e = chan[k]
      /\ Queue' \subseteq Queue
  BY <1>2 DEF Queue
<1>4. \A e \in Queue : e = cur \/ e \in Queue'
  BY DEF Queue
<1>5. \A e \in Queue' : Precedes(cur.change, e.change)
  BY <1>3 DEF QueueInOrder, PublisherFrame
<1>6. cur.change \in Waiting /\ Descends
  BY <1>1, <1>3 DEF Waiting, Descends
<1>7. \A c \in Waiting' : Precedes(cur.change, c) /\ c \in Waiting
  BY <1>3, <1>5 DEF Waiting
<1>8. \A c \in Waiting' : c # cur.change
  <2>1. cur.change[1] \in Nat /\ cur.change[2] \in Nat
    BY <1>6, WaitingType DEF PublisherFrame, Typed
  <2> QED BY SMTT(40), <1>7, <2>1 DEF Precedes
<1>9. \A c \in Waiting : c = cur.change \/ c \in Waiting'
  BY <1>4 DEF Waiting
<1>10. Waiting' = Waiting \ {cur.change}
  BY <1>7, <1>8, <1>9
<1>11. IsFiniteSet(Waiting)
  BY DEF PublisherFrame, WaitingIsCounted
<1>12. IsFiniteSet(Waiting') /\ Cardinality(Waiting') = Cardinality(Waiting) - 1
  BY <1>6, <1>10, <1>11, CountRemove
<1>13. Cardinality(Waiting) \in Nat /\ Cardinality(Waiting') \in Nat
  BY <1>11, <1>12, CountType
<1>14. Cardinality(Waiting) = Cardinality(Waiting') + 1
  BY SMTT(40), <1>12, <1>13
<1> QED BY <1>1, <1>6, <1>7, <1>10, <1>12, <1>13, <1>14

\* When the publisher is done with an event, the rest stays in order.
LEMMA HandEmptiedKeeps ==
  ASSUME SetLaws, PublisherFrame, cur # NoEvent, cur' = NoEvent, chan' = chan, pub' = "loop",
         Stored \subseteq Stored', Halted => Halted' /\ acked' = acked,
         acked' \in {acked, acked + 1},
         \/ cur.change \in Stored'
         \/ ~Contract!Owed(cur.change[1], cur.change[2])
         \/ Halted' /\ acked' = acked
  PROVE  Shrinks /\ Descends /\ WaitingIsCounted' /\ QueueInOrder'
<1>1. /\ Descends /\ Waiting' = Waiting \ {cur.change}
      /\ \A c \in Waiting' : Precedes(cur.change, c)
      /\ IsFiniteSet(Waiting') /\ Cardinality(Waiting') \in Nat
      /\ Cardinality(Waiting) = Cardinality(Waiting') + 1
  BY HandEmptied
<1>2. Shrinks
  <2>1. ASSUME NEW t, NEW i, <<t, i>> \in Waiting, Contract!Owed(t, i)'
        PROVE  <<t, i>> \in Waiting' \/ <<t, i>> \in Stored' \/ (Halted' /\ acked' = acked)
    <3>1. CASE <<t, i>> # cur.change
      BY <1>1, <2>1, <3>1
    <3>2. CASE <<t, i>> = cur.change
      <4>1. cur.change[1] = t /\ cur.change[2] = i
        BY SMTT(40), <3>2
      <4>2. Contract!Owed(t, i)
        BY <2>1, FrameFacts
      <4> QED BY <3>2, <4>1, <4>2
    <3> QED BY <3>1, <3>2
  <2>2. \A c \in Waiting', d \in Waiting \ Waiting' : Precedes(d, c)
    BY <1>1
  <2>3. Waiting' \subseteq Waiting
    BY <1>1
  <2> QED BY <2>1, <2>2, <2>3, FrameFacts DEF Shrinks
<1>3. WaitingIsCounted'
  <2>1. acked + Cardinality(Waiting) <= Emitted /\ acked \in Nat /\ Emitted \in Nat
    <3>1. Emitted \in Nat
      BY EmittedType DEF PublisherFrame, Typed
    <3> QED BY <3>1 DEF PublisherFrame, WaitingIsCounted, TypeOK
  <2>2. acked' + Cardinality(Waiting') <= Emitted
    BY SMTT(40), <1>1, <2>1
  <2> QED BY <1>1, <2>2, FrameFacts DEF WaitingIsCounted
<1>4. QueueInOrder'
  <2>1. pub' # "wait" /\ pub' \notin {"await", "exited"}
    OBVIOUS
  <2>2. \A j, k \in 1 .. Len(chan) :
          j < k /\ IsPublishable(chan[j]) /\ IsPublishable(chan[k])
            => Precedes(chan[j].change, chan[k].change)
    BY DEF PublisherFrame, QueueInOrder
  <2> QED BY <2>1, <2>2 DEF QueueInOrder, Precedes, IsPublishable
<1> QED BY <1>1, <1>2, <1>3, <1>4

\* The broker acks the event and the gate counts it.
LEMMA EventAcked ==
  ASSUME SetLaws, PublisherFrame, PublishAcked, acked' = acked + 1
  PROVE  PublisherGoal
<1>1. /\ cur # NoEvent /\ cur' = NoEvent /\ chan' = chan /\ pub = "loop" /\ pub' = "loop"
      /\ ~ctxDone /\ Store(cur)
  BY DEF PublishAcked, CanSend, Publishing
<1>2. cur \in Queue
  BY <1>1, HandEmptied
<1>3. Stored' = Stored \cup {cur.change} /\ MessagesAreChanges'
  BY <1>1, <1>2, StoreFacts DEF PublisherFrame, Typed
<1>4. ~Halted
  BY <1>1 DEF Halted
<1>5. Shrinks /\ Descends /\ WaitingIsCounted' /\ QueueInOrder'
  BY <1>1, <1>3, <1>4, HandEmptiedKeeps
<1> QED BY <1>3, <1>5 DEF PublisherGoal

\* The broker stores the event and the ack is lost.
LEMMA EventStoredUnacked ==
  ASSUME SetLaws, PublisherFrame, PublishAckLost, acked' = acked
  PROVE  PublisherGoal
<1>1. cur # NoEvent /\ UNCHANGED <<chan, cur, pub, ctxDone>> /\ Store(cur)
  BY DEF PublishAckLost, CanSend, Publishing
<1>2. cur \in Queue /\ Queue' = Queue
  BY <1>1, QueueUnchanged DEF QueueInOrder, Queue, PublisherFrame
<1>3. Stored' = Stored \cup {cur.change} /\ MessagesAreChanges'
  BY <1>1, <1>2, StoreFacts DEF PublisherFrame, Typed
<1>4. Waiting' = Waiting /\ Descends /\ Halted' = Halted
  BY <1>1, <1>2 DEF Waiting, Descends, Halted
<1>5. Shrinks /\ WaitingIsCounted'
  BY <1>3, <1>4, SameWaiting
<1>6. QueueInOrder'
  <2>1. QueueInOrder /\ chan' = chan /\ cur' = cur /\ pub' = pub
    BY <1>1 DEF PublisherFrame
  <2> QED BY <2>1 DEF QueueInOrder
<1> QED BY <1>3, <1>4, <1>5, <1>6 DEF PublisherGoal

\* A change that is given up was never owed: it fits in no form.
LEMMA EventTooLarge ==
  ASSUME SetLaws, PublisherFrame, PublishTooLarge, acked' = acked
  PROVE  PublisherGoal
<1>1. /\ cur # NoEvent /\ chan' = chan /\ pub = "loop" /\ pub' = "loop" /\ ~Fits(cur)
      /\ UNCHANGED <<stream, remembered, ctxDone>>
  BY DEF PublishTooLarge, CanSend, Publishing
<1>2. MessagesAreChanges' /\ Stored' = Stored /\ Halted' = Halted
  BY <1>1, FrameMessages DEF Stored, Halted
<1>3. cur \in Queue /\ IsPublishable(cur) /\ cur \in Event
  BY <1>1, QueueType DEF QueueInOrder, Queue, TypeOK, PublisherFrame
<1>4. CASE cur.form = "stripped"
  <2>1. cur' = NoEvent
    BY <1>4 DEF PublishTooLarge
  <2>2. cur.kind \notin Deliverable
    <3>1. cur.kind \in {"row", "large", "wide", "huge", "marker"}
      BY <1>3, KindFacts DEF Event
    <3>2. \A k \in {"row", "large", "wide"} : "stripped" \in Fitting[k]
      BY SMTT(40) DEF Fitting, Form
    <3>3. cur.kind \notin {"row", "large", "wide"}
      BY <1>1, <1>4, <3>2 DEF Fits
    <3> QED BY <3>1, <3>3 DEF Deliverable
  <2>3. ~Contract!Owed(cur.change[1], cur.change[2])
    <3>1. Names(cur.id, cur.change) /\ Rows(cur.change[1])[cur.change[2]] = cur.kind /\ TypeOK
      BY <1>3 DEF EventsAreChanges, PublisherFrame
    <3>2. cur.change[1] \in 1 .. MaxEntries
      BY <3>1, NamesRow DEF IsRow, Typed
    <3> QED BY <2>2, <3>1, <3>2, OwedFacts
  <2>4. Shrinks /\ Descends /\ WaitingIsCounted' /\ QueueInOrder'
    BY <1>1, <1>2, <2>1, <2>3, HandEmptiedKeeps
  <2> QED BY <1>2, <2>4 DEF PublisherGoal
<1>5. CASE cur.form # "stripped"
  <2>1. cur'.id = cur.id /\ cur'.change = cur.change /\ cur'.kind = cur.kind
    BY <1>3, <1>5, SmallerType DEF PublishTooLarge
  <2>2. IsPublishable(cur') /\ cur' # NoEvent
    BY SMTT(40), <1>3, <2>1 DEF IsPublishable, NoEvent
  <2>3. /\ \A f \in Queue' : f = cur' \/ f \in Queue
        /\ \A e \in Queue : e = cur \/ e \in Queue'
        /\ cur' \in Queue'
    BY <1>1, <2>2 DEF Queue
  <2>4. Waiting' = Waiting /\ Descends
    <3>1. \A c \in Waiting' : c \in Waiting
      BY <1>3, <2>1, <2>3 DEF Waiting
    <3>2. \A c \in Waiting : c \in Waiting'
      BY <2>1, <2>3 DEF Waiting
    <3>3. Descends
      BY <1>3, <2>1, <2>3 DEF Descends
    <3> QED BY <3>1, <3>2, <3>3
  <2>5. Shrinks /\ WaitingIsCounted'
    BY <1>2, <2>4, SameWaiting
  <2>6. QueueInOrder'
    <3>1. pub' # "wait" /\ pub' \notin {"await", "exited"}
      BY <1>1
    <3>2. /\ \A j, k \in 1 .. Len(chan) :
               j < k /\ IsPublishable(chan[j]) /\ IsPublishable(chan[k])
                 => Precedes(chan[j].change, chan[k].change)
          /\ \A k \in 1 .. Len(chan) :
               IsPublishable(chan[k]) => Precedes(cur.change, chan[k].change)
      BY <1>1 DEF PublisherFrame, QueueInOrder
    <3>3. \A k \in 1 .. Len(chan) : IsPublishable(chan[k]) => Precedes(cur'.change, chan[k].change)
      BY <2>1, <3>2
    <3>4. \A k \in 1 .. Len(chan') :
            cur' # NoEvent /\ IsPublishable(chan'[k]) => Precedes(cur'.change, chan'[k].change)
      BY <1>1, <3>3
    <3>5. \A j, k \in 1 .. Len(chan') :
            j < k /\ IsPublishable(chan'[j]) /\ IsPublishable(chan'[k])
              => Precedes(chan'[j].change, chan'[k].change)
      BY <1>1, <3>2
    <3> QED BY <2>2, <3>1, <3>4, <3>5 DEF QueueInOrder, Precedes, IsPublishable
  <2> QED BY <1>2, <2>4, <2>5, <2>6 DEF PublisherGoal
<1> QED BY <1>4, <1>5

\* The context ends the attempt: no ack will follow.
LEMMA EventCancelled ==
  ASSUME SetLaws, PublisherFrame, PublishCancelled, acked' = acked
  PROVE  PublisherGoal
<1>1. /\ cur # NoEvent /\ cur' = NoEvent /\ chan' = chan /\ pub' = "loop"
      /\ ctxDone /\ UNCHANGED <<stream, remembered, ctxDone>>
  BY DEF PublishCancelled
<1>2. MessagesAreChanges' /\ Stored' = Stored /\ Halted'
  BY <1>1, FrameMessages DEF Stored, Halted
<1>3. Shrinks /\ Descends /\ WaitingIsCounted' /\ QueueInOrder'
  BY <1>1, <1>2, HandEmptiedKeeps
<1> QED BY <1>2, <1>3 DEF PublisherGoal

\* Every step of the publisher and its environment keeps the account.
LEMMA PublisherKeeps ==
  ASSUME SetLaws, PublisherFrame,
         \/ PublishAcked /\ acked' = acked + 1
         \/ /\ acked' = acked
            /\ \/ PublisherStep \/ NatsConnect \/ NatsDisconnect \/ NatsClosed
               \/ CancelContext \/ \E id \in remembered : WindowExpires(id)
  PROVE  PublisherGoal
<1>1. CASE PublishAcked /\ acked' = acked + 1
  BY <1>1, EventAcked
<1> SUFFICES ASSUME acked' = acked,
                    \/ PublisherStep \/ NatsConnect \/ NatsDisconnect \/ NatsClosed
                    \/ CancelContext \/ \E id \in remembered : WindowExpires(id)
             PROVE  PublisherGoal
  BY <1>1
<1>2. CASE AwaitStream \/ PublishDisconnected \/ WaitOver
  BY SMTT(25), <1>2, EventsStay DEF AwaitStream, PublishDisconnected, WaitOver, Publishing, Halted
<1>3. CASE NatsConnect \/ NatsDisconnect \/ NatsClosed \/ CancelContext
  BY SMTT(40), <1>3, EventsStay DEF NatsConnect, NatsDisconnect, NatsClosed, CancelContext, Halted
<1>4. CASE \E id \in remembered : WindowExpires(id)
  <2>1. remembered' \subseteq remembered /\ UNCHANGED <<chan, cur, pub, ctxDone, stream>>
    BY <1>4 DEF WindowExpires
  <2> QED BY <2>1, EventsStay DEF Halted
<1>5. CASE AwaitFatal \/ LoopCancelled \/ WaitClosed
  BY <1>5, EventsDropped DEF AwaitFatal, LoopCancelled, WaitClosed
<1>6. CASE Take
  BY <1>6, EventTaken
<1>7. CASE PublishAckLost
  BY <1>7, EventStoredUnacked
<1>8. CASE PublishTooLarge
  BY SMTT(25), <1>8, EventTooLarge
<1>9. CASE PublishCancelled
  BY <1>9, EventCancelled
<1> QED BY SMTT(25), <1>2, <1>3, <1>4, <1>5, <1>6, <1>7, <1>8, <1>9 DEF PublisherStep

=============================================================================
