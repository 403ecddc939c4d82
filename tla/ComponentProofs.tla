-------------------------- MODULE ComponentProofs ---------------------------
(***************************************************************************)
(* Proofs about four parts beside the pipelines, which share no state: the *)
(* chunked snapshot, the schema history, the life of the process, and the  *)
(* owners of replication slots.                                            *)
(***************************************************************************)
EXTENDS SlotOwnership, SchemaHistory, Lifecycle, ChunkedSnapshot, TLAPS

\* The prover of the leaves that name none, and its time limit.
USE ZenonT(40)

-----------------------------------------------------------------------------
(***************************************************************************)
(* The chunked snapshot, for any tables, chunk size and number of changes. *)
(***************************************************************************)
\* What the chunks need of finite sets and of natural numbers.
FiniteLaws ==
  /\ \A T \in SUBSET Nat : T # {} => \E x \in T : \A y \in T : x <= y
  /\ Cardinality({}) = 0
  /\ \A S : IsFiniteSet(S) =>
       /\ Cardinality(S) \in Nat
       /\ \A T \in SUBSET S :
            /\ IsFiniteSet(T) /\ Cardinality(T) <= Cardinality(S)
            /\ Cardinality(S) = Cardinality(T) => S = T
       /\ \A T : IsFiniteSet(T) =>
            Cardinality(S \cup T) = Cardinality(S) + Cardinality(T) - Cardinality(S \cap T)

SnapshotType ==
  /\ schema \in Tables /\ table \in [Keys -> Nat]
  /\ emitted \in [Keys -> Nat] /\ replica \in [Keys -> Nat]
  /\ wal \in Seq(Keys \X Nat) /\ applied \in 0 .. Len(wal) /\ confirmed \in 0 .. applied
  /\ phase \in {"setup", "snapshot", "stream"}
  /\ last \in Nat \cup {NoValue} /\ offset \in Nat /\ changes \in Nat
  /\ phase = "setup" =>
       wal = <<>> /\ last = NoValue /\ offset = 0 /\ \A k \in Keys : emitted[k] = 0 /\ replica[k] = Absent

\* What the snapshot has emitted: of the rows nobody touched those up to the
\* last chunk's end, except that ties may straddle it.
EmittedInv ==
  HasPK => \A k \in Rows \ Touched :
    /\ emitted[k] \in 0 .. 1
    /\ phase = "snapshot" =>
         /\ emitted[k] = 1 => last # NoValue /\ PrimaryKey(k) <= last
         /\ last # NoValue /\ PrimaryKey(k) <= last /\ ~Tied(k) => emitted[k] = 1
    /\ phase = "stream" /\ ~Tied(k) => emitted[k] = 1

\* The last change of a row in the log is what the table has of it.
LogInv ==
  \A i \in 1 .. Len(wal) :
    (\A j \in i + 1 .. Len(wal) : wal[j][1] # wal[i][1]) => wal[i][2] = table[wal[i][1]]

\* A change of the row is still to be streamed.
Pending(k) == \E i \in applied + 1 .. Len(wal) : wal[i][1] = k

Before(k) == {x \in Rows : PrimaryKey(x) < PrimaryKey(k)}

\* The replica has the row as the table has it, or does not have it, and then the
\* snapshot has not come to it or the row is tied.
Right(k) ==
  /\ replica[k] \in {Absent, table[k]}
  /\ phase = "snapshot" /\ ~Tied(k) =>
       IF HasPK THEN last # NoValue /\ PrimaryKey(k) <= last => replica[k] = table[k]
                ELSE replica[k] = table[k] \/ Cardinality(Before(k)) >= offset
  /\ phase = "stream" /\ ~Tied(k) => replica[k] = table[k]

\* The rows that no change to come corrects are right.
ReplicaInv == \A k \in Keys : ~Pending(k) => Right(k)

\* The laws, one by one.
LEMMA LeastExists ==
  ASSUME FiniteLaws, NEW T \in SUBSET Nat, T # {}
  PROVE  \E x \in T : \A y \in T : x <= y
BY DEF FiniteLaws

\* A finite set and its parts.
LEMMA PartLaws ==
  ASSUME FiniteLaws, NEW S, IsFiniteSet(S)
  PROVE  /\ Cardinality(S) \in Nat
         /\ \A T \in SUBSET S :
              /\ IsFiniteSet(T) /\ Cardinality(T) <= Cardinality(S)
              /\ Cardinality(S) = Cardinality(T) => S = T
BY DEF FiniteLaws

\* Two finite sets together.
LEMMA UnionLaw ==
  ASSUME FiniteLaws, NEW S, IsFiniteSet(S), NEW T, IsFiniteSet(T)
  PROVE  /\ Cardinality(S \cup T) = Cardinality(S) + Cardinality(T) - Cardinality(S \cap T)
         /\ Cardinality({}) = 0
BY DEF FiniteLaws

\* What the table's kind gives.
LEMMA KeyFacts ==
  ASSUME FiniteLaws, SnapshotType
  PROVE  /\ Keys \subseteq Nat \X Nat /\ IsFiniteSet(Keys) /\ IsFiniteSet(Rows)
         /\ Rows \subseteq Keys /\ \A k \in Keys : PrimaryKey(k) \in Nat /\ IsFiniteSet(Before(k))
<1>1. Keys \subseteq Nat \X Nat /\ IsFiniteSet(Keys)
  BY SnapshotAssumption DEF SnapshotType, Keys
<1>2. Rows \subseteq Keys /\ \A k : Before(k) \subseteq Keys
  BY DEF Rows, Before
<1>3. IsFiniteSet(Rows) /\ \A k : IsFiniteSet(Before(k))
  BY <1>1, <1>2, PartLaws
<1>4. \A k \in Keys : PrimaryKey(k) \in Nat
  BY <1>1 DEF PrimaryKey
<1> QED BY <1>1, <1>2, <1>3, <1>4

\* Of the first n rows there are n, or they are all.
LEMMA FirstOfFacts ==
  ASSUME FiniteLaws, NEW rows, IsFiniteSet(rows), NEW n \in Nat, NEW c \in FirstOf(rows, n)
  PROVE  /\ c \subseteq rows /\ IsFiniteSet(c) /\ Cardinality(c) \in Nat
         /\ \A x \in c, y \in rows \ c : PrimaryKey(x) <= PrimaryKey(y)
         /\ Cardinality(c) < n => c = rows
         /\ n < Cardinality(rows) => Cardinality(c) = n
<1>1. /\ c \in SUBSET rows
      /\ Cardinality(c) = IF n < Cardinality(rows) THEN n ELSE Cardinality(rows)
      /\ \A x \in c, y \in rows \ c : PrimaryKey(x) <= PrimaryKey(y)
  BY DEF FirstOf
<1>2. Cardinality(rows) \in Nat
  BY PartLaws
<1>3. IsFiniteSet(c) /\ (Cardinality(rows) = Cardinality(c) => rows = c)
  BY <1>1, PartLaws
<1>4. Cardinality(c) \in Nat
  BY <1>3, PartLaws
<1> QED BY SMTT(40), <1>1, <1>2, <1>3, <1>4

\* A chunk that is not empty has a row with the greatest value of the column.
LEMMA LastOfChunk ==
  ASSUME FiniteLaws, SnapshotType, NEW c \in SUBSET Keys, c # {}
  PROVE  \E m \in c : /\ Max({PrimaryKey(k) : k \in c}) = PrimaryKey(m)
                      /\ \A x \in c : PrimaryKey(x) <= PrimaryKey(m)
<1> DEFINE Above(x) == {y \in c : PrimaryKey(y) > PrimaryKey(x)}
           N == {Cardinality(Above(x)) : x \in c}
<1>1. IsFiniteSet(c) /\ \A x \in c : PrimaryKey(x) \in Nat
  BY KeyFacts, PartLaws
<1>2. \A x \in c : IsFiniteSet(Above(x)) /\ Cardinality(Above(x)) \in Nat
  <2>1. \A x : Above(x) \in SUBSET c
    OBVIOUS
  <2> HIDE DEF Above
  <2> QED BY <1>1, <2>1, PartLaws
<1>3. PICK m \in c : \A x \in c : Cardinality(Above(m)) <= Cardinality(Above(x))
  <2>1. N \in SUBSET Nat /\ N # {}
    <3> HIDE DEF Above
    <3> QED BY <1>2
  <2>2. \E n \in N : \A z \in N : n <= z
    <3> HIDE DEF N
    <3> QED BY <2>1, LeastExists
  <2> HIDE DEF Above
  <2> QED BY <2>2
<1>4. \A x \in c : PrimaryKey(x) <= PrimaryKey(m)
  <2> SUFFICES ASSUME NEW x \in c, ~(PrimaryKey(x) <= PrimaryKey(m)) PROVE FALSE
    OBVIOUS
  <2>1. PrimaryKey(x) > PrimaryKey(m)
    BY SMTT(40), <1>1
  <2>2. Above(x) \in SUBSET Above(m)
    BY SMTT(40), <1>1, <2>1
  <2>3. x \in Above(m) /\ x \notin Above(x)
    BY SMTT(40), <1>1, <2>1
  <2> HIDE DEF Above
  <2>4. Cardinality(Above(x)) <= Cardinality(Above(m)) /\ Cardinality(Above(m)) # Cardinality(Above(x))
    BY <1>2, <2>2, <2>3, PartLaws
  <2> QED BY SMTT(40), <1>2, <1>3, <2>4
<1>5. \A u \in {PrimaryKey(k) : k \in c} :
        (\A z \in {PrimaryKey(k) : k \in c} : u >= z) => u = PrimaryKey(m)
  BY SMTT(40), <1>1, <1>4
<1>6. \E u \in {PrimaryKey(k) : k \in c} : \A z \in {PrimaryKey(k) : k \in c} : u >= z
  BY <1>1, <1>4
<1>7. Max({PrimaryKey(k) : k \in c}) = PrimaryKey(m)
  BY <1>5, <1>6 DEF Max
<1> QED BY <1>4, <1>7

\* The rows a snapshot by key has not come to.
Ahead == {k \in Rows : last = NoValue \/ PrimaryKey(k) > last}

\* What a chunk by key is: rows ahead, before all others, and with no row left
\* ahead if it is not full.
LEMMA ChunkByKey ==
  ASSUME FiniteLaws, SnapshotType, HasPK, NEW c \in Chunk
  PROVE  /\ c \subseteq Ahead /\ c \subseteq Keys
         /\ \A x \in c, y \in Ahead \ c : PrimaryKey(x) <= PrimaryKey(y)
         /\ Cardinality(c) < ChunkSize => c = Ahead
         /\ c = {} => Cardinality(c) < ChunkSize
<1>1. Ahead \in SUBSET Rows /\ c \in FirstOf(Ahead, ChunkSize)
  BY DEF Ahead, Chunk
<1>2. IsFiniteSet(Ahead) /\ Rows \subseteq Keys
  BY <1>1, KeyFacts, PartLaws
<1>3. ChunkSize \in Nat \ {0}
  BY SnapshotAssumption
<1>4. Cardinality({}) = 0
  BY DEF FiniteLaws
<1> QED BY SMTT(40), <1>1, <1>2, <1>3, <1>4, FirstOfFacts

\* Where the cursor is after the chunk: it has passed the rows of the chunk and
\* whatever it had passed before, and of the other rows ahead only ties.
LEMMA CursorMoves ==
  ASSUME FiniteLaws, SnapshotType, HasPK, NEW c \in Chunk,
         last' = IF c = {} THEN NoValue ELSE Max({PrimaryKey(k) : k \in c}),
         phase' = IF Cardinality(c) < ChunkSize THEN "stream" ELSE "snapshot"
  PROVE  /\ phase' = "stream" => c = Ahead
         /\ phase' = "snapshot" =>
              /\ last' \in Nat /\ last' # NoValue
              /\ \A x \in c : PrimaryKey(x) <= last'
              /\ \A x \in Keys : last # NoValue /\ PrimaryKey(x) <= last => PrimaryKey(x) <= last'
              /\ \A x \in Ahead \ c : PrimaryKey(x) <= last' => Tied(x)
<1>1. /\ c \subseteq Ahead /\ c \subseteq Keys
      /\ \A x \in c, y \in Ahead \ c : PrimaryKey(x) <= PrimaryKey(y)
      /\ Cardinality(c) < ChunkSize => c = Ahead
      /\ c = {} => Cardinality(c) < ChunkSize
  BY ChunkByKey
<1>2. CASE Cardinality(c) < ChunkSize
  BY <1>1, <1>2
<1>3. CASE ~(Cardinality(c) < ChunkSize)
  <2>1. PICK m \in c : last' = PrimaryKey(m) /\ \A x \in c : PrimaryKey(x) <= PrimaryKey(m)
    <3>1. c \in SUBSET Keys /\ c # {} /\ last' = Max({PrimaryKey(k) : k \in c})
      BY <1>1, <1>3
    <3> QED BY <3>1, LastOfChunk
  <2>2. /\ \A x \in Keys : PrimaryKey(x) \in Nat
        /\ m \in Keys /\ m \in Ahead /\ Ahead \subseteq Keys /\ last \in Nat \cup {NoValue}
    BY <1>1, KeyFacts DEF Ahead, SnapshotType
  <2>3. last # NoValue => PrimaryKey(m) > last
    BY <2>2 DEF Ahead
  <2>4. ASSUME NEW x \in Ahead \ c, PrimaryKey(x) <= last' PROVE Tied(x)
    <3>1. PrimaryKey(m) = PrimaryKey(x) /\ m # x
      BY SMTT(40), <1>1, <2>1, <2>2, <2>4
    <3> QED BY <2>2, <3>1 DEF Tied
  <2>5. last' \in Nat /\ last' # NoValue
    BY SMTT(40), <2>1, <2>2 DEF NoValue
  <2>6. \A x \in Keys : last # NoValue /\ PrimaryKey(x) <= last => PrimaryKey(x) <= last'
    BY SMTT(40), <2>1, <2>2, <2>3 DEF NoValue
  <2> QED BY <1>3, <2>1, <2>4, <2>5, <2>6
<1> QED BY <1>2, <1>3

\* A chunk by position: it passes no row that others do not precede in number.
LEMMA PositionMoves ==
  ASSUME FiniteLaws, SnapshotType, ~HasPK, NEW c \in Chunk, NEW k \in Rows \ c, ~Tied(k),
         Cardinality(Before(k)) >= offset
  PROVE  /\ Cardinality(Before(k)) >= offset + Cardinality(c)
         /\ ~(Cardinality(c) < ChunkSize)
<1>0. /\ IsFiniteSet(Rows) /\ Rows \subseteq Keys /\ k \in Keys /\ IsFiniteSet(Before(k))
      /\ offset \in Nat /\ ChunkSize \in Nat /\ \A x \in Rows : PrimaryKey(x) \in Nat
  BY KeyFacts, SnapshotAssumption DEF SnapshotType, Rows
<1>1. PICK s \in FirstOf(Rows, offset) : c \in FirstOf(Rows \ s, ChunkSize)
  BY DEF Chunk
<1>2. /\ s \subseteq Rows /\ IsFiniteSet(s) /\ Cardinality(s) \in Nat
      /\ \A x \in s, y \in Rows \ s : PrimaryKey(x) <= PrimaryKey(y)
      /\ Cardinality(s) < offset => s = Rows
      /\ offset < Cardinality(Rows) => Cardinality(s) = offset
  BY <1>0, FirstOfFacts
<1>3. IsFiniteSet(Rows \ s)
  <2>1. Rows \ s \in SUBSET Rows
    OBVIOUS
  <2> QED BY <1>0, <2>1, PartLaws
<1>4. /\ c \subseteq Rows \ s /\ IsFiniteSet(c) /\ Cardinality(c) \in Nat
      /\ \A x \in c, y \in (Rows \ s) \ c : PrimaryKey(x) <= PrimaryKey(y)
      /\ Cardinality(c) < ChunkSize => c = Rows \ s
  <2> DEFINE rest == Rows \ s
  <2> HIDE DEF rest
  <2>1. IsFiniteSet(rest) /\ c \in FirstOf(rest, ChunkSize)
    BY <1>1, <1>3 DEF rest
  <2>2. /\ c \subseteq rest /\ IsFiniteSet(c) /\ Cardinality(c) \in Nat
        /\ \A x \in c, y \in rest \ c : PrimaryKey(x) <= PrimaryKey(y)
        /\ Cardinality(c) < ChunkSize => c = rest
    BY <1>0, <2>1, FirstOfFacts
  <2> QED BY <2>2 DEF rest
<1>5. Before(k) \in SUBSET Rows /\ k \notin Before(k) /\ k \in Rows
  BY SMTT(40), <1>0 DEF Before
<1>6. Cardinality(Rows) \in Nat /\ Cardinality(Before(k)) \in Nat
  BY <1>0, PartLaws
<1>7. Cardinality(Before(k)) < Cardinality(Rows)
  <2>1. Cardinality(Before(k)) <= Cardinality(Rows) /\ Cardinality(Rows) # Cardinality(Before(k))
    BY <1>0, <1>5, PartLaws
  <2> QED BY SMTT(40), <1>6, <2>1
<1>8. Cardinality(s) = offset
  BY SMTT(40), <1>0, <1>2, <1>6, <1>7
<1>9. k \notin s
  <2> SUFFICES ASSUME k \in s PROVE FALSE
    OBVIOUS
  <2>1. Before(k) \in SUBSET s
    BY SMTT(40), <1>0, <1>2 DEF Before
  <2>2. Cardinality(Before(k)) <= Cardinality(s) /\ Cardinality(s) # Cardinality(Before(k))
    BY <1>2, <1>5, <2>1, PartLaws
  <2> QED BY SMTT(40), <1>0, <1>6, <1>8, <2>2
<1>10. s \cup c \in SUBSET Before(k)
  <2> SUFFICES ASSUME NEW x \in s \cup c PROVE x \in Before(k)
    OBVIOUS
  <2>1. x \in Rows /\ x # k /\ PrimaryKey(x) <= PrimaryKey(k)
    BY <1>2, <1>4, <1>5, <1>9
  <2>2. PrimaryKey(x) # PrimaryKey(k)
    BY <1>0, <2>1 DEF Tied
  <2> QED BY SMTT(40), <1>0, <1>5, <2>1, <2>2 DEF Before
<1>11. Cardinality(s \cup c) = Cardinality(s) + Cardinality(c)
  <2>1. s \cap c = {}
    BY <1>4
  <2>2. Cardinality(s \cup c) = Cardinality(s) + Cardinality(c) - Cardinality(s \cap c)
    BY <1>2, <1>4, UnionLaw
  <2>3. Cardinality({}) = 0
    BY DEF FiniteLaws
  <2>4. Cardinality(s \cap c) = 0
    BY <2>1, <2>3
  <2> QED BY SMTT(40), <1>2, <1>4, <2>2, <2>4
<1>12. Cardinality(s \cup c) <= Cardinality(Before(k))
  BY <1>0, <1>10, PartLaws
<1>13. ~(Cardinality(c) < ChunkSize)
  BY <1>4, <1>5, <1>9
<1> QED BY <1>0, <1>2, <1>4, <1>6, <1>8, <1>11, <1>12, <1>13

\* A chunk is made of rows.
LEMMA ChunkRows ==
  ASSUME FiniteLaws, SnapshotType, NEW c \in Chunk
  PROVE  c \subseteq Rows /\ c \subseteq Keys /\ Cardinality(c) \in Nat
<1>1. c \in SUBSET Rows
  BY DEF Chunk, FirstOf
<1>2. IsFiniteSet(Rows) /\ Rows \subseteq Keys
  BY KeyFacts
<1>3. Cardinality(c) \in Nat
  BY <1>1, <1>2, PartLaws
<1> QED BY <1>1, <1>2, <1>3

\* The table stays the same one.
LEMMA SchemaStands ==
  ASSUME [Next]_vars
  PROVE  /\ schema' = schema /\ Keys' = Keys /\ HasPK' = HasPK /\ Deletes' = Deletes
         /\ \A k : Tied(k)' <=> Tied(k)
<1>1. schema' = schema
  BY DEF Next, vars, Change, CreateSlot, fetchChunk, Stream, SnapshotAgain
<1>2. Keys' = Keys /\ HasPK' = HasPK /\ Deletes' = Deletes
  BY <1>1 DEF Keys, HasPK, Deletes
<1> QED BY <1>1, <1>2 DEF Tied

\* A change while the slot exists: where the log and the table differ from before.
LEMMA ChangeLogged ==
  ASSUME SnapshotType, Keys' = Keys, NEW k \in Keys, NEW v \in {Absent, 2 + changes}, Change(k, v),
         phase # "setup"
  PROVE  /\ v \in Nat /\ wal' \in Seq(Keys \X Nat) /\ Len(wal') = Len(wal) + 1 /\ Len(wal) \in Nat
         /\ \A i \in 1 .. Len(wal) : wal'[i] = wal[i] /\ wal[i][1] \in Keys
         /\ wal'[Len(wal) + 1] = <<k, v>>
         /\ table' \in [Keys -> Nat] /\ table'[k] = v /\ \A x \in Keys \ {k} : table'[x] = table[x]
<1>1. v \in Nat /\ wal' = Append(wal, <<k, v>>) /\ wal \in Seq(Keys \X Nat)
  BY SMTT(40) DEF SnapshotType, Change, Absent
<1>2. \A i \in 1 .. Len(wal) : wal[i] \in Keys \X Nat
  BY SMTT(40), <1>1
<1>3. table' \in [Keys -> Nat] /\ table'[k] = v /\ \A x \in Keys \ {k} : table'[x] = table[x]
  BY <1>1 DEF SnapshotType, Change
<1>4. <<k, v>> \in Keys \X Nat
  BY <1>1
<1>5. wal' \in Seq(Keys \X Nat) /\ Len(wal') = Len(wal) + 1 /\ Len(wal) \in Nat
  BY SMTT(40), <1>1, <1>4
<1>6. wal'[Len(wal) + 1] = <<k, v>> /\ \A i \in 1 .. Len(wal) : wal'[i] = wal[i]
  BY SMTT(40), <1>1, <1>4
<1> QED BY <1>1, <1>2, <1>3, <1>5, <1>6

\* Types.
LEMMA SnapshotTypeStep ==
  ASSUME FiniteLaws, SnapshotType, [Next]_vars
  PROVE  SnapshotType'
<1>0. schema' = schema /\ Keys' = Keys
  BY SchemaStands
<1>1. CASE UNCHANGED vars
  BY <1>0, <1>1 DEF SnapshotType, vars
<1>2. ASSUME NEW k \in Keys, NEW v \in {Absent, 2 + changes}, Change(k, v) PROVE SnapshotType'
  <2>1. CASE phase = "setup"
    BY SMTT(40), <1>0, <1>2, <2>1 DEF SnapshotType, Change, Absent
  <2>2. CASE phase # "setup"
    <3>1. /\ v \in Nat /\ wal' \in Seq(Keys \X Nat) /\ Len(wal') = Len(wal) + 1 /\ Len(wal) \in Nat
          /\ table' \in [Keys -> Nat]
      BY <1>0, <1>2, <2>2, ChangeLogged
    <3> QED BY SMTT(40), <1>0, <1>2, <2>2, <3>1 DEF SnapshotType, Change
  <2> QED BY <2>1, <2>2
<1>3. CASE CreateSlot
  BY <1>0, <1>3 DEF SnapshotType, CreateSlot
<1>4. CASE fetchChunk
  <2>1. PICK c \in Chunk :
       /\ emitted' = [k \in Keys |-> emitted[k] + (IF k \in c THEN 1 ELSE 0)]
       /\ replica' = [k \in Keys |-> IF k \in c THEN table[k] ELSE replica[k]]
       /\ last' = IF c = {} THEN NoValue ELSE Max({PrimaryKey(k) : k \in c})
       /\ offset' = offset + Cardinality(c)
       /\ phase' = IF Cardinality(c) < ChunkSize THEN "stream" ELSE "snapshot"
    BY <1>4 DEF fetchChunk
  <2>2. c \in SUBSET Keys /\ Cardinality(c) \in Nat
    BY ChunkRows
  <2>3. last' \in Nat \cup {NoValue}
    <3>1. CASE c = {}
      BY <2>1, <3>1
    <3>2. CASE c # {}
      <4>1. \E m \in c : last' = PrimaryKey(m)
        BY <2>1, <2>2, <3>2, LastOfChunk
      <4> QED BY <2>2, <4>1, KeyFacts
    <3> QED BY <3>1, <3>2
  <2>4. emitted' \in [Keys -> Nat] /\ replica' \in [Keys -> Nat]
    <3>1. emitted \in [Keys -> Nat] /\ replica \in [Keys -> Nat] /\ table \in [Keys -> Nat]
      BY DEF SnapshotType
    <3>2. \A k \in Keys : emitted[k] + (IF k \in c THEN 1 ELSE 0) \in Nat
      BY SMTT(40), <3>1
    <3> QED BY <2>1, <3>1, <3>2
  <2>5. UNCHANGED <<schema, table, wal, applied, confirmed, changes, retries>>
    BY <1>4 DEF fetchChunk
  <2>6. phase' \in {"snapshot", "stream"} /\ offset' \in Nat
    <3>1. offset \in Nat
      BY DEF SnapshotType
    <3>2. offset + Cardinality(c) \in Nat
      BY SMTT(40), <2>2, <3>1
    <3> QED BY <2>1, <3>2
  <2> QED BY <1>0, <2>3, <2>4, <2>5, <2>6 DEF SnapshotType
<1>5. CASE Stream
  <2>1. wal[applied + 1] \in Keys \X Nat /\ applied' = applied + 1 /\ applied' \in 0 .. Len(wal)
    BY SMTT(40), <1>5 DEF Stream, SnapshotType
  <2>2. replica' \in [Keys -> Nat]
    BY <1>5, <2>1 DEF Stream, SnapshotType
  <2>3. UNCHANGED <<schema, table, wal, phase, last, offset, emitted, confirmed, changes, retries>>
    BY <1>5 DEF Stream
  <2>4. confirmed \in 0 .. applied'
    BY SMTT(40), <2>1 DEF SnapshotType
  <2>5. phase = "stream"
    BY <1>5 DEF Stream
  <2> QED BY <1>0, <2>1, <2>2, <2>3, <2>4, <2>5 DEF SnapshotType
<1>6. CASE SnapshotAgain
  BY SMTT(40), <1>0, <1>6 DEF SnapshotAgain, SnapshotType
<1> QED BY <1>1, <1>2, <1>3, <1>4, <1>5, <1>6 DEF Next

\* Emission: what is emitted of the rows nobody touches.
LEMMA EmittedStep ==
  ASSUME FiniteLaws, SnapshotType, SnapshotType', EmittedInv, [Next]_vars
  PROVE  EmittedInv'
<1>0. schema' = schema /\ Keys' = Keys /\ HasPK' = HasPK /\ \A k : Tied(k)' <=> Tied(k)
  BY SchemaStands
<1> SUFFICES ASSUME HasPK, NEW k \in Rows' \ Touched'
             PROVE  /\ emitted'[k] \in 0 .. 1
                    /\ phase' = "snapshot" =>
                         /\ emitted'[k] = 1 => last' # NoValue /\ PrimaryKey(k) <= last'
                         /\ last' # NoValue /\ PrimaryKey(k) <= last' /\ ~Tied(k) => emitted'[k] = 1
                    /\ phase' = "stream" /\ ~Tied(k) => emitted'[k] = 1
  BY <1>0 DEF EmittedInv
<1>a. k \in Keys
  BY <1>0 DEF Rows
<1>b. k \in Rows \ Touched =>
        /\ emitted[k] \in 0 .. 1
        /\ phase = "snapshot" =>
             /\ emitted[k] = 1 => last # NoValue /\ PrimaryKey(k) <= last
             /\ last # NoValue /\ PrimaryKey(k) <= last /\ ~Tied(k) => emitted[k] = 1
        /\ phase = "stream" /\ ~Tied(k) => emitted[k] = 1
  BY DEF EmittedInv
<1>1. CASE UNCHANGED vars
  BY <1>0, <1>1, <1>b DEF vars, Rows, Touched
<1>2. ASSUME NEW x \in Keys, NEW v \in {Absent, 2 + changes}, Change(x, v)
      PROVE  /\ emitted'[k] \in 0 .. 1
             /\ phase' = "snapshot" =>
                  /\ emitted'[k] = 1 => last' # NoValue /\ PrimaryKey(k) <= last'
                  /\ last' # NoValue /\ PrimaryKey(k) <= last' /\ ~Tied(k) => emitted'[k] = 1
             /\ phase' = "stream" /\ ~Tied(k) => emitted'[k] = 1
  <2>1. CASE phase = "setup"
    BY SMTT(40), <1>2, <1>a, <2>1 DEF SnapshotType, Change
  <2>2. CASE phase # "setup"
    <3>1. /\ Len(wal') = Len(wal) + 1 /\ Len(wal) \in Nat
          /\ \A i \in 1 .. Len(wal) : wal'[i] = wal[i]
          /\ wal'[Len(wal) + 1] = <<x, v>>
          /\ \A y \in Keys \ {x} : table'[y] = table[y]
      BY <1>0, <1>2, <2>2, ChangeLogged
    <3>2. DOMAIN wal = 1 .. Len(wal) /\ DOMAIN wal' = 1 .. Len(wal')
      BY SMTT(40) DEF SnapshotType
    <3>3. k # x /\ k \notin Touched
      BY SMTT(40), <3>1, <3>2 DEF Touched
    <3>4. k \in Rows
      BY <1>a, <3>1, <3>3 DEF Rows
    <3>5. UNCHANGED <<phase, last, emitted>>
      BY <1>2 DEF Change
    <3> QED BY <1>b, <3>3, <3>4, <3>5
  <2> QED BY <2>1, <2>2
<1>3. CASE CreateSlot
  BY SMTT(40), <1>3, <1>a, <1>b DEF CreateSlot, SnapshotType
<1>4. CASE fetchChunk
  <2>1. PICK c \in Chunk :
       /\ emitted' = [y \in Keys |-> emitted[y] + (IF y \in c THEN 1 ELSE 0)]
       /\ last' = IF c = {} THEN NoValue ELSE Max({PrimaryKey(y) : y \in c})
       /\ phase' = IF Cardinality(c) < ChunkSize THEN "stream" ELSE "snapshot"
    BY <1>4 DEF fetchChunk
  <2>2. phase = "snapshot" /\ UNCHANGED <<table, wal>>
    BY <1>4 DEF fetchChunk
  <2>3. k \in Rows \ Touched
    BY <1>0, <2>2 DEF Rows, Touched
  <2>4. /\ phase' = "stream" => c = Ahead
        /\ phase' = "snapshot" =>
             /\ last' \in Nat /\ last' # NoValue
             /\ \A x \in c : PrimaryKey(x) <= last'
             /\ \A x \in Keys : last # NoValue /\ PrimaryKey(x) <= last => PrimaryKey(x) <= last'
             /\ \A x \in Ahead \ c : PrimaryKey(x) <= last' => Tied(x)
    BY <2>1, CursorMoves
  <2>5. c \subseteq Ahead
    BY ChunkByKey
  <2>6. k \in Ahead <=> (last = NoValue \/ PrimaryKey(k) > last)
    BY <2>3 DEF Ahead
  <2>7. PrimaryKey(k) \in Nat /\ last \in Nat \cup {NoValue}
    <3>1. PrimaryKey(k) \in Nat
      BY <1>a, KeyFacts
    <3> QED BY <3>1 DEF SnapshotType
  <2>8. k \notin Ahead <=> (last # NoValue /\ PrimaryKey(k) <= last)
    BY SMTT(40), <2>6, <2>7 DEF NoValue
  <2>9. CASE k \in c
    <3>1. emitted[k] = 0 /\ emitted'[k] = 1
      BY SMTT(40), <1>a, <1>b, <2>1, <2>2, <2>3, <2>5, <2>8, <2>9
    <3> QED BY SMTT(40), <2>4, <2>9, <3>1
  <2>10. CASE k \notin c
    <3>1. emitted'[k] = emitted[k] /\ emitted[k] \in 0 .. 1
      BY SMTT(40), <1>a, <1>b, <2>1, <2>3, <2>10
    <3> QED BY <1>a, <1>b, <2>2, <2>3, <2>4, <2>8, <2>10, <3>1
  <2> QED BY <2>9, <2>10
<1>5. CASE Stream
  BY <1>0, <1>5, <1>b DEF Stream, Rows, Touched
<1>6. CASE SnapshotAgain
  BY SMTT(40), <1>6, <1>a DEF SnapshotAgain, SnapshotType
<1> QED BY <1>1, <1>2, <1>3, <1>4, <1>5, <1>6 DEF Next

\* The log: the last change of a row is what the table has.
LEMMA LogStep ==
  ASSUME SnapshotType, LogInv, [Next]_vars
  PROVE  LogInv'
<1>0. Keys' = Keys
  BY SchemaStands
<1>1. CASE UNCHANGED <<wal, table>>
  BY <1>1 DEF LogInv
<1>2. ASSUME NEW x \in Keys, NEW v \in {Absent, 2 + changes}, Change(x, v) PROVE LogInv'
  <2>1. CASE phase = "setup"
    <3>1. wal' = <<>>
      BY <1>2, <2>1 DEF SnapshotType, Change
    <3>2. 1 .. Len(wal') = {}
      BY SMTT(40), <3>1
    <3> QED BY <3>2 DEF LogInv
  <2>2. CASE phase # "setup"
    <3>1. /\ Len(wal') = Len(wal) + 1 /\ Len(wal) \in Nat
          /\ \A i \in 1 .. Len(wal) : wal'[i] = wal[i] /\ wal[i][1] \in Keys
          /\ wal'[Len(wal) + 1] = <<x, v>>
          /\ table'[x] = v /\ \A y \in Keys \ {x} : table'[y] = table[y]
      BY <1>0, <1>2, <2>2, ChangeLogged
    <3> SUFFICES ASSUME NEW i \in 1 .. Len(wal'),
                        \A j \in i + 1 .. Len(wal') : wal'[j][1] # wal'[i][1]
                 PROVE  wal'[i][2] = table'[wal'[i][1]]
      BY DEF LogInv
    <3>2. CASE i = Len(wal) + 1
      BY SMTT(40), <3>1, <3>2
    <3>3. CASE i \in 1 .. Len(wal)
      <4>1. wal[i][1] # x
        <5>1. Len(wal) + 1 \in i + 1 .. Len(wal')
          BY SMTT(40), <3>1, <3>3
        <5> QED BY SMTT(40), <3>1, <3>3, <5>1
      <4>2. \A j \in i + 1 .. Len(wal) : wal[j][1] # wal[i][1]
        <5> TAKE j \in i + 1 .. Len(wal)
        <5>1. j \in i + 1 .. Len(wal') /\ j \in 1 .. Len(wal)
          BY SMTT(40), <3>1, <3>3
        <5> QED BY <3>1, <3>3, <5>1
      <4>3. wal[i][2] = table[wal[i][1]]
        BY <3>3, <4>2 DEF LogInv
      <4> QED BY <3>1, <3>3, <4>1, <4>3
    <3> QED BY SMTT(40), <3>1, <3>2, <3>3
  <2> QED BY <2>1, <2>2
<1>3. CASE CreateSlot \/ fetchChunk \/ Stream \/ SnapshotAgain \/ UNCHANGED vars
  BY <1>1, <1>3 DEF CreateSlot, fetchChunk, Stream, SnapshotAgain, vars
<1> QED BY <1>2, <1>3 DEF Next

\* The rows before another one can be counted.
LEMMA BeforeCounts ==
  ASSUME FiniteLaws, SnapshotType, Keys' = Keys, NEW k \in Keys
  PROVE  /\ IsFiniteSet(Before(k)') /\ Cardinality(Before(k)) \in Nat
         /\ Cardinality(Before(k)') \in Nat /\ Cardinality(Before(k)') >= 0
<1>1. Before(k)' \in SUBSET Keys
  BY DEF Before, Rows
<1>2. IsFiniteSet(Before(k)) /\ IsFiniteSet(Before(k)')
  BY <1>1, KeyFacts, PartLaws
<1>3. Cardinality(Before(k)) \in Nat /\ Cardinality(Before(k)') \in Nat
  BY <1>2, PartLaws
<1> QED BY SMTT(40), <1>2, <1>3

\* A change to another row leaves the row's place and the replica's as they are.
LEMMA ChangeKeepsReplica ==
  ASSUME FiniteLaws, SnapshotType, SnapshotType', ReplicaInv, [Next]_vars, ~HasPK => ~Deletes,
         NEW x \in Keys, NEW v \in {Absent, 2 + changes}, Change(x, v),
         NEW k \in Keys, ~Pending(k)'
  PROVE  Right(k)'
<1>0. schema' = schema /\ Keys' = Keys /\ HasPK' = HasPK /\ (Tied(k)' <=> Tied(k))
  BY SchemaStands
<1>1. UNCHANGED <<phase, last, offset, replica, applied>>
  BY DEF Change
<1>2. CASE phase = "setup"
  BY <1>0, <1>1, <1>2 DEF Right, SnapshotType
<1>3. CASE phase # "setup"
  <2>1. /\ Len(wal') = Len(wal) + 1 /\ Len(wal) \in Nat
        /\ \A i \in 1 .. Len(wal) : wal'[i] = wal[i]
        /\ wal'[Len(wal) + 1] = <<x, v>>
        /\ table'[x] = v /\ \A y \in Keys \ {x} : table'[y] = table[y]
    BY <1>0, <1>3, ChangeLogged
  <2>2. applied \in 0 .. Len(wal)
    BY DEF SnapshotType
  <2>3. k # x
    <3>1. Len(wal) + 1 \in applied + 1 .. Len(wal')
      BY SMTT(40), <2>1, <2>2
    <3> QED BY SMTT(40), <1>1, <2>1, <3>1 DEF Pending
  <2>4. ~Pending(k)
    <3> SUFFICES ASSUME NEW i \in applied + 1 .. Len(wal), wal[i][1] = k PROVE FALSE
      BY DEF Pending
    <3>1. i \in applied' + 1 .. Len(wal') /\ wal'[i] = wal[i]
      BY SMTT(40), <1>1, <2>1, <2>2
    <3> QED BY <3>1 DEF Pending
  <2>5. Right(k)
    BY <2>4 DEF ReplicaInv
  <2>6. table'[k] = table[k]
    BY <2>1, <2>3
  <2>7. ~HasPK => Cardinality(Before(k)) <= Cardinality(Before(k)')
    <3> SUFFICES ASSUME ~HasPK PROVE Cardinality(Before(k)) <= Cardinality(Before(k)')
      OBVIOUS
    <3>1. v # Absent
      BY DEF Change
    <3>2. Rows \subseteq Rows'
      BY <1>0, <2>1, <3>1 DEF Rows
    <3>3. Before(k) \in SUBSET Before(k)'
      BY <3>2 DEF Before
    <3> QED BY <1>0, <3>3, BeforeCounts, PartLaws
  <2>8. offset \in Nat /\ Cardinality(Before(k)) \in Nat /\ Cardinality(Before(k)') \in Nat
    <3>1. Cardinality(Before(k)) \in Nat /\ Cardinality(Before(k)') \in Nat
      BY <1>0, BeforeCounts
    <3> QED BY <3>1 DEF SnapshotType
  <2> QED BY SMTT(40), <1>0, <1>1, <2>5, <2>6, <2>7, <2>8 DEF Right
<1> QED BY <1>2, <1>3

\* A chunk brings the rows it passes.
LEMMA ChunkKeepsReplica ==
  ASSUME FiniteLaws, SnapshotType, SnapshotType', ReplicaInv, [Next]_vars, fetchChunk,
         NEW k \in Keys, ~Pending(k)
  PROVE  Right(k)'
<1>0. schema' = schema /\ Keys' = Keys /\ HasPK' = HasPK /\ (Tied(k)' <=> Tied(k))
  BY SchemaStands
<1>1. phase = "snapshot" /\ UNCHANGED table
  BY DEF fetchChunk
<1>2. PICK c \in Chunk :
       /\ replica' = [y \in Keys |-> IF y \in c THEN table[y] ELSE replica[y]]
       /\ last' = IF c = {} THEN NoValue ELSE Max({PrimaryKey(y) : y \in c})
       /\ offset' = offset + Cardinality(c)
       /\ phase' = IF Cardinality(c) < ChunkSize THEN "stream" ELSE "snapshot"
  BY DEF fetchChunk
<1>3. Right(k)
  BY DEF ReplicaInv
<1>4. CASE k \in c
  <2>1. replica'[k] = table'[k]
    BY <1>1, <1>2, <1>4
  <2> QED BY <1>0, <2>1 DEF Right
<1>5. CASE k \notin c
  <2>1. replica'[k] = replica[k] /\ table'[k] = table[k] /\ replica[k] \in {Absent, table[k]}
    BY <1>1, <1>2, <1>3, <1>5 DEF Right
  <2>2. k \notin Rows => replica[k] = table[k]
    BY <2>1 DEF Rows
  <2>3. CASE HasPK
    <3>1. /\ phase' = "stream" => c = Ahead
          /\ phase' = "snapshot" =>
               /\ \A x \in Ahead \ c : PrimaryKey(x) <= last' => Tied(x)
      BY <1>2, <2>3, CursorMoves
    <3>2. PrimaryKey(k) \in Nat /\ last \in Nat \cup {NoValue}
      <4>1. PrimaryKey(k) \in Nat
        BY KeyFacts
      <4> QED BY <4>1 DEF SnapshotType
    <3>3. k \in Ahead \/ replica[k] = table[k] \/ Tied(k)
      BY SMTT(40), <1>1, <1>3, <2>2, <2>3, <3>2 DEF Right, Ahead, NoValue
    <3> QED BY <1>0, <1>5, <2>1, <2>3, <3>1, <3>3 DEF Right
  <2>4. CASE ~HasPK
    <3>1. CASE replica[k] = table[k] \/ Tied(k)
      BY <1>0, <2>1, <3>1 DEF Right
    <3>2. CASE replica[k] # table[k] /\ ~Tied(k)
      <4>1. k \in Rows \ c /\ Cardinality(Before(k)) >= offset
        BY <1>1, <1>3, <1>5, <2>2, <2>4, <3>2 DEF Right
      <4>2. Cardinality(Before(k)) >= offset + Cardinality(c) /\ ~(Cardinality(c) < ChunkSize)
        BY <2>4, <3>2, <4>1, PositionMoves
      <4>3. Before(k)' = Before(k)
        BY <1>0, <1>1 DEF Before, Rows
      <4>4. Cardinality(Before(k)') >= offset'
        BY <1>2, <4>2, <4>3
      <4>5. phase' = "snapshot"
        BY <1>2, <4>2
      <4> QED BY <1>0, <2>1, <2>4, <4>4, <4>5 DEF Right
    <3> QED BY <3>1, <3>2
  <2> QED BY <2>3, <2>4
<1> QED BY <1>4, <1>5

\* Every step keeps what the replica has right.
LEMMA ReplicaStep ==
  ASSUME FiniteLaws, SnapshotType, SnapshotType', LogInv, ReplicaInv, [Next]_vars, ~HasPK => ~Deletes
  PROVE  ReplicaInv'
<1>0. schema' = schema /\ Keys' = Keys /\ HasPK' = HasPK
  BY SchemaStands
<1> SUFFICES ASSUME NEW k \in Keys, ~Pending(k)' PROVE Right(k)'
  BY <1>0 DEF ReplicaInv
<1>a. (Tied(k)' <=> Tied(k)) /\ (~Pending(k) => Right(k))
  BY SchemaStands DEF ReplicaInv
<1>1. CASE UNCHANGED vars
  BY <1>0, <1>1, <1>a DEF vars, Right, Pending, Before, Rows
<1>2. ASSUME NEW x \in Keys, NEW v \in {Absent, 2 + changes}, Change(x, v) PROVE Right(k)'
  BY <1>2, ChangeKeepsReplica
<1>3. CASE CreateSlot
  <2>1. /\ phase = "setup" /\ phase' = "snapshot" /\ last' = NoValue /\ offset' = 0
        /\ replica'[k] = Absent
    BY <1>3 DEF CreateSlot, SnapshotType
  <2>2. Cardinality(Before(k)') >= 0
    BY <1>0, BeforeCounts
  <2> QED BY <2>1, <2>2 DEF Right
<1>4. CASE fetchChunk
  <2>1. ~Pending(k)
    BY <1>4 DEF fetchChunk, Pending
  <2> QED BY <1>4, <2>1, ChunkKeepsReplica
<1>5. CASE Stream
  <2>1. /\ phase = "stream" /\ phase' = "stream" /\ applied' = applied + 1 /\ applied < Len(wal)
        /\ UNCHANGED <<wal, table>> /\ applied \in 0 .. Len(wal) /\ Len(wal) \in Nat
        /\ replica' = [replica EXCEPT ![wal[applied'][1]] = wal[applied'][2]]
        /\ replica \in [Keys -> Nat]
    <3>1. wal \in Seq(Keys \X Nat) /\ applied \in 0 .. Len(wal) /\ replica \in [Keys -> Nat]
      BY DEF SnapshotType
    <3>2. Len(wal) \in Nat
      BY SMTT(40), <3>1
    <3> QED BY <1>5, <3>1, <3>2 DEF Stream
  <2>2. CASE wal[applied'][1] = k
    <3>1. \A j \in applied' + 1 .. Len(wal) : wal[j][1] # wal[applied'][1]
      BY <2>1, <2>2 DEF Pending
    <3>2. applied' \in 1 .. Len(wal)
      BY SMTT(40), <2>1
    <3>3. wal[applied'][2] = table[k]
      <4>1. PICK i \in 1 .. Len(wal) : i = applied'
        BY <3>2
      <4>2. wal[i][2] = table[wal[i][1]]
        BY <3>1, <4>1 DEF LogInv
      <4> QED BY <2>2, <4>1, <4>2
    <3>4. replica'[k] = table'[k]
      BY <2>1, <2>2, <3>3
    <3> QED BY <2>1, <3>4 DEF Right
  <2>3. CASE wal[applied'][1] # k
    <3>1. ~Pending(k)
      <4> SUFFICES ASSUME NEW i \in applied + 1 .. Len(wal), wal[i][1] = k PROVE FALSE
        BY DEF Pending
      <4>1. i \in applied' + 1 .. Len(wal')
        BY SMTT(40), <2>1, <2>3
      <4> QED BY <2>1, <4>1 DEF Pending
    <3>2. replica'[k] = replica[k]
      BY <2>1, <2>3
    <3> QED BY <1>a, <2>1, <3>1, <3>2 DEF Right
  <2> QED BY <2>2, <2>3
<1>6. CASE SnapshotAgain
  <2>1. /\ phase' = "snapshot" /\ last' = NoValue /\ offset' = 0 /\ UNCHANGED <<wal, table, replica>>
        /\ applied' \in 0 .. applied /\ applied \in 0 .. Len(wal) /\ Len(wal) \in Nat
    BY SMTT(40), <1>6 DEF SnapshotAgain, SnapshotType
  <2>2. ~Pending(k)
    <3>1. PICK a \in 0 .. applied : a = applied'
      BY <2>1
    <3>2. \A i \in a + 1 .. Len(wal) : wal[i][1] # k
      <4>1. wal' = wal
        BY <2>1
      <4> QED BY <3>1, <4>1 DEF Pending
    <3>3. \A i \in applied + 1 .. Len(wal) : i \in a + 1 .. Len(wal)
      BY SMTT(40), <2>1
    <3> QED BY <3>2, <3>3 DEF Pending
  <2>3. Cardinality(Before(k)') >= 0
    BY <1>0, BeforeCounts
  <2> QED BY <1>a, <2>1, <2>2, <2>3 DEF Right
<1> QED BY <1>1, <1>2, <1>3, <1>4, <1>5, <1>6 DEF Next

\* The invariants hold at the start.
LEMMA SnapshotStarts == Init => SnapshotType /\ EmittedInv /\ LogInv
<1>1. Init => SnapshotType
  BY SMTT(40), SnapshotAssumption DEF Init, SnapshotType, Absent
<1>2. Init => EmittedInv /\ LogInv
  <2> SUFFICES ASSUME Init PROVE EmittedInv /\ LogInv
    OBVIOUS
  <2>1. phase = "setup" /\ Rows \subseteq Keys /\ \A k \in Keys : emitted[k] = 0
    BY DEF Init, Rows
  <2>2. 1 .. Len(wal) = {}
    BY SMTT(40) DEF Init
  <2>3. EmittedInv
    BY SMTT(40), <2>1 DEF EmittedInv
  <2> QED BY <2>2, <2>3 DEF LogInv
<1> QED BY <1>1, <1>2

\* What the invariants say of a row nobody touches.
LEMMA EmittedOnce == SnapshotType /\ EmittedInv => UntouchedOnce
BY SMTT(40) DEF SnapshotType, EmittedInv, UntouchedOnce

\* What the invariant says of the replica when the log is applied.
LEMMA ReplicaCaughtUp == SnapshotType /\ ReplicaInv => ReplicaConverges
<1> SUFFICES ASSUME SnapshotType, ReplicaInv, phase = "stream", applied = Len(wal), NEW k \in Keys
             PROVE  replica[k] = table[k] \/ (Tied(k) /\ replica[k] = Absent)
  BY DEF ReplicaConverges
<1>1. ~Pending(k)
  <2>1. Len(wal) \in Nat
    BY SMTT(40) DEF SnapshotType
  <2>2. applied + 1 .. Len(wal) = {}
    BY SMTT(40), <2>1
  <2> QED BY <2>2 DEF Pending
<1> QED BY <1>1 DEF ReplicaInv, Right

\* The order of the natural numbers, as the set of its pairs.
LEMMA NotBelow ==
  \A x, y \in Nat : <<y, x>> \notin {ss \in Nat \X Nat : ss[1] < ss[2]} => x <= y
BY SMTT(40)

-----------------------------------------------------------------------------
(***************************************************************************)
(* The schema history, for any number of entries, failures and restarts.   *)
(***************************************************************************)
\* A list of saved entries, the first n at most.
Entries(q, n) == q \in Seq(1 .. n) /\ Len(q) > 0

\* What the store can hold.
HistoryTypeOK ==
  /\ made \in Nat /\ kept \in 0 .. made
  /\ saving \in {"idle", "write", "rename"}
  /\ cache = Missing \/ Entries(cache, made)
  /\ file = Missing \/ Entries(file, made)
  /\ tmp \in {Missing, Torn} \/ Entries(tmp, made)

\* While Save runs its entry ends the cache, and the file ends with the newest
\* entry whose Save succeeded.
HistoryInv ==
  /\ HistoryTypeOK /\ FileKeepsUp
  /\ saving # "idle" => cache # Missing /\ Last(cache) = made /\ kept < made
  /\ saving = "rename" => tmp = cache
  /\ cache # Missing => Last(cache) >= kept
  /\ IF file = Missing THEN kept = 0 ELSE Last(file) = kept

\* A list of entries is neither missing nor cut short, and stays one.
LEMMA EntriesFacts ==
  ASSUME NEW n \in Nat, NEW q, Entries(q, n)
  PROVE  /\ q # Missing /\ q # Torn /\ Last(q) \in 1 .. n
         /\ Entries(q, n + 1)
         /\ Entries(Append(q, n + 1), n + 1) /\ Last(Append(q, n + 1)) = n + 1
<1>1. q \in Seq(1 .. n) /\ Len(q) \in Nat \ {0}
  BY SMTT(40) DEF Entries
<1>2. q[1] \in 1 .. n /\ q[Len(q)] \in 1 .. n
  BY SMTT(40), <1>1
<1>3. q # Missing /\ q # Torn
  BY SMTT(40), <1>2 DEF Missing, Torn
<1>4. q \in Seq(1 .. n + 1) /\ Append(q, n + 1) \in Seq(1 .. n + 1)
  BY SMTT(40), <1>1
<1>5. Len(Append(q, n + 1)) = Len(q) + 1 /\ Append(q, n + 1)[Len(q) + 1] = n + 1
  BY SMTT(40), <1>1
<1> QED BY SMTT(40), <1>1, <1>2, <1>3, <1>4, <1>5 DEF Entries, Last

\* The first entry alone.
LEMMA FirstEntry ==
  ASSUME NEW n \in Nat
  PROVE  Entries(<<n + 1>>, n + 1) /\ Last(<<n + 1>>) = n + 1
BY SMTT(40) DEF Entries, Last

\* The empty store.
LEMMA HistoryInitInv == HistoryInit => HistoryInv
BY SMTT(40) DEF HistoryInit, HistoryInv, HistoryTypeOK, FileKeepsUp

\* Save puts its entry into the cache.
LEMMA SaveStep ==
  ASSUME HistoryInv, Save
  PROVE  HistoryInv'
<1>1. made \in Nat /\ made' = made + 1 /\ made' \in Nat /\ kept \in 0 .. made
  BY SMTT(40) DEF HistoryInv, HistoryTypeOK, Save
<1>2. Entries(cache', made') /\ Last(cache') = made' /\ cache' # Missing
  <2>1. CASE cache = Missing
    BY SMTT(40), <1>1, <2>1, FirstEntry, EntriesFacts DEF Save
  <2>2. CASE cache # Missing
    <3>1. Entries(cache, made)
      BY <2>2 DEF HistoryInv, HistoryTypeOK
    <3>2. cache' = Append(cache, made + 1)
      BY <1>1, <2>2 DEF Save
    <3>3. Entries(cache', made + 1) /\ Last(cache') = made + 1
      BY <1>1, <3>1, <3>2, EntriesFacts
    <3> QED BY <1>1, <3>3, EntriesFacts
  <2> QED BY <2>1, <2>2
<1>3. /\ file = Missing \/ Entries(file, made')
      /\ tmp \in {Missing, Torn} \/ Entries(tmp, made')
  BY <1>1, EntriesFacts DEF HistoryInv, HistoryTypeOK
<1>4. HistoryTypeOK'
  BY SMTT(40), <1>1, <1>2, <1>3 DEF HistoryTypeOK, Save, HistoryInv
<1>5. FileKeepsUp'
  BY DEF FileKeepsUp, Save
<1> QED BY SMTT(40), <1>1, <1>2, <1>4, <1>5 DEF HistoryInv, Save

\* Every step keeps the invariant.
LEMMA HistoryStep ==
  ASSUME HistoryInv, [HistoryNext]_historyVars
  PROVE  HistoryInv'
<1>0. made \in Nat /\ kept \in 0 .. made
  BY DEF HistoryInv, HistoryTypeOK
<1>1. CASE Save
  BY <1>1, SaveStep
<1>2. CASE WriteTmp
  BY <1>2 DEF WriteTmp, HistoryInv, HistoryTypeOK, FileKeepsUp
<1>3. CASE Rename
  <2>1. Entries(cache, made) /\ tmp = cache /\ Last(cache) = made
    BY <1>3 DEF Rename, HistoryInv, HistoryTypeOK
  <2> QED BY SMTT(40), <1>0, <1>3, <2>1, EntriesFacts DEF Rename, HistoryInv, HistoryTypeOK, FileKeepsUp
<1>4. CASE SaveFails
  BY SMTT(40), <1>0, <1>4 DEF SaveFails, HistoryInv, HistoryTypeOK, FileKeepsUp
<1>5. CASE loadEntries
  BY SMTT(40), <1>0, <1>5 DEF loadEntries, HistoryInv, HistoryTypeOK, FileKeepsUp
<1>6. CASE Restart
  BY <1>6 DEF Restart, HistoryInv, HistoryTypeOK, FileKeepsUp
<1>7. CASE UNCHANGED historyVars
  BY <1>7 DEF historyVars, HistoryInv, HistoryTypeOK, FileKeepsUp
<1> QED BY <1>1, <1>2, <1>3, <1>4, <1>5, <1>6, <1>7 DEF HistoryNext

\* The invariant of the store: while Save runs its entry ends the cache, and the
\* file ends with the newest entry whose Save succeeded (FileHistoryStore.Save).
THEOREM HistoryHolds == HistorySpec => []HistoryInv
BY HistoryInitInv, HistoryStep, PTL DEF HistorySpec

\* Whatever write fails and whenever the process dies, what GetLatest answers is
\* readable and no older than the newest successful Save (writeFile, loadEntries).
THEOREM LatestIsKept == HistorySpec => []LatestSurvives
<1>1. HistoryInv => LatestSurvives
  <2> SUFFICES ASSUME HistoryInv, kept > 0 PROVE LatestSurvives
    BY DEF LatestSurvives
  <2>1. made \in Nat /\ kept \in 0 .. made /\ file # Missing /\ Last(file) = kept
    BY SMTT(40) DEF HistoryInv, HistoryTypeOK
  <2>2. Entries(file, made)
    BY <2>1 DEF HistoryInv, HistoryTypeOK
  <2>3. file # Torn
    BY <2>1, <2>2, EntriesFacts
  <2> QED BY SMTT(40), <2>1, <2>3 DEF LatestSurvives, HistoryInv
<1> QED BY <1>1, HistoryHolds, PTL

\* A successful Save leaves out no entry of the cache, the ones whose own write
\* failed included (FileHistoryStore.Save).
THEOREM FileFollowsCache == HistorySpec => []FileKeepsUp
<1>1. HistoryInv => FileKeepsUp
  BY DEF HistoryInv
<1> QED BY <1>1, HistoryHolds, PTL

-----------------------------------------------------------------------------
(***************************************************************************)
(* The life of the process, for every choice of parts and every order in   *)
(* which they start, fail and end.                                         *)
(***************************************************************************)
\* Where run is, and the calls it defers.
Places == {"nats", "pg", "mysql", "wait", "return", "end"}
Calls == {"stop", "bus", "pub", "pg", "mysql"}
ListenerStates == {"off", "start", "run", "stopping", "stopped"}

\* The order of the deferred calls: the context's stop and the bus's Shutdown are
\* the first two, and the Stop of every listener at work comes after them.
StopsAreDeferred ==
  /\ at \in Places /\ defers \in Seq(Calls) /\ listener \in [Databases -> ListenerStates]
  /\ \A i \in 1 .. Len(defers) : (i = 1 <=> defers[i] = "stop") /\ (i = 2 <=> defers[i] = "bus")
  /\ at \notin {"return", "end"} => Len(defers) >= 2
  /\ closed => at \in {"return", "end"} /\ Len(defers) <= 1
  /\ \A d \in Databases :
       /\ listener[d] = "start" => at = d /\ d \in enabled
       /\ listener[d] \in {"run", "stopping"} => \E i \in 3 .. Len(defers) : defers[i] = d

\* A step of the others.
LEMMA StopsStand ==
  ASSUME StopsAreDeferred, UNCHANGED <<enabled, at, defers, listener, closed>>
  PROVE  StopsAreDeferred'
BY DEF StopsAreDeferred

\* A call is deferred while run starts the parts.
LEMMA StopsGrow ==
  ASSUME StopsAreDeferred, at \notin {"return", "end"}, at' \in Places, at' \notin {"return", "end"},
         NEW c \in {"pub", "pg", "mysql"}, defers' = Append(defers, c), UNCHANGED <<enabled, closed>>,
         listener' \in [Databases -> ListenerStates],
         \A d \in Databases :
           /\ listener'[d] = "start" => at' = d /\ d \in enabled
           /\ listener'[d] \in {"run", "stopping"} => c = d \/ listener[d] \in {"run", "stopping"}
  PROVE  StopsAreDeferred'
<1>1. defers' \in Seq(Calls) /\ Len(defers') = Len(defers) + 1 /\ Len(defers) \in Nat /\ Len(defers) >= 2
  BY SMTT(40) DEF StopsAreDeferred, Calls
<1>2. \A i \in 1 .. Len(defers) : defers'[i] = defers[i]
  BY SMTT(40) DEF StopsAreDeferred
<1>3. defers'[Len(defers) + 1] = c
  BY SMTT(40) DEF StopsAreDeferred
<1>4. \A i \in 1 .. Len(defers') :
        (i = 1 <=> defers'[i] = "stop") /\ (i = 2 <=> defers'[i] = "bus")
  BY SMTT(40), <1>1, <1>2, <1>3 DEF StopsAreDeferred
<1>5. ASSUME NEW d \in Databases, listener'[d] \in {"run", "stopping"}
      PROVE  \E i \in 3 .. Len(defers') : defers'[i] = d
  <2>1. CASE c = d
    BY SMTT(40), <2>1, <1>1, <1>3
  <2>2. CASE listener[d] \in {"run", "stopping"}
    <3>1. PICK i \in 3 .. Len(defers) : defers[i] = d
      BY <2>2 DEF StopsAreDeferred
    <3> QED BY SMTT(40), <3>1, <1>1, <1>2
  <2> QED BY <1>5, <2>1, <2>2
<1> QED BY SMTT(40), <1>1, <1>4, <1>5 DEF StopsAreDeferred

\* The last of the deferred calls returns.
LEMMA StopsShrink ==
  ASSUME StopsAreDeferred, at = "return", UNCHANGED at, defers # <<>>,
         defers' = [i \in 1 .. Len(defers) - 1 |-> defers[i]],
         closed' => closed \/ defers[Len(defers)] = "bus",
         listener' \in [Databases -> ListenerStates],
         \A d \in Databases :
           /\ listener'[d] # "start"
           /\ listener'[d] \in {"run", "stopping"} =>
                defers[Len(defers)] # d /\ listener[d] \in {"run", "stopping"}
  PROVE  StopsAreDeferred'
<1>1. Len(defers) \in Nat \ {0}
  BY SMTT(40) DEF StopsAreDeferred
<1>2. /\ defers' \in Seq(Calls) /\ Len(defers') = Len(defers) - 1
      /\ \A i \in 1 .. Len(defers') : defers'[i] = defers[i]
  BY SMTT(40), <1>1 DEF StopsAreDeferred
<1>3. closed' => Len(defers') <= 1
  BY SMTT(40), <1>1, <1>2 DEF StopsAreDeferred
<1>4. ASSUME NEW d \in Databases, listener'[d] \in {"run", "stopping"}
      PROVE  \E i \in 3 .. Len(defers') : defers'[i] = d
  <2>1. PICK i \in 3 .. Len(defers) : defers[i] = d
    BY <1>4 DEF StopsAreDeferred
  <2>2. i # Len(defers)
    BY <2>1, <1>4
  <2> QED BY SMTT(40), <1>1, <1>2, <2>1, <2>2
<1>5. \A i \in 1 .. Len(defers') :
        (i = 1 <=> defers'[i] = "stop") /\ (i = 2 <=> defers'[i] = "bus")
  BY SMTT(40), <1>1, <1>2 DEF StopsAreDeferred
<1> QED BY <1>2, <1>3, <1>4, <1>5 DEF StopsAreDeferred, Places

\* Every step of the process keeps the order of the deferred calls.
LEMMA StopsStep == StopsAreDeferred /\ [LifeNext]_lifeVars => StopsAreDeferred'
<1> SUFFICES ASSUME StopsAreDeferred, [LifeNext]_lifeVars PROVE StopsAreDeferred'
  OBVIOUS
<1> USE DEF Return, Serve, Pop, Deferred, Databases
<1>1. CASE startNATS
  <2>1. CASE defers' = Append(defers, "pub") /\ Serve
    <3>1. at = "nats" /\ at' = "pg" /\ UNCHANGED <<enabled, listener, closed>>
      BY <1>1, <2>1 DEF startNATS, busVars
    <3> QED BY <2>1, <3>1, StopsGrow DEF StopsAreDeferred, Places
  <2>2. CASE UNCHANGED defers
    <3>1. at = "nats" /\ at' \in {"pg", "return"} /\ UNCHANGED <<enabled, listener, closed>>
      BY <1>1, <2>2 DEF startNATS, busVars
    <3> QED BY <2>2, <3>1 DEF StopsAreDeferred, Places
  <2>3. (defers' = Append(defers, "pub") /\ Serve) \/ UNCHANGED defers
    BY <1>1 DEF startNATS
  <2> QED BY <2>1, <2>2, <2>3
<1>2. ASSUME NEW d \in Databases, NEW next \in {"mysql", "wait"}, next # d,
             Disabled(d, next) \/ StartListener(d) \/ Started(d, next)
      PROVE  StopsAreDeferred'
  <2>1. CASE Disabled(d, next)
    <3>1. /\ at = d /\ d \notin enabled /\ at' = next /\ d \notin {"return", "end"}
          /\ UNCHANGED <<enabled, defers, listener, closed>>
      BY <1>2, <2>1 DEF Disabled, busVars
    <3>2. listener[d] # "start"
      BY <1>2, <3>1 DEF StopsAreDeferred
    <3> QED BY <1>2, <3>1, <3>2 DEF StopsAreDeferred, Places
  <2>2. CASE StartListener(d)
    BY <1>2, <2>2 DEF StartListener, busVars, mainVars, StopsAreDeferred, ListenerStates
  <2>3. CASE Started(d, next)
    BY <1>2, <2>3, StopsGrow DEF Started, busVars, StopsAreDeferred, ListenerStates, Places
  <2> QED BY <1>2, <2>1, <2>2, <2>3
<1>3. ASSUME NEW d \in Databases, StartFails(d) PROVE StopsAreDeferred'
  BY <1>3 DEF StartFails, busVars, StopsAreDeferred, ListenerStates, Places
<1>4. ASSUME NEW d \in Databases, StopListener(d) PROVE StopsAreDeferred'
  <2>1. CASE listener[d] = "run"
    BY SMTT(40), <1>4, <2>1 DEF StopListener, mainVars, busVars, StopsAreDeferred, ListenerStates
  <2>2. CASE listener[d] = "stopping"
    BY SMTT(40), <1>4, <2>2, StopsShrink DEF StopListener, busVars, StopsAreDeferred, ListenerStates
  <2> QED BY <1>4, <2>1, <2>2 DEF StopListener
<1>5. CASE StopPublisher
  <2>1. CASE pub = "gone"
    BY <1>5, <2>1, StopsShrink DEF StopPublisher, busVars, StopsAreDeferred
  <2>2. CASE pub # "gone"
    BY <1>5, <2>2, StopsStand DEF StopPublisher, busVars, mainVars
  <2> QED BY <2>1, <2>2
<1>6. CASE Shutdown \/ stop
  BY SMTT(40), <1>6, StopsShrink DEF Shutdown, stop, busVars, StopsAreDeferred
<1>7. CASE waitForShutdown \/ Exit
  BY SMTT(40), <1>7 DEF waitForShutdown, Exit, busVars, StopsAreDeferred, Places
<1>8. CASE \/ Signal \/ PublisherEnds \/ awaitStream \/ Drain \/ Reconnect \/ CanalFails
           \/ SlotLost \/ SlotRecreated \/ sampleOnce \/ UNCHANGED lifeVars
  <2>1. UNCHANGED <<enabled, at, defers, listener, closed>>
    BY <1>8 DEF Signal, PublisherEnds, awaitStream, Drain, Reconnect, CanalFails, SlotLost,
                SlotRecreated, sampleOnce, lifeVars, mainVars, busVars
  <2> QED BY <2>1, StopsStand
<1>9. ASSUME NEW d \in Databases, Emit(d) \/ Resume(d) PROVE StopsAreDeferred'
  <2>1. UNCHANGED <<enabled, at, defers, listener, closed>>
    BY <1>9 DEF Emit, Resume, mainVars
  <2> QED BY <2>1, StopsStand
<1>10. CASE startPostgres
  BY <1>10, <1>2 DEF startPostgres
<1>11. CASE startMySQL
  BY <1>11, <1>2 DEF startMySQL
<1> QED BY <1>1, <1>3, <1>4, <1>5, <1>6, <1>7, <1>8, <1>9, <1>10, <1>11 DEF LifeNext

\* The bus outlives the listeners, whichever parts are enabled and however run
\* ends: it is closed when every deferred Stop has returned.
THEOREM BusClosesLast == LifeSpec => []BusOutlivesListeners
<1>1. LifeInit => StopsAreDeferred
  BY SMTT(40) DEF LifeInit, StopsAreDeferred, Places, Calls, ListenerStates, Databases
<1>2. StopsAreDeferred /\ [LifeNext]_lifeVars => StopsAreDeferred'
  BY StopsStep
<1>3. StopsAreDeferred => BusOutlivesListeners
  BY SMTT(40) DEF StopsAreDeferred, BusOutlivesListeners, ListenerStates, Databases
<1> QED BY <1>1, <1>2, <1>3, PTL DEF LifeSpec

-----------------------------------------------------------------------------
(***************************************************************************)
(* Slot ownership, for any number of watchers, slots and deployments.      *)
(***************************************************************************)
Up == {"claimed", "snapshot", "run"}
SlotRecord == [exists : BOOLEAN, by : Watchers \cup {None}]

\* What the variables can hold.
SlotTypeOK ==
  /\ slotOf \in [Watchers -> Slots]
  /\ slot \in [Slots -> SlotRecord]
  /\ row \in [Slots -> Row]
  /\ st \in [Watchers -> {"down", "setup", "claimed", "snapshot", "run", "stop"}]
  /\ registry \in [Watchers -> BOOLEAN] /\ spoke \in [Watchers -> BOOLEAN]
  /\ due \in [Watchers -> 0 .. Beat] /\ unregistered \subseteq Watchers
  /\ pass \in [Watchers -> SUBSET Candidate]
  /\ inactiveSince \in [Watchers -> [Slots -> Age \cup {NotSeen}]]

\* Slot s has a row, or a watcher of it that could not register.
Known(s) == row[s].owner # None \/ \E v \in unregistered : slotOf[v] = s

\* Whom a row may name, and which rows there must be.
OwnerInv ==
  /\ \A s \in Slots : row[s].owner # None => slotOf[row[s].owner] = s
  /\ \A s \in Slots : row[s].released => row[s].owner # None /\ ~registry[row[s].owner]
  /\ \A w \in Watchers : st[w] \in Up => Known(slotOf[w])
  /\ \A s \in Slots : slot[s].exists => Known(s)

\* How old the row of an owner may be whose last heartbeat went through.
FreshInv ==
  \A w \in Watchers : spoke[w] =>
    st[w] \in {"run", "stop"} /\ (Maintained(w) /\ Owns(w) => row[slotOf[w]].age <= due[w])

\* What a cleanup pass has read.
PassInv ==
  \A w \in Watchers : \A c \in pass[w] :
    /\ c.row.owner # None \/ \E v \in unregistered : slotOf[v] = c.slot
    /\ c.row.owner \in c.heard => ~c.row.released /\ c.row.age <= Beat

SlotInv == SlotTypeOK /\ OwnerInv /\ FreshInv /\ PassInv

\* The actions, without the nesting of SlotNext.
LEMMA SlotSteps ==
  ASSUME SlotNext
  PROVE  \/ \E w \in Watchers :
              \/ StartProcess(w) \/ setupSlotOwnership(w)
              \/ createReplicationSlotIfNotExists(w) \/ startSlotMaintenance(w)
              \/ Connect(w) \/ Disconnect(w) \/ recreateUnusableSlot(w) \/ heartbeat(w)
              \/ StopWatcher(w) \/ releaseSlotOwnership(w) \/ Crash(w) \/ fetchSlotCandidates(w)
              \/ \E c \in pass[w] : Examine(w, c)
         \/ Tick
BY DEF SlotNext, Starting, Cleaning

\* The invariant holds before any watcher has started.
LEMMA SlotInitInv == SlotInit => SlotInv
<1> SUFFICES ASSUME SlotInit PROVE SlotInv
  OBVIOUS
<1>1. SlotTypeOK
  <2>1. NoRow \in Row /\ NotSeen \in Age \cup {NotSeen} /\ 0 \in 0 .. Beat
    BY SMTT(40), SlotAssumption DEF NoRow, Row, Age
  <2>2. slotOf \in [Watchers -> Slots]
    BY SlotAssumption DEF SlotInit
  <2> QED BY <2>1, <2>2 DEF SlotInit, SlotTypeOK, SlotRecord
<1>2. OwnerInv /\ FreshInv /\ PassInv
  BY DEF SlotInit, OwnerInv, FreshInv, PassInv, NoRow, Up
<1> QED BY <1>1, <1>2 DEF SlotInv

\* The numbers in the state.
LEMMA SlotNumbers ==
  ASSUME SlotTypeOK
  PROVE  /\ \A s \in Slots : row[s].age \in Nat
         /\ \A w \in Watchers : due[w] \in Nat /\ due[w] <= Beat /\ 0 <= due[w]
BY SMTT(40), SlotAssumption DEF SlotTypeOK, Row, Age

\* What the ages of rows are compared by.
LEMMA AgeOrder ==
  /\ \A m, n \in Nat : m <= n /\ n <= Beat => m <= Beat
  /\ \A k, m, n \in Nat : k <= m + 1 /\ m <= n => k <= n + 1
  /\ 0 <= 0 /\ \A r \in Row : r.age \in Nat
  /\ NoRow.owner = None
BY SMTT(40), SlotAssumption DEF Row, Age, NoRow

\* The orphan rules spare a row that is fresh and not released.
LEMMA FreshIsNoOrphan ==
  ASSUME Beat + Skew < Stale, NEW c \in Candidate, c.row # NoRow, ~c.row.released,
         c.row.age <= Beat
  PROVE  \A v \in Watchers, bulky \in BOOLEAN : ~decide(v, c, bulky, observeInactive(v, c))
<1>1. c.row.age \in Nat
  BY AgeOrder DEF Candidate
<1>2. c.row.age + Skew < Stale
  BY SMTT(40), <1>1, SlotAssumption
<1>3. ~(c.row.age + Skew >= Stale)
  BY SMTT(40), <1>1, <1>2, SlotAssumption
<1> QED BY <1>3 DEF decide

\* A row that grows older keeps its owner and its mark.
LEMMA OlderRow ==
  ASSUME NEW r \in Row
  PROVE  LET n == [r EXCEPT !.age = Older(@)]
         IN n \in Row /\ n.owner = r.owner /\ n.released = r.released /\ n.age <= r.age + 1
BY SMTT(40), SlotAssumption DEF Row, Age, Older, NotSeen

\* What a change of one field of a slot leaves alone.
LEMMA SlotField ==
  ASSUME NEW r \in SlotRecord, NEW e \in BOOLEAN, NEW b \in Watchers \cup {None}
  PROVE  /\ [r EXCEPT !.exists = e] \in SlotRecord /\ [r EXCEPT !.by = b] \in SlotRecord
         /\ [r EXCEPT !.exists = e].exists = e /\ [r EXCEPT !.by = b].exists = r.exists
BY DEF SlotRecord

\* What a change of one field of a row leaves alone.
LEMMA RowField ==
  ASSUME NEW r \in Row
  PROVE  /\ [r EXCEPT !.age = 0] \in Row /\ [r EXCEPT !.released = TRUE] \in Row
         /\ [r EXCEPT !.age = 0].owner = r.owner /\ [r EXCEPT !.age = 0].released = r.released
         /\ [r EXCEPT !.age = 0].age = 0
         /\ [r EXCEPT !.released = TRUE].owner = r.owner
         /\ [r EXCEPT !.released = TRUE].age = r.age
<1>1. 0 \in Age
  BY SMTT(40), SlotAssumption DEF Age
<1>2. [r EXCEPT !.age = 0] \in Row /\ [r EXCEPT !.released = TRUE] \in Row
  BY <1>1 DEF Row
<1>3. /\ [r EXCEPT !.age = 0].owner = r.owner /\ [r EXCEPT !.age = 0].released = r.released
      /\ [r EXCEPT !.age = 0].age = 0
  BY DEF Row
<1>4. /\ [r EXCEPT !.released = TRUE].owner = r.owner
      /\ [r EXCEPT !.released = TRUE].age = r.age
  BY DEF Row
<1> QED BY <1>2, <1>3, <1>4

\* Nobody's configuration changes, and who failed to register is remembered.
LEMMA SlotHistory ==
  ASSUME SlotNext \/ UNCHANGED slotVars
  PROVE  slotOf' = slotOf /\ unregistered \subseteq unregistered'
<1>1. CASE UNCHANGED slotVars
  BY <1>1 DEF slotVars, registryVars
<1>2. CASE SlotNext
  BY <1>2, SlotSteps DEF StartProcess, setupSlotOwnership, createReplicationSlotIfNotExists,
    startSlotMaintenance, Connect, Disconnect, recreateUnusableSlot, heartbeat, StopWatcher,
    releaseSlotOwnership, Crash, fetchSlotCandidates, Examine, Tick, registryVars
<1> QED BY <1>1, <1>2

\* A step that changes a slot changes one field of it; only these two create one.
LEMMA SlotEffect ==
  ASSUME SlotTypeOK, NEW w \in Watchers,
         \/ StartProcess(w) \/ setupSlotOwnership(w)
         \/ createReplicationSlotIfNotExists(w) \/ startSlotMaintenance(w)
         \/ Connect(w) \/ Disconnect(w) \/ recreateUnusableSlot(w) \/ heartbeat(w)
         \/ StopWatcher(w) \/ releaseSlotOwnership(w) \/ Crash(w) \/ fetchSlotCandidates(w)
         \/ \E c \in pass[w] : Examine(w, c)
  PROVE  /\ slot' \in [Slots -> SlotRecord]
         /\ \A s \in Slots : slot'[s].exists => slot[s].exists \/ (s = slotOf[w] /\ st[w] \in Up)
         /\ (\A c \in pass[w] : ~Examine(w, c)) =>
              \A s \in Slots : slot[s].exists => slot'[s].exists
<1>1. slotOf[w] \in Slots /\ slot \in [Slots -> SlotRecord] /\ pass[w] \subseteq Candidate
  BY DEF SlotTypeOK
<1>2. \A c \in Candidate : c.slot \in Slots
  BY DEF Candidate
<1>3. CASE \/ StartProcess(w) \/ setupSlotOwnership(w) \/ startSlotMaintenance(w)
           \/ heartbeat(w) \/ releaseSlotOwnership(w) \/ fetchSlotCandidates(w)
  <2>1. slot' = slot
    BY <1>3 DEF StartProcess, setupSlotOwnership, startSlotMaintenance, heartbeat,
      releaseSlotOwnership, fetchSlotCandidates
  <2> QED BY <2>1, <1>1
<1>4. CASE createReplicationSlotIfNotExists(w) \/ recreateUnusableSlot(w)
  <2>1. slot' = [slot EXCEPT ![slotOf[w]] = [slot[slotOf[w]] EXCEPT !.exists = TRUE]] /\ st[w] \in Up
    BY <1>4 DEF createReplicationSlotIfNotExists, recreateUnusableSlot, Up
  <2>2. /\ [slot[slotOf[w]] EXCEPT !.exists = TRUE] \in SlotRecord
        /\ [slot[slotOf[w]] EXCEPT !.exists = TRUE].exists
    BY <1>1 DEF SlotRecord
  <2> QED BY <2>1, <2>2, <1>1
<1>5. CASE Connect(w) \/ Disconnect(w) \/ StopWatcher(w) \/ Crash(w)
  <2>1. slot' = slot \/ \E b \in Watchers \cup {None} :
          slot' = [slot EXCEPT ![slotOf[w]] = [slot[slotOf[w]] EXCEPT !.by = b]]
    BY <1>5 DEF Connect, Disconnect, StopWatcher, Crash
  <2>2. ASSUME NEW b \in Watchers \cup {None},
               slot' = [slot EXCEPT ![slotOf[w]] = [slot[slotOf[w]] EXCEPT !.by = b]]
        PROVE  /\ slot' \in [Slots -> SlotRecord]
               /\ \A s \in Slots : slot'[s].exists = slot[s].exists
    <3>1. /\ [slot[slotOf[w]] EXCEPT !.by = b] \in SlotRecord
          /\ [slot[slotOf[w]] EXCEPT !.by = b].exists = slot[slotOf[w]].exists
      BY <1>1 DEF SlotRecord
    <3> QED BY <2>2, <3>1, <1>1
  <2> QED BY <2>1, <2>2, <1>1
<1>6. CASE \E c \in pass[w] : Examine(w, c)
  <2>1. PICK c \in pass[w] : Examine(w, c)
    BY <1>6
  <2>T. c.slot \in Slots
    BY <1>1, <1>2
  <2>2. slot' = slot \/ slot' = [slot EXCEPT ![c.slot] = [slot[c.slot] EXCEPT !.exists = FALSE]]
    BY <2>1 DEF Examine
  <2>3. /\ [slot[c.slot] EXCEPT !.exists = FALSE] \in SlotRecord
        /\ ~[slot[c.slot] EXCEPT !.exists = FALSE].exists
    BY <2>T, <1>1 DEF SlotRecord
  <2> QED BY <2>1, <2>2, <2>3, <2>T, <1>1
<1> QED BY <1>3, <1>4, <1>5, <1>6

\* The actions that leave the registry and its rows alone.
QuietAction(w) ==
  \/ StartProcess(w) \/ createReplicationSlotIfNotExists(w) \/ startSlotMaintenance(w)
  \/ Connect(w) \/ Disconnect(w) \/ recreateUnusableSlot(w)
  \/ StopWatcher(w) \/ fetchSlotCandidates(w) \/ \E c \in pass[w] : Examine(w, c)

\* What a quiet action does to where the watchers are.
LEMMA QuietEffect ==
  ASSUME SlotTypeOK, NEW w \in Watchers, QuietAction(w)
  PROVE  /\ row' = row /\ registry' = registry /\ due' = due /\ spoke' = spoke
         /\ unregistered' = unregistered
         /\ st' \in [Watchers -> {"down", "setup", "claimed", "snapshot", "run", "stop"}]
         /\ \A v \in Watchers :
              /\ st'[v] \in Up => st[v] \in Up
              /\ st[v] \in {"run", "stop"} =>
                   st'[v] \in {"run", "stop"} /\ (st'[v] = "run" => st[v] = "run")
<1>1. /\ row' = row /\ registry' = registry /\ due' = due /\ spoke' = spoke
      /\ unregistered' = unregistered
  BY DEF QuietAction, StartProcess, createReplicationSlotIfNotExists, startSlotMaintenance,
    Connect, Disconnect, recreateUnusableSlot, StopWatcher, fetchSlotCandidates, Examine,
    registryVars
<1>2. \/ st' = st
      \/ st[w] = "down" /\ st' = [st EXCEPT ![w] = "setup"]
      \/ st[w] = "run" /\ st' = [st EXCEPT ![w] = "stop"]
      \/ st[w] = "claimed" /\ st' = [st EXCEPT ![w] = "snapshot"]
      \/ st[w] = "snapshot" /\ st' = [st EXCEPT ![w] = "run"]
  BY DEF QuietAction, StartProcess, createReplicationSlotIfNotExists, startSlotMaintenance,
    Connect, Disconnect, recreateUnusableSlot, StopWatcher, fetchSlotCandidates, Examine
<1>3. /\ st' \in [Watchers -> {"down", "setup", "claimed", "snapshot", "run", "stop"}]
      /\ \A v \in Watchers :
           /\ st'[v] \in Up => st[v] \in Up
           /\ st[v] \in {"run", "stop"} =>
                st'[v] \in {"run", "stop"} /\ (st'[v] = "run" => st[v] = "run")
  BY <1>2 DEF SlotTypeOK, Up
<1> QED BY <1>1, <1>3

\* What a start does that registers, or does not.
LEMMA RegisterEffect ==
  ASSUME SlotTypeOK, NEW w \in Watchers, setupSlotOwnership(w)
  PROVE  /\ st[w] = "setup" /\ slot' = slot /\ due' = due /\ spoke' = spoke /\ pass' = pass
         /\ \A v \in Watchers : st'[v] = IF v = w THEN "claimed" ELSE st[v]
         /\ \/ /\ row' = row /\ registry' = registry /\ w \in unregistered'
            \/ /\ row'[slotOf[w]].owner = w /\ row'[slotOf[w]].age = 0
               /\ ~row'[slotOf[w]].released
               /\ \A s \in Slots \ {slotOf[w]} : row'[s] = row[s]
               /\ \A v \in Watchers : registry'[v] = IF v = w THEN TRUE ELSE registry[v]
<1>1. /\ st[w] = "setup" /\ slot' = slot /\ due' = due /\ spoke' = spoke /\ pass' = pass
      /\ \A v \in Watchers : st'[v] = IF v = w THEN "claimed" ELSE st[v]
  BY DEF setupSlotOwnership, SlotTypeOK
<1>2. \/ /\ row' = row /\ registry' = registry /\ w \in unregistered'
      \/ /\ row' = [row EXCEPT ![slotOf[w]] = [owner |-> w, age |-> 0, released |-> FALSE]]
         /\ registry' = [registry EXCEPT ![w] = TRUE]
  BY DEF setupSlotOwnership
<1>3. ASSUME row' = [row EXCEPT ![slotOf[w]] = [owner |-> w, age |-> 0, released |-> FALSE]],
             registry' = [registry EXCEPT ![w] = TRUE]
      PROVE  /\ row'[slotOf[w]].owner = w /\ row'[slotOf[w]].age = 0
             /\ ~row'[slotOf[w]].released
             /\ \A s \in Slots \ {slotOf[w]} : row'[s] = row[s]
             /\ \A v \in Watchers : registry'[v] = IF v = w THEN TRUE ELSE registry[v]
  <2>1. /\ slotOf[w] \in Slots /\ row \in [Slots -> Row]
        /\ registry \in [Watchers -> BOOLEAN]
    BY DEF SlotTypeOK
  <2>2. row'[slotOf[w]] = [owner |-> w, age |-> 0, released |-> FALSE]
    BY <2>1, <1>3
  <2> QED BY <2>1, <2>2, <1>3
<1> QED BY <1>1, <1>2, <1>3

\* What a heartbeat writes.
LEMMA HeartbeatEffect ==
  ASSUME SlotTypeOK, NEW w \in Watchers, heartbeat(w)
  PROVE  /\ st' = st /\ slot' = slot /\ registry' = registry /\ pass' = pass
         /\ Maintained(w) /\ \A v \in Watchers : due'[v] = IF v = w THEN 0 ELSE due[v]
         /\ \A v \in Watchers \ {w} : spoke'[v] = spoke[v]
         /\ spoke'[w] /\ Owns(w) => row'[slotOf[w]].age = 0
         /\ \A s \in Slots : /\ row'[s].owner = row[s].owner /\ row'[s].released = row[s].released
                             /\ row'[s].age \in {0, row[s].age}
<1>1. slotOf[w] \in Slots /\ row \in [Slots -> Row] /\ row[slotOf[w]] \in Row
  BY DEF SlotTypeOK
<1>2. PICK ok \in BOOLEAN :
        /\ spoke' = [spoke EXCEPT ![w] = ok]
        /\ row' = IF ok /\ Owns(w) THEN [row EXCEPT ![slotOf[w]] = [row[slotOf[w]] EXCEPT !.age = 0]]
                  ELSE row
  BY DEF heartbeat
<1>3. /\ spoke'[w] = ok /\ \A v \in Watchers \ {w} : spoke'[v] = spoke[v]
      /\ \A v \in Watchers : due'[v] = IF v = w THEN 0 ELSE due[v]
  BY <1>2 DEF heartbeat, SlotTypeOK
<1>4. /\ spoke'[w] /\ Owns(w) => row'[slotOf[w]].age = 0
      /\ \A s \in Slots : /\ row'[s].owner = row[s].owner /\ row'[s].released = row[s].released
                          /\ row'[s].age \in {0, row[s].age}
  <2>1. CASE ok /\ Owns(w)
    <3> DEFINE r == [row[slotOf[w]] EXCEPT !.age = 0]
    <3>1. r.owner = row[slotOf[w]].owner /\ r.released = row[slotOf[w]].released /\ r.age = 0
      BY <1>1, RowField
    <3> HIDE DEF r
    <3>2. \A s \in Slots : row'[s] = IF s = slotOf[w] THEN r ELSE row[s]
      BY <2>1, <1>1, <1>2 DEF r
    <3> QED BY <3>1, <3>2, <1>1
  <2>2. CASE ~(ok /\ Owns(w))
    BY <2>2, <1>2, <1>3
  <2> QED BY <2>1, <2>2
<1> QED BY <1>3, <1>4 DEF heartbeat

\* What is left of a process that ended.
LEMMA LostEffect ==
  ASSUME SlotTypeOK, NEW w \in Watchers, MemoryLost(w)
  PROVE  /\ \A v \in Watchers :
              /\ st'[v] = IF v = w THEN "down" ELSE st[v]
              /\ registry'[v] = IF v = w THEN FALSE ELSE registry[v]
              /\ spoke'[v] = IF v = w THEN FALSE ELSE spoke[v]
              /\ due'[v] = IF v = w THEN 0 ELSE due[v]
         /\ st' \in [Watchers -> {"down", "setup", "claimed", "snapshot", "run", "stop"}]
         /\ registry' \in [Watchers -> BOOLEAN] /\ spoke' \in [Watchers -> BOOLEAN]
         /\ due' \in [Watchers -> 0 .. Beat]
         /\ inactiveSince' \in [Watchers -> [Slots -> Age \cup {NotSeen}]]
<1>1. 0 \in 0 .. Beat
  BY SMTT(40), SlotAssumption
<1>2. due' \in [Watchers -> 0 .. Beat] /\ \A v \in Watchers : due'[v] = IF v = w THEN 0 ELSE due[v]
  BY <1>1 DEF MemoryLost, SlotTypeOK
<1>3. /\ st' \in [Watchers -> {"down", "setup", "claimed", "snapshot", "run", "stop"}]
      /\ registry' \in [Watchers -> BOOLEAN] /\ spoke' \in [Watchers -> BOOLEAN]
      /\ inactiveSince' \in [Watchers -> [Slots -> Age \cup {NotSeen}]]
  BY DEF MemoryLost, SlotTypeOK
<1>4. \A v \in Watchers : /\ st'[v] = IF v = w THEN "down" ELSE st[v]
                          /\ registry'[v] = IF v = w THEN FALSE ELSE registry[v]
                          /\ spoke'[v] = IF v = w THEN FALSE ELSE spoke[v]
  BY DEF MemoryLost, SlotTypeOK
<1> QED BY <1>2, <1>3, <1>4

\* What a release writes; a process that dies writes nothing.
LEMMA ReleaseEffect ==
  ASSUME SlotTypeOK, NEW w \in Watchers, releaseSlotOwnership(w) \/ Crash(w)
  PROVE  /\ MemoryLost(w) /\ row' \in [Slots -> Row]
         /\ \A s \in Slots : /\ row'[s].owner = row[s].owner /\ row'[s].age = row[s].age
                             /\ row'[s].released => row[s].released \/ row[s].owner = w
<1>1. slotOf[w] \in Slots /\ row \in [Slots -> Row] /\ row[slotOf[w]] \in Row
  BY DEF SlotTypeOK
<1>2. MemoryLost(w)
  BY DEF releaseSlotOwnership, Crash
<1>3. CASE row' = row
  BY <1>1, <1>2, <1>3
<1>4. CASE row' # row
  <2> DEFINE r == [row[slotOf[w]] EXCEPT !.released = TRUE]
  <2>1. row[slotOf[w]].owner = w /\ row' = [row EXCEPT ![slotOf[w]] = r]
    BY <1>4 DEF releaseSlotOwnership, Crash, Owns
  <2>2. r \in Row /\ r.owner = row[slotOf[w]].owner /\ r.age = row[slotOf[w]].age
    BY <1>1, RowField
  <2> HIDE DEF r
  <2>3. row' \in [Slots -> Row] /\ \A s \in Slots : row'[s] = IF s = slotOf[w] THEN r ELSE row[s]
    BY <2>1, <2>2, <1>1
  <2> QED BY <2>1, <2>2, <2>3, <1>2
<1> QED BY <1>3, <1>4

\* What the passing of time does to the rows.
LEMMA TickEffect ==
  ASSUME SlotTypeOK, Tick
  PROVE  /\ st' = st /\ slot' = slot /\ pass' = pass /\ registry' = registry /\ spoke' = spoke
         /\ due' \in [Watchers -> 0 .. Beat]
         /\ \A w \in Watchers : Maintained(w) => due'[w] = due[w] + 1
         /\ row' \in [Slots -> Row]
         /\ \A s \in Slots : /\ row'[s].owner = row[s].owner /\ row'[s].released = row[s].released
                             /\ row'[s].age <= row[s].age + 1
<1>1. \A s \in Slots : row[s] \in Row /\ row[s].age \in Nat
  BY SMTT(40), SlotAssumption DEF SlotTypeOK, Row, Age
<1>2. ASSUME NEW s \in Slots
      PROVE  /\ row'[s] \in Row
             /\ row'[s].owner = row[s].owner /\ row'[s].released = row[s].released
             /\ row'[s].age <= row[s].age + 1
  <2>1. CASE row[s] = NoRow
    <3>1. row'[s] = row[s]
      BY <2>1 DEF Tick
    <3> QED BY SMTT(40), <3>1, <1>1
  <2>2. CASE row[s] # NoRow
    <3>1. row'[s] = [row[s] EXCEPT !.age = Older(@)]
      BY <2>2 DEF Tick
    <3> QED BY <3>1, <1>1, OlderRow
  <2> QED BY <2>1, <2>2
<1>3. row' \in [Slots -> Row]
  <2>1. row' = [s \in Slots |-> row'[s]]
    BY DEF Tick
  <2> QED BY <2>1, <1>2
<1>4. ASSUME NEW w \in Watchers
      PROVE  /\ due'[w] \in 0 .. Beat
             /\ Maintained(w) => due'[w] = due[w] + 1
  <2>1. /\ due[w] \in 0 .. Beat /\ Beat \in Nat /\ (Maintained(w) => due[w] < Beat)
        /\ due'[w] = IF Maintained(w) THEN due[w] + 1 ELSE due[w]
    BY SlotAssumption DEF Tick, SlotTypeOK
  <2> QED BY SMTT(40), <2>1
<1>5. due' \in [Watchers -> 0 .. Beat]
  <2>1. due' = [w \in Watchers |-> due'[w]]
    BY DEF Tick
  <2> QED BY <2>1, <1>4
<1> QED BY <1>2, <1>3, <1>4, <1>5 DEF Tick

\* Every step preserves the types.
LEMMA TypeStep ==
  ASSUME SlotTypeOK, SlotNext \/ UNCHANGED slotVars
  PROVE  SlotTypeOK'
<1>1. slotOf' = slotOf
  BY SlotHistory
<1>2. CASE UNCHANGED slotVars
  BY <1>2 DEF slotVars, registryVars, SlotTypeOK
<1>3. ASSUME NEW w \in Watchers, QuietAction(w), pass' \in [Watchers -> SUBSET Candidate],
             inactiveSince' \in [Watchers -> [Slots -> Age \cup {NotSeen}]]
      PROVE  SlotTypeOK'
  <2>1. slot' \in [Slots -> SlotRecord]
    BY <1>3, SlotEffect DEF QuietAction
  <2> QED BY <2>1, <1>1, <1>3, QuietEffect DEF SlotTypeOK
<1>4. ASSUME NEW w \in Watchers,
             \/ StartProcess(w) \/ createReplicationSlotIfNotExists(w) \/ startSlotMaintenance(w)
             \/ Connect(w) \/ Disconnect(w) \/ recreateUnusableSlot(w) \/ StopWatcher(w)
      PROVE  SlotTypeOK'
  <2>1. pass' \in [Watchers -> SUBSET Candidate] /\ inactiveSince' = inactiveSince
    BY <1>4 DEF SlotTypeOK, StartProcess, createReplicationSlotIfNotExists, startSlotMaintenance,
      Connect, Disconnect, recreateUnusableSlot, StopWatcher
  <2>2. QuietAction(w)
    BY <1>4 DEF QuietAction
  <2> QED BY <2>1, <2>2, <1>3 DEF SlotTypeOK
<1>5. ASSUME NEW w \in Watchers, setupSlotOwnership(w) PROVE SlotTypeOK'
  <2>1. [owner |-> w, age |-> 0, released |-> FALSE] \in Row
    BY SMTT(40), SlotAssumption DEF Row, Age
  <2>2. /\ row' \in [Slots -> Row] /\ registry' \in [Watchers -> BOOLEAN]
        /\ unregistered' \subseteq Watchers
    <3>1. \/ row' = [row EXCEPT ![slotOf[w]] = [owner |-> w, age |-> 0, released |-> FALSE]]
          \/ row' = row
      BY <1>5 DEF setupSlotOwnership
    <3>2. registry' = [registry EXCEPT ![w] = TRUE] \/ registry' = registry
      BY <1>5 DEF setupSlotOwnership
    <3>3. unregistered' = unregistered \cup {w} \/ unregistered' = unregistered
      BY <1>5 DEF setupSlotOwnership
    <3>4. row \in [Slots -> Row] /\ registry \in [Watchers -> BOOLEAN] /\ unregistered \subseteq Watchers
      BY DEF SlotTypeOK
    <3> QED BY <2>1, <3>1, <3>2, <3>3, <3>4
  <2>3. st' \in [Watchers -> {"down", "setup", "claimed", "snapshot", "run", "stop"}]
    BY <1>5 DEF setupSlotOwnership, SlotTypeOK
  <2> QED BY <2>2, <2>3, <1>1, <1>5 DEF SlotTypeOK, setupSlotOwnership
<1>6. ASSUME NEW w \in Watchers, heartbeat(w) PROVE SlotTypeOK'
  <2>1. row' \in [Slots -> Row]
    <3>1. \/ row' = [row EXCEPT ![slotOf[w]] = [row[slotOf[w]] EXCEPT !.age = 0]]
          \/ row' = row
      BY <1>6 DEF heartbeat
    <3>2. row \in [Slots -> Row] /\ [row[slotOf[w]] EXCEPT !.age = 0] \in Row
      BY RowField DEF SlotTypeOK
    <3> QED BY <3>1, <3>2
  <2>2. spoke' \in [Watchers -> BOOLEAN]
    BY <1>6 DEF heartbeat, SlotTypeOK
  <2>3. due' \in [Watchers -> 0 .. Beat]
    <3>1. 0 \in 0 .. Beat
      BY SMTT(40), SlotAssumption
    <3> QED BY <3>1, <1>6 DEF heartbeat, SlotTypeOK
  <2> QED BY <2>1, <2>2, <2>3, <1>1, <1>6 DEF SlotTypeOK, heartbeat
<1>7. ASSUME NEW w \in Watchers, releaseSlotOwnership(w) \/ Crash(w) PROVE SlotTypeOK'
  <2>1. slot' \in [Slots -> SlotRecord]
    BY <1>7, SlotEffect
  <2>2. MemoryLost(w) /\ row' \in [Slots -> Row]
    BY <1>7, ReleaseEffect
  <2>3. pass' \in [Watchers -> SUBSET Candidate] /\ unregistered' = unregistered
    BY <1>7 DEF SlotTypeOK, releaseSlotOwnership, Crash
  <2> QED BY <2>1, <2>2, <2>3, <1>1, LostEffect DEF SlotTypeOK
<1>8. ASSUME NEW w \in Watchers, fetchSlotCandidates(w) PROVE SlotTypeOK'
  <2>1. pass' \in [Watchers -> SUBSET Candidate]
    <3> DEFINE C(s) == [slot |-> s, active |-> slot[s].by # None, row |-> row[s],
                         heard |-> {v \in Watchers : slotOf[v] = s /\ Maintained(v) /\ spoke[v]}]
    <3>1. \A s \in Slots : C(s) \in Candidate
      BY DEF SlotTypeOK, Candidate
    <3>2. pass' = [pass EXCEPT ![w] = {C(s) : s \in {x \in Slots : slot[x].exists}}]
      BY <1>8 DEF fetchSlotCandidates
    <3> HIDE DEF C
    <3> QED BY SMTT(40), <3>1, <3>2 DEF SlotTypeOK
  <2>2. QuietAction(w) /\ inactiveSince' = inactiveSince
    BY <1>8 DEF QuietAction, fetchSlotCandidates
  <2> QED BY <2>1, <2>2, <1>3 DEF SlotTypeOK
<1>9. ASSUME NEW w \in Watchers, NEW c \in pass[w], Examine(w, c) PROVE SlotTypeOK'
  <2>1. c \in Candidate
    BY DEF SlotTypeOK
  <2>2. c.slot \in Slots
    BY <2>1 DEF Candidate
  <2>3. observeInactive(w, c) \in Age \cup {NotSeen}
    BY SMTT(40), <2>2, SlotAssumption DEF observeInactive, SlotTypeOK, Age
  <2>4. PICK n \in Age \cup {NotSeen} : inactiveSince' = [inactiveSince EXCEPT ![w][c.slot] = n]
    <3>1. \E n \in {NotSeen, observeInactive(w, c)} :
            inactiveSince' = [inactiveSince EXCEPT ![w][c.slot] = n]
      BY <1>9 DEF Examine
    <3> QED BY <2>3, <3>1
  <2>5. inactiveSince' \in [Watchers -> [Slots -> Age \cup {NotSeen}]]
    BY <2>2, <2>4 DEF SlotTypeOK
  <2>6. pass' \in [Watchers -> SUBSET Candidate] /\ QuietAction(w)
    BY <1>9 DEF Examine, SlotTypeOK, QuietAction
  <2> QED BY <2>5, <2>6, <1>3
<1>10. CASE Tick
  <2>1. inactiveSince' \in [Watchers -> [Slots -> Age \cup {NotSeen}]]
    <3>1. \A n \in Age \cup {NotSeen} : Older(n) \in Age \cup {NotSeen}
      BY SMTT(40), SlotAssumption DEF Older, Age, NotSeen
    <3> QED BY SMTT(40), <1>10, <3>1 DEF Tick, SlotTypeOK
  <2> QED BY <2>1, <1>1, <1>10, TickEffect DEF SlotTypeOK, Tick
<1> QED BY SlotSteps, <1>2, <1>4, <1>5, <1>6, <1>7, <1>8, <1>9, <1>10

\* A step that names no new owner, marks no row of an owner with a registry,
\* registers and brings up nobody and creates a slot only for one that is up.
QuietOwners ==
  /\ \A s \in Slots : row'[s].owner = row[s].owner
  /\ \A s \in Slots : row'[s].released =>
       row[s].released \/ (row[s].owner # None /\ ~registry'[row[s].owner])
  /\ \A v \in Watchers : (registry'[v] => registry[v]) /\ (st'[v] \in Up => st[v] \in Up)
  /\ \A s \in Slots : slot'[s].exists =>
       slot[s].exists \/ \E v \in Watchers : slotOf[v] = s /\ st[v] \in Up

\* A quiet step changes no owner.
LEMMA QuietOwnerStep ==
  ASSUME SlotTypeOK, OwnerInv, QuietOwners, slotOf' = slotOf, unregistered \subseteq unregistered'
  PROVE  OwnerInv'
<1>1. slotOf \in [Watchers -> Slots] /\ \A s \in Slots : row[s].owner \in Watchers \cup {None}
  BY DEF SlotTypeOK, Row
<1>2. \A s \in Slots : Known(s) => Known(s)'
  BY DEF Known, QuietOwners
<1>3. \A s \in Slots : row'[s].owner # None => slotOf[row'[s].owner] = s
  BY DEF OwnerInv, QuietOwners
<1>4. \A s \in Slots : row'[s].released => row'[s].owner # None /\ ~registry'[row'[s].owner]
  BY <1>1 DEF OwnerInv, QuietOwners
<1>5. \A w \in Watchers : st'[w] \in Up => Known(slotOf[w])'
  BY <1>1, <1>2 DEF OwnerInv, QuietOwners
<1>6. ASSUME NEW s \in Slots, slot'[s].exists PROVE Known(s)'
  <2>1. CASE slot[s].exists
    BY <2>1, <1>2 DEF OwnerInv
  <2>2. CASE \E v \in Watchers : slotOf[v] = s /\ st[v] \in Up
    <3>1. PICK v \in Watchers : slotOf[v] = s /\ st[v] \in Up
      BY <2>2
    <3>2. Known(slotOf[v])
      BY <3>1 DEF OwnerInv
    <3>3. Known(s)
      BY <3>1, <3>2
    <3> QED BY <3>3, <1>2
  <2> QED BY <2>1, <2>2, <1>6 DEF QuietOwners
<1> QED BY <1>3, <1>4, <1>5, <1>6 DEF OwnerInv

\* Every step preserves who may be an owner.
LEMMA OwnerStep ==
  ASSUME SlotTypeOK, OwnerInv, SlotNext \/ UNCHANGED slotVars
  PROVE  OwnerInv'
<1>1. slotOf' = slotOf /\ unregistered \subseteq unregistered'
  BY SlotHistory
<1>2. /\ slotOf \in [Watchers -> Slots] /\ None \notin Watchers
      /\ \A s \in Slots : row[s].owner \in Watchers \cup {None}
  BY SlotAssumption DEF SlotTypeOK, Row
<1>3. CASE UNCHANGED slotVars
  <2>1. QuietOwners
    BY <1>3 DEF slotVars, registryVars, QuietOwners
  <2> QED BY <2>1, <1>1, QuietOwnerStep
<1>4. ASSUME NEW w \in Watchers, QuietAction(w) PROVE OwnerInv'
  <2>1. \A s \in Slots : slot'[s].exists => slot[s].exists \/ (s = slotOf[w] /\ st[w] \in Up)
    BY <1>4, SlotEffect DEF QuietAction
  <2>2. QuietOwners
    BY <2>1, <1>4, QuietEffect DEF QuietOwners
  <2> QED BY <2>2, <1>1, QuietOwnerStep
<1>5. ASSUME NEW w \in Watchers, setupSlotOwnership(w) PROVE OwnerInv'
  <2>1. /\ slot' = slot /\ \A v \in Watchers : st'[v] = IF v = w THEN "claimed" ELSE st[v]
        /\ \/ /\ row' = row /\ registry' = registry /\ w \in unregistered'
           \/ /\ row'[slotOf[w]].owner = w /\ ~row'[slotOf[w]].released
              /\ \A s \in Slots \ {slotOf[w]} : row'[s] = row[s]
              /\ \A v \in Watchers : registry'[v] = IF v = w THEN TRUE ELSE registry[v]
    BY <1>5, RegisterEffect
  <2>2. \A s \in Slots : row'[s].owner # None => slotOf[row'[s].owner] = s
    BY <2>1, <1>2 DEF OwnerInv
  <2>3. \A s \in Slots : row'[s].released => row'[s].owner # None /\ ~registry'[row'[s].owner]
    <3>1. CASE row' = row /\ registry' = registry
      BY <3>1 DEF OwnerInv
    <3>2. CASE ~(row' = row /\ registry' = registry)
      <4> SUFFICES ASSUME NEW s \in Slots, row'[s].released
                   PROVE  row'[s].owner # None /\ ~registry'[row'[s].owner]
        OBVIOUS
      <4>1. s # slotOf[w] /\ row'[s] = row[s]
        BY <3>2, <2>1
      <4>2. row[s].owner # None /\ ~registry[row[s].owner] /\ slotOf[row[s].owner] = s
        BY <4>1 DEF OwnerInv
      <4>3. row[s].owner \in Watchers \ {w}
        BY <4>1, <4>2, <1>2
      <4> QED BY <4>1, <4>2, <4>3, <3>2, <2>1
    <3> QED BY <3>1, <3>2
  <2>4. Known(slotOf[w])'
    BY <2>1, <1>1, <1>2 DEF Known
  <2>5. \A s \in Slots : Known(s) => Known(s)'
    BY <2>1, <2>4, <1>1, <1>2 DEF Known
  <2>6. ASSUME NEW v \in Watchers, st'[v] \in Up PROVE Known(slotOf[v])'
    <3>1. CASE v = w
      BY <3>1, <2>4
    <3>2. CASE v # w
      <4>1. st[v] \in Up /\ slotOf[v] \in Slots
        BY <3>2, <2>1, <2>6, <1>2
      <4>2. Known(slotOf[v])
        BY <4>1 DEF OwnerInv
      <4>3. slotOf' = slotOf
        BY <1>1
      <4> QED BY <4>1, <4>2, <4>3, <2>5
    <3> QED BY <3>1, <3>2
  <2>7. \A s \in Slots : slot'[s].exists => Known(s)'
    BY <2>1, <2>5 DEF OwnerInv
  <2> QED BY <2>2, <2>3, <2>6, <2>7, <1>1 DEF OwnerInv
<1>6. ASSUME NEW w \in Watchers, heartbeat(w) PROVE OwnerInv'
  <2>1. QuietOwners
    BY <1>6, HeartbeatEffect DEF QuietOwners
  <2> QED BY <2>1, <1>1, QuietOwnerStep
<1>7. ASSUME NEW w \in Watchers, releaseSlotOwnership(w) \/ Crash(w) PROVE OwnerInv'
  <2>1. /\ MemoryLost(w)
        /\ \A s \in Slots : /\ row'[s].owner = row[s].owner
                            /\ row'[s].released => row[s].released \/ row[s].owner = w
    BY <1>7, ReleaseEffect
  <2>2. \A v \in Watchers : /\ st'[v] = IF v = w THEN "down" ELSE st[v]
                            /\ registry'[v] = IF v = w THEN FALSE ELSE registry[v]
    BY <2>1, LostEffect
  <2>3. \A s \in Slots : slot'[s].exists => slot[s].exists \/ (s = slotOf[w] /\ st[w] \in Up)
    BY <1>7, SlotEffect
  <2>4. QuietOwners
    BY <2>1, <2>2, <2>3, <1>2 DEF QuietOwners, Up
  <2> QED BY <2>4, <1>1, QuietOwnerStep
<1>8. CASE Tick
  <2>1. QuietOwners
    BY <1>8, TickEffect DEF QuietOwners
  <2> QED BY <2>1, <1>1, QuietOwnerStep
<1> QED BY SlotSteps, <1>3, <1>4, <1>5, <1>6, <1>7, <1>8 DEF QuietAction

\* Every step keeps the rows of owners that are heard of fresh.
LEMMA FreshStep ==
  ASSUME SlotTypeOK, FreshInv, SlotNext \/ UNCHANGED slotVars
  PROVE  FreshInv'
<1>1. slotOf' = slotOf /\ slotOf \in [Watchers -> Slots]
  BY SlotHistory DEF SlotTypeOK
<1>2. \A v \in Watchers : row[slotOf[v]].age \in Nat /\ due[v] \in Nat
  BY <1>1, SlotNumbers
<1> SUFFICES ASSUME NEW v \in Watchers, spoke'[v]
             PROVE  /\ st'[v] \in {"run", "stop"}
                    /\ st'[v] = "run" /\ registry'[v] /\ row'[slotOf[v]].owner = v =>
                         row'[slotOf[v]].age <= due'[v]
  BY <1>1 DEF FreshInv, Maintained, Owns
<1>3. spoke[v] => /\ st[v] \in {"run", "stop"}
                  /\ st[v] = "run" /\ registry[v] /\ row[slotOf[v]].owner = v =>
                       row[slotOf[v]].age <= due[v]
  BY DEF FreshInv, Maintained, Owns
<1>4. CASE UNCHANGED slotVars
  BY <1>3, <1>4 DEF slotVars, registryVars
<1>5. ASSUME NEW w \in Watchers, QuietAction(w)
      PROVE  /\ st'[v] \in {"run", "stop"}
             /\ st'[v] = "run" /\ registry'[v] /\ row'[slotOf[v]].owner = v =>
                  row'[slotOf[v]].age <= due'[v]
  BY <1>3, <1>5, QuietEffect
<1>6. ASSUME NEW w \in Watchers, setupSlotOwnership(w)
      PROVE  /\ st'[v] \in {"run", "stop"}
             /\ st'[v] = "run" /\ registry'[v] /\ row'[slotOf[v]].owner = v =>
                  row'[slotOf[v]].age <= due'[v]
  <2>1. /\ st[w] = "setup" /\ due' = due /\ spoke' = spoke
        /\ \A u \in Watchers : st'[u] = IF u = w THEN "claimed" ELSE st[u]
        /\ \/ row' = row /\ registry' = registry
           \/ /\ row'[slotOf[w]].owner = w
              /\ \A s \in Slots \ {slotOf[w]} : row'[s] = row[s]
              /\ \A u \in Watchers : registry'[u] = IF u = w THEN TRUE ELSE registry[u]
    BY <1>6, RegisterEffect
  <2>2. v # w /\ st'[v] = st[v] /\ registry'[v] = registry[v]
    BY <2>1, <1>3
  <2>3. row'[slotOf[v]].owner = v => row'[slotOf[v]] = row[slotOf[v]]
    BY <2>1, <2>2, <1>1
  <2> QED BY <2>1, <2>2, <2>3, <1>3
<1>7. ASSUME NEW w \in Watchers, heartbeat(w)
      PROVE  /\ st'[v] \in {"run", "stop"}
             /\ st'[v] = "run" /\ registry'[v] /\ row'[slotOf[v]].owner = v =>
                  row'[slotOf[v]].age <= due'[v]
  <2>1. /\ st' = st /\ registry' = registry /\ Maintained(w)
        /\ due'[v] = IF v = w THEN 0 ELSE due[v]
        /\ v # w => spoke'[v] = spoke[v]
        /\ spoke'[w] /\ Owns(w) => row'[slotOf[w]].age = 0
        /\ row'[slotOf[v]].owner = row[slotOf[v]].owner
        /\ row'[slotOf[v]].age \in {0, row[slotOf[v]].age}
    BY <1>1, <1>7, HeartbeatEffect
  <2>2. CASE v = w
    <3>1. st'[v] = "run" /\ due'[v] = 0
      BY <2>1, <2>2 DEF Maintained
    <3>2. row'[slotOf[v]].owner = v => row'[slotOf[v]].age = 0
      BY <2>1, <2>2 DEF Owns
    <3> QED BY <3>1, <3>2, AgeOrder
  <2>3. CASE v # w
    <3>1. st'[v] = st[v] /\ due'[v] = due[v] /\ spoke[v]
      BY <2>1, <2>3
    <3>2. 0 <= due[v]
      BY SlotNumbers
    <3> QED BY <3>1, <3>2, <2>1, <1>3
  <2> QED BY <2>2, <2>3
<1>8. ASSUME NEW w \in Watchers, releaseSlotOwnership(w) \/ Crash(w)
      PROVE  /\ st'[v] \in {"run", "stop"}
             /\ st'[v] = "run" /\ registry'[v] /\ row'[slotOf[v]].owner = v =>
                  row'[slotOf[v]].age <= due'[v]
  <2>1. /\ MemoryLost(w) /\ row'[slotOf[v]].owner = row[slotOf[v]].owner
        /\ row'[slotOf[v]].age = row[slotOf[v]].age
    BY <1>1, <1>8, ReleaseEffect
  <2>2. /\ v # w /\ st'[v] = st[v] /\ registry'[v] = registry[v]
        /\ spoke'[v] = spoke[v] /\ due'[v] = due[v]
    BY <2>1, LostEffect
  <2> QED BY <2>1, <2>2, <1>3
<1>9. CASE Tick
  <2>1. /\ st' = st /\ registry' = registry /\ spoke' = spoke
        /\ Maintained(v) => due'[v] = due[v] + 1
        /\ row'[slotOf[v]].owner = row[slotOf[v]].owner
        /\ row'[slotOf[v]].age <= row[slotOf[v]].age + 1 /\ row' \in [Slots -> Row]
    BY <1>1, <1>9, TickEffect
  <2>2. row'[slotOf[v]].age \in Nat
    BY <2>1, <1>1, AgeOrder
  <2>3. ASSUME st[v] = "run", registry[v], row[slotOf[v]].owner = v
        PROVE  row'[slotOf[v]].age <= due'[v]
    <3>1. due'[v] = due[v] + 1 /\ row[slotOf[v]].age <= due[v]
      BY <2>1, <2>3, <1>3 DEF Maintained
    <3> QED BY <3>1, <2>1, <2>2, <1>2, AgeOrder
  <2> QED BY <2>1, <2>3, <1>3
<1> QED BY SlotSteps, <1>4, <1>5, <1>6, <1>7, <1>8, <1>9 DEF QuietAction

\* What passes have read stays as it was read, and is sound when it is read.
LEMMA PassStep ==
  ASSUME SlotTypeOK, OwnerInv, FreshInv, PassInv, SlotNext \/ UNCHANGED slotVars
  PROVE  PassInv'
<1>1. slotOf' = slotOf /\ unregistered \subseteq unregistered'
  BY SlotHistory
<1>2. ASSUME NEW w \in Watchers, fetchSlotCandidates(w) PROVE PassInv'
  <2>1. ASSUME NEW s \in Slots, slot[s].exists
        PROVE  LET heard == {v \in Watchers : slotOf[v] = s /\ Maintained(v) /\ spoke[v]}
               IN /\ row[s].owner # None \/ \E v \in unregistered : slotOf[v] = s
                  /\ row[s].owner \in heard => ~row[s].released /\ row[s].age <= Beat
    <3>1. row[s].owner # None \/ \E v \in unregistered : slotOf[v] = s
      BY <2>1 DEF OwnerInv, Known
    <3>2. ASSUME row[s].owner \in Watchers, slotOf[row[s].owner] = s, Maintained(row[s].owner),
                 spoke[row[s].owner]
          PROVE  ~row[s].released /\ row[s].age <= Beat
      <4>1. ~row[s].released
        BY <3>2 DEF OwnerInv, Maintained
      <4>2. row[s].age <= due[row[s].owner]
        BY <3>2 DEF FreshInv, Owns
      <4>3. row[s].age \in Nat /\ due[row[s].owner] \in Nat /\ due[row[s].owner] <= Beat
        BY <3>2, SlotNumbers
      <4>4. row[s].age <= Beat
        BY <4>2, <4>3, AgeOrder
      <4> QED BY <4>1, <4>4
    <3> QED BY <3>1, <3>2
  <2>2. \A v \in Watchers : v # w => pass'[v] = pass[v]
    BY <1>2 DEF fetchSlotCandidates, SlotTypeOK
  <2>3. unregistered' = unregistered
    BY <1>2 DEF fetchSlotCandidates, registryVars
  <2>4. ASSUME NEW c \in pass'[w]
        PROVE  /\ c.row.owner # None \/ \E v \in unregistered : slotOf[v] = c.slot
               /\ c.row.owner \in c.heard => ~c.row.released /\ c.row.age <= Beat
    <3>1. PICK s \in Slots :
            /\ slot[s].exists
            /\ c = [slot |-> s, active |-> slot[s].by # None, row |-> row[s],
                    heard |-> {v \in Watchers : slotOf[v] = s /\ Maintained(v) /\ spoke[v]}]
      BY <1>2 DEF fetchSlotCandidates, SlotTypeOK
    <3>2. /\ c.slot = s /\ c.row = row[s]
          /\ c.heard = {v \in Watchers : slotOf[v] = s /\ Maintained(v) /\ spoke[v]}
      BY <3>1
    <3> QED BY <2>1, <3>1, <3>2
  <2> QED BY <2>2, <2>3, <2>4, <1>1 DEF PassInv
<1>3. ASSUME \A w \in Watchers : pass'[w] \subseteq pass[w] PROVE PassInv'
  BY <1>1, <1>3 DEF PassInv
<1>4. ASSUME NEW w \in Watchers,
             \/ StartProcess(w) \/ setupSlotOwnership(w) \/ createReplicationSlotIfNotExists(w)
             \/ startSlotMaintenance(w) \/ Connect(w) \/ Disconnect(w) \/ recreateUnusableSlot(w)
             \/ heartbeat(w) \/ StopWatcher(w) \/ releaseSlotOwnership(w) \/ Crash(w)
             \/ \E c \in pass[w] : Examine(w, c)
      PROVE  \A v \in Watchers : pass'[v] \subseteq pass[v]
  <2>1. CASE \E c \in pass[w] : Examine(w, c)
    <3>1. PICK c \in pass[w] : pass' = [pass EXCEPT ![w] = @ \ {c}]
      BY <2>1 DEF Examine
    <3> QED BY <3>1 DEF SlotTypeOK
  <2>2. CASE StopWatcher(w) \/ Crash(w)
    BY <2>2 DEF StopWatcher, Crash, SlotTypeOK
  <2>3. CASE ~StopWatcher(w) /\ ~Crash(w) /\ ~(\E c \in pass[w] : Examine(w, c))
    <3>1. pass' = pass
      BY <1>4, <2>3 DEF StartProcess, setupSlotOwnership, createReplicationSlotIfNotExists,
        startSlotMaintenance, Connect, Disconnect, recreateUnusableSlot, heartbeat,
        releaseSlotOwnership
    <3> QED BY <3>1
  <2> QED BY <2>1, <2>2, <2>3
<1>5. CASE Tick \/ UNCHANGED slotVars
  BY <1>3, <1>5 DEF Tick, slotVars
<1> QED BY SlotSteps, <1>2, <1>3, <1>4, <1>5

-----------------------------------------------------------------------------
(***************************************************************************)
(* The inductive invariant: rows name watchers of their slot, a slot that  *)
(* exists has a row or a watcher that could not register, the row of an    *)
(* owner heard of is no older than its ticker, and a pass has read such    *)
(* rows.                                                                   *)
(***************************************************************************)
THEOREM SlotInvariant == SlotSpec => []SlotInv
<1>1. SlotInv /\ [SlotNext]_slotVars => SlotInv'
  BY TypeStep, OwnerStep, FreshStep, PassStep DEF SlotInv
<1> QED BY <1>1, SlotInitInv, PTL DEF SlotSpec

(***************************************************************************)
(* A release marks no row whose owner has a registry, in whatever order    *)
(* the watchers of a slot stop and start, and whichever of them fail to    *)
(* register (releaseSlotOwnership, setupSlotOwnership).                    *)
(***************************************************************************)
THEOREM ReleasesAreSafe == SlotSpec => []ReleasedMeansStopped
<1>1. SlotInv => ReleasedMeansStopped
  BY DEF SlotInv, OwnerInv, ReleasedMeansStopped
<1> QED BY <1>1, SlotInvariant, PTL

(***************************************************************************)
(* A cleanup pass reads an unowned slot only where a registration failed:  *)
(* watchers register before they create the slot (listener.go:148-155).    *)
(***************************************************************************)
THEOREM PassesSeeOwners == SlotSpec => []CleanupSeesOwners
<1>1. SlotInv => CleanupSeesOwners
  BY AgeOrder DEF SlotInv, PassInv, CleanupSeesOwners
<1> QED BY <1>1, SlotInvariant, PTL

(***************************************************************************)
(* If staleAfter exceeds a heartbeat interval and the clocks' difference   *)
(* together, no cleaner drops a slot whose owner was running, its last     *)
(* heartbeat gone through, when the pass read it (orphanRules.decide,      *)
(* cleanupOnce, runHeartbeat), however long starts take.                   *)
(***************************************************************************)
THEOREM OwnersKeepSlots ==
  ASSUME Beat + Skew < Stale
  PROVE  SlotSpec => HeardOwnerKeepsSlot
<1> DEFINE Kept == \A w \in Watchers : \A c \in pass[w] :
                     Drops(w, c) => c.row.owner \notin c.heard
<1>1. ASSUME SlotInv, [SlotNext]_slotVars PROVE [Kept]_slotVars
  <2> SUFFICES ASSUME SlotNext, NEW w \in Watchers, NEW c \in pass[w], Drops(w, c),
                      c.row.owner \in c.heard
               PROVE  FALSE
    BY <1>1
  <2>1. SlotTypeOK /\ PassInv
    BY <1>1 DEF SlotInv
  <2>2. c \in Candidate
    BY <2>1 DEF SlotTypeOK
  <2>3. c.slot \in Slots /\ c.row \in Row /\ c.heard \subseteq Watchers
    BY <2>2 DEF Candidate
  <2>4. c.row.owner # None
    BY <2>3, SlotAssumption
  <2>5. ~c.row.released /\ c.row.age <= Beat /\ c.row # NoRow
    BY <2>1, <2>4, AgeOrder DEF PassInv
  <2>6. \A v \in Watchers, bulky \in BOOLEAN : ~decide(v, c, bulky, observeInactive(v, c))
    BY <2>2, <2>5, FreshIsNoOrphan
  <2>7. slot[c.slot].exists /\ ~slot'[c.slot].exists
    BY DEF Drops
  <2>8. PICK v \in Watchers : \E d \in pass[v] : Examine(v, d)
    <3>1. CASE Tick
      BY <3>1, <2>7 DEF Tick
    <3> QED BY SlotSteps, SlotEffect, <3>1, <2>1, <2>3, <2>7
  <2>9. PICK d \in pass[v] : Examine(v, d)
    BY <2>8
  <2>10. pass' = [pass EXCEPT ![v] = pass[v] \ {d}] /\ pass \in [Watchers -> SUBSET Candidate]
    BY <2>1, <2>9 DEF Examine, SlotTypeOK
  <2>11. w = v /\ c = d
    BY <2>10 DEF Drops
  <2>12. slot' = slot
    BY <2>6, <2>9, <2>11 DEF Examine
  <2> QED BY <2>7, <2>12
<1>2. SlotInv /\ [SlotNext]_slotVars => [Kept]_slotVars
  BY <1>1
<1> HIDE DEF Kept
<1>3. SlotSpec => [][Kept]_slotVars
  BY <1>2, SlotInvariant, PTL DEF SlotSpec
<1> QED BY <1>3 DEF Kept, HeardOwnerKeepsSlot

-----------------------------------------------------------------------------
(***************************************************************************)
(* The theorems of the snapshot.  Only here are the laws of finite sets taken *)
(* from the library, which would burden every proof above.                 *)
(***************************************************************************)
INSTANCE FiniteSetTheorems

\* The laws hold.
LEMMA FiniteLawsHold == FiniteLaws
<1>1. ASSUME NEW T \in SUBSET Nat, T # {}
      PROVE  \E x \in T : \A y \in T : x <= y
  <2> DEFINE R == OpToRel(<, Nat)
  <2>1. IsWellFoundedOn(R, Nat)
    BY NatLessThanWellFounded
  <2>2. R = {ss \in Nat \X Nat : ss[1] < ss[2]}
    BY DEF OpToRel
  <2> HIDE DEF R
  <2>3. PICK x \in T : \A y \in T : ~ (<<y, x>> \in R)
    BY <1>1, <2>1, WFMin
  <2>4. \A y \in T : x <= y
    <3> TAKE y \in T
    <3>1. ~ (<<y, x>> \in R)
      BY <2>3
    <3> QED BY <2>2, <3>1, NotBelow
  <2> QED BY <2>4
<1>2. Cardinality({}) = 0
  BY FS_EmptySet
<1>3. ASSUME NEW S, IsFiniteSet(S)
      PROVE  /\ Cardinality(S) \in Nat
             /\ \A T \in SUBSET S :
                  /\ IsFiniteSet(T) /\ Cardinality(T) <= Cardinality(S)
                  /\ Cardinality(S) = Cardinality(T) => S = T
             /\ \A T : IsFiniteSet(T) =>
                  Cardinality(S \cup T) = Cardinality(S) + Cardinality(T) - Cardinality(S \cap T)
  BY <1>3, FS_CardinalityType, FS_Subset, FS_Union
<1> QED BY <1>1, <1>2, <1>3 DEF FiniteLaws

\* The invariants hold of every behaviour of the snapshot.
LEMMA SnapshotInvariant == Spec => [](SnapshotType /\ EmittedInv /\ LogInv)
<1>1. SnapshotType /\ EmittedInv /\ LogInv /\ [Next]_vars => (SnapshotType /\ EmittedInv /\ LogInv)'
  BY FiniteLawsHold, SnapshotTypeStep, EmittedStep, LogStep
<1> QED BY <1>1, SnapshotStarts, PTL DEF Spec

\* With a primary key a row nobody touches is emitted at most once, and exactly
\* once when the snapshot is over, however the chunks fall, whatever else
\* changes meanwhile and however often the snapshot starts again (snapshotByPK).
THEOREM UntouchedRowsOnce == Spec => []UntouchedOnce
BY EmittedOnce, SnapshotInvariant, PTL

\* Snapshot and stream together leave the consumer with the table: it can lack
\* only rows that share the chunk column's value with another.  Rows may be
\* deleted where there is a primary key: OFFSET skips a row when one before it
\* goes (snapshotByOffset).
THEOREM ReplicaCatchesUp ==
  ASSUME \A t \in Tables : t.deletes => t.hasPK
  PROVE  Spec => []ReplicaConverges
<1>1. Init => ReplicaInv
  BY DEF Init, ReplicaInv, Right
<1>2. SnapshotType /\ LogInv /\ ReplicaInv /\ SnapshotType' /\ [Next]_vars => ReplicaInv'
  <2> SUFFICES ASSUME SnapshotType, LogInv, ReplicaInv, SnapshotType', [Next]_vars PROVE ReplicaInv'
    OBVIOUS
  <2>1. ~HasPK => ~Deletes
    BY DEF SnapshotType, HasPK, Deletes
  <2> QED BY <2>1, FiniteLawsHold, ReplicaStep
<1> QED BY <1>1, <1>2, ReplicaCaughtUp, SnapshotInvariant, PTL DEF Spec
=============================================================================
