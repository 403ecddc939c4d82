-------------------------- MODULE ChunkedSnapshot --------------------------
(***************************************************************************)
(* The chunked snapshot of one table, internal/postgres/snapshot_chunked.go *)
(* and runSnapshot in listener.go, while the table changes.  The slot is   *)
(* created first (Start, listener.go:149-155), so that whatever changes    *)
(* from then on is in the WAL the listener streams once the snapshot is    *)
(* over.  A consumer keeps a replica: it applies the snapshot's rows, then *)
(* the stream.                                                             *)
(*                                                                         *)
(* A row's key is a pair; the chunks are ordered by its first component:   *)
(* the one column fetchPrimaryKey returns, or the first column for a table *)
(* without a primary key.  A row's value is a version number.              *)
(***************************************************************************)
EXTENDS Integers, Sequences, FiniteSets, FiniteSetsExt

CONSTANTS
  Tables,      \* the tables: which keys rows may have, whether there is a
               \* primary key, whether rows are deleted
  ChunkSize,   \* snapshot_chunk_size
  MaxChanges,  \* bound: changes to the table
  MaxRetries   \* bound: processes that start again

ASSUME SnapshotAssumption ==
  /\ \A t \in Tables :
       /\ t.keys \subseteq Nat \X Nat /\ IsFiniteSet(t.keys)
       /\ t.hasPK \in BOOLEAN /\ t.deletes \in BOOLEAN
  /\ ChunkSize \in Nat \ {0} /\ MaxChanges \in Nat /\ MaxRetries \in Nat

VARIABLES
  schema,   \* which of Tables it is
  table,    \* table[k]: the row's version, or Absent
  wal,      \* changes since the slot exists: <<key, version or Absent>>
  phase,    \* "setup", "snapshot", "stream"
  last,     \* lastValue: the chunk key read last, or NoValue
  offset,   \* rows read, for a table without primary key
  emitted,  \* emitted[k]: how often this process's snapshot emitted k
  replica,  \* the consumer's rows
  applied,  \* how much of the WAL was streamed to it
  confirmed, \* from where the slot streamed, or will stream, to this process
  changes, retries

vars ==
  <<schema, table, wal, phase, last, offset, emitted, replica, applied, confirmed, changes,
    retries>>

Keys == schema.keys
HasPK == schema.hasPK
Deletes == schema.deletes

Absent == 0
NoValue == -1  \* no value of a column
Rows == {k \in Keys : table[k] # Absent}
Touched == {wal[i][1] : i \in DOMAIN wal}

Init ==
  /\ schema \in Tables /\ table \in [Keys -> {Absent, 1}]
  /\ wal = <<>> /\ phase = "setup" /\ last = NoValue /\ offset = 0
  /\ emitted = [k \in Keys |-> 0]
  /\ replica = [k \in Keys |-> Absent]
  /\ applied = 0 /\ confirmed = 0 /\ changes = 0 /\ retries = 0

\* An insert, update or delete of another session.
Change(k, v) ==
  /\ changes < MaxChanges /\ changes' = changes + 1
  /\ v = Absent => Deletes /\ table[k] # Absent
  /\ table' = [table EXCEPT ![k] = v]
  /\ wal' = IF phase = "setup" THEN wal ELSE Append(wal, <<k, v>>)
  /\ UNCHANGED <<schema, phase, last, offset, emitted, replica, applied, confirmed, retries>>

CreateSlot ==
  /\ phase = "setup" /\ phase' = "snapshot"
  /\ UNCHANGED <<schema, table, wal, last, offset, emitted, replica, applied, confirmed, changes,
                 retries>>

(***************************************************************************)
(* Chunks.  ORDER BY one column leaves the order of equals open, from      *)
(* query to query.                                                         *)
(***************************************************************************)
\* The column fetchPrimaryKey returns: one column of the key.
PrimaryKey(k) == k[1]

\* The sets of the n first of rows.
FirstOf(rows, n) ==
  {c \in SUBSET rows :
     /\ Cardinality(c) = IF n < Cardinality(rows) THEN n ELSE Cardinality(rows)
     /\ \A x \in c, y \in rows \ c : PrimaryKey(x) <= PrimaryKey(y)}

\* Wrong: pages by position with a primary key, too.
ChunkByPosition == UNION {FirstOf(Rows \ skipped, ChunkSize) : skipped \in FirstOf(Rows, offset)}

\* buildChunkQuery, or the OFFSET query.
Chunk ==
  IF HasPK
  THEN FirstOf({k \in Rows : last = NoValue \/ PrimaryKey(k) > last}, ChunkSize)
  ELSE UNION {FirstOf(Rows \ skipped, ChunkSize) : skipped \in FirstOf(Rows, offset)}

\* Wrong: an unfilled chunk is taken for an error of the query and repeated.
fetchChunkAgain ==
  /\ phase = "snapshot"
  /\ \E c \in Chunk :
       /\ emitted' = [k \in Keys |-> emitted[k] + (IF k \in c THEN 1 ELSE 0)]
       /\ replica' = [k \in Keys |-> IF k \in c THEN table[k] ELSE replica[k]]
       /\ last' = IF Cardinality(c) < ChunkSize THEN last ELSE Max({PrimaryKey(k) : k \in c})
       /\ offset' = offset + Cardinality(c)
       /\ phase' \in IF Cardinality(c) < ChunkSize THEN {"snapshot", "stream"} ELSE {"snapshot"}
  /\ UNCHANGED <<schema, table, wal, applied, confirmed, changes, retries>>

\* Wrong: no chunk is the last.
fetchChunkNoBreak ==
  /\ phase = "snapshot"
  /\ \E c \in Chunk :
       /\ emitted' = [k \in Keys |-> emitted[k] + (IF k \in c THEN 1 ELSE 0)]
       /\ replica' = [k \in Keys |-> IF k \in c THEN table[k] ELSE replica[k]]
       /\ last' = IF c = {} THEN last ELSE Max({PrimaryKey(k) : k \in c})
       /\ offset' = offset + Cardinality(c)
       /\ phase' = "snapshot"
  /\ UNCHANGED <<schema, table, wal, applied, confirmed, changes, retries>>

\* One chunk: its rows are emitted; a chunk that is not full is the last.
fetchChunk ==
  /\ phase = "snapshot"
  /\ \E c \in Chunk :
       /\ emitted' = [k \in Keys |-> emitted[k] + (IF k \in c THEN 1 ELSE 0)]
       /\ replica' = [k \in Keys |-> IF k \in c THEN table[k] ELSE replica[k]]
       /\ last' = IF c = {} THEN NoValue ELSE Max({PrimaryKey(k) : k \in c})
       /\ offset' = offset + Cardinality(c)
       /\ phase' = IF Cardinality(c) < ChunkSize THEN "stream" ELSE "snapshot"
  /\ UNCHANGED <<schema, table, wal, applied, confirmed, changes, retries>>

Stream ==
  /\ phase = "stream" /\ applied < Len(wal)
  /\ applied' = applied + 1
  /\ replica' = [replica EXCEPT ![wal[applied'][1]] = wal[applied'][2]]
  /\ UNCHANGED <<schema, table, wal, phase, last, offset, emitted, confirmed, changes, retries>>

\* A query of the snapshot fails, which ends the start, or the process ends at
\* any other time.  The next process takes a new snapshot, the slot being there,
\* and streams again what the slot had not confirmed.
SnapshotAgain ==
  /\ phase # "setup" /\ retries < MaxRetries /\ retries' = retries + 1
  /\ phase' = "snapshot" /\ last' = NoValue /\ offset' = 0
  /\ emitted' = [k \in Keys |-> 0]
  /\ confirmed' \in confirmed .. applied /\ applied' = confirmed'
  /\ UNCHANGED <<schema, table, wal, replica, changes>>

Next ==
  \/ \E k \in Keys, v \in {Absent, 2 + changes} : Change(k, v)
  \/ CreateSlot \/ fetchChunk \/ Stream \/ SnapshotAgain

Spec == Init /\ [][Next]_vars

\* The snapshot and the listener go on; the table need not change, and no
\* restart is owed.
FairSpec ==
  Spec /\ WF_vars(CreateSlot) /\ WF_vars(fetchChunk) /\ WF_vars(Stream)

-----------------------------------------------------------------------------
\* Another row may have the same value in the column the chunks are ordered by.
Tied(k) == \E x \in Keys \ {k} : PrimaryKey(x) = PrimaryKey(k)

(***************************************************************************)
(* Once everything streamed is applied, a consumer that applied the        *)
(* snapshot first has the table: no row is missing, resurrected or out of  *)
(* date, although rows come, change and go between two chunks, and         *)
(* although a new process reads a newer table before it streams older      *)
(* changes again.  Of rows that share the chunk column's value one chunk   *)
(* may end before the last, and the next begin behind it: what the replica *)
(* has of them is never out of date, but one may be missing.               *)
(***************************************************************************)
ReplicaConverges ==
  (phase = "stream" /\ applied = Len(wal)) =>
    \A k \in Keys : replica[k] = table[k] \/ (Tied(k) /\ replica[k] = Absent)

(***************************************************************************)
(* With a primary key, a row nobody touches is emitted at most once, and   *)
(* exactly once unless it shares the chunk column's value (snapshotByPK).  *)
(***************************************************************************)
UntouchedOnce ==
  HasPK => \A k \in Rows \ Touched :
             emitted[k] <= 1 /\ (phase = "stream" /\ ~Tied(k) => emitted[k] = 1)

(***************************************************************************)
(* The snapshot ends, and the replica catches up, also when rows are added *)
(* in front of it (the loops of snapshotByPK and snapshotByOffset).        *)
(***************************************************************************)
SnapshotEnds == <>(phase = "stream" /\ applied = Len(wal))
=============================================================================
