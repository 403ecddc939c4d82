------------------------- MODULE MCChunkedSnapshot -------------------------
(* Tables for model checking ChunkedSnapshot. *)
EXTENDS ChunkedSnapshot

\* A key of one column: the second component says nothing.
SingleKeys == (1 .. 4) \X {0}

\* A key of two columns, with a value of the first repeated.
CompositeKeys == {<<1, 0>>, <<2, 1>>, <<2, 2>>, <<3, 0>>}

\* A table without a primary key is append-only or updated in place: OFFSET
\* skips a row when one before it is deleted.
AllTables ==
  {[keys |-> SingleKeys, hasPK |-> TRUE, deletes |-> TRUE],
   [keys |-> SingleKeys, hasPK |-> FALSE, deletes |-> FALSE],
   [keys |-> CompositeKeys, hasPK |-> TRUE, deletes |-> TRUE]}
\* What the theorem that the replica catches up assumes holds here.
ASSUME KeylessTablesLoseNothing == \A t \in Tables : t.deletes => t.hasPK
=============================================================================
