---------------------------- MODULE MCPgPipeline ----------------------------
(* Transactions and failures for model checking PgPipeline. *)
EXTENDS PgInvariant

\* A transaction with a filtered change between two rows, and one whose only
\* change is refused.
CoreShapes == {<<"row", "filtered", "row">>, <<"bad">>}

\* Changes the broker refuses for their size, at the front of a transaction
\* and as the last one before a commit.
SizeShapes == {<<"large", "row">>, <<"wide", "huge">>}

\* Small transactions, for many failures.
SmallShapes == {<<>>, <<"row">>}

AllShapes == CoreShapes \cup SizeShapes \cup SmallShapes

\* Which failures are combined with which transactions.
Scenario ==
  \/ /\ {wal[1], wal[2]} = CoreShapes
     /\ used.losses + used.expiries = 0 /\ used.crashes + used.drops <= 1
  \/ /\ wal[1] = <<"row">> /\ wal[2] \in SmallShapes
     /\ used.drops = 0 /\ used.crashes + used.losses + used.expiries <= 2
  \/ /\ wal[1] \in SizeShapes /\ wal[2] = <<"row">>
     /\ used.losses + used.expiries = 0 /\ used.crashes + used.drops <= 1
     /\ ~failed /\ ~ctxDone

\* Transactions that need an ack, that never get one, and whose last change
\* does not.
LiveShapes == {<<"row">>, <<"bad">>, <<"row", "bad">>}

\* Transactions for the statements the code does not keep.
BadShapes == {<<"row">>, <<"bad">>}
=============================================================================
