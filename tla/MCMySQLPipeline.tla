-------------------------- MODULE MCMySQLPipeline --------------------------
(***************************************************************************)
(* Instances of MySQLPipeline for TLC.                                     *)
(***************************************************************************)
EXTENDS MySQLInvariant

\* An entry; `event' numbers the rows event of each row.
E(form, rows, event) == [form |-> form, rows |-> rows, event |-> event]

Rotation == E("rotate", <<>>, <<>>)

\* Two rows in one rows event; a compressed transaction; DDL; a rotation.
CoreEntries ==
  {E("txn", <<"row", "row">>, <<1, 1>>), E("packed", <<"row">>, <<1>>),
   E("ddl", <<"row">>, <<1>>), Rotation}

\* Rows of filtered tables, in a compressed transaction too; one that fits when
\* truncated; one that never fits.
ContractEntries ==
  {E("txn", <<"filtered", "large">>, <<1, 2>>), E("txn", <<"huge", "row">>, <<1, 1>>),
   E("packed", <<"filtered", "row">>, <<1, 2>>)}

AllEntries == CoreEntries \cup ContractEntries

\* Which failures are combined with which entries: three of the first, one
\* of them between two others that may share their offsets, or two of the second.
Scenario ==
  \/ /\ binlog \in [1 .. 3 -> CoreEntries] /\ binlog[2].form \in {"rotate", "packed"}
     /\ used.saves + used.expiries = 0
  \/ /\ \A t \in 1 .. 2 : binlog[t] \in ContractEntries
     /\ binlog[3] = Rotation /\ committed <= 2
     /\ used.crashes + used.saves + used.expiries <= 2

\* The smallest entries that still show each boundary.
LiveEntries == {E("txn", <<"row">>, <<1>>), E("packed", <<"row">>, <<1>>)}
=============================================================================
