---------------------------- MODULE MCMySQLDump ----------------------------
(* MySQLDump for model checking. *)
EXTENDS MySQLDump
=============================================================================
