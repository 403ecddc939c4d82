---------------------------- MODULE MCLifecycle ----------------------------
(* The configurations of Lifecycle that are model-checked. *)
EXTENDS Lifecycle

Every == {c \in SUBSET {"nats", "pg", "mysql"} : c \cap Databases # {}}
=============================================================================
