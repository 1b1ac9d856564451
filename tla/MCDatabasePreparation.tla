----------------------- MODULE MCDatabasePreparation -----------------------
(* Instance of DatabasePreparation for TLC. *)
EXTENDS DatabasePreparation

CONSTANTS old, new

\* A build before and a build after two more migrations.
TwoBuilds == [p \in Process |-> IF p = old THEN 1 ELSE 3]

============================================================================
