--------------------------- MODULE MCImportQueue ---------------------------
(* Instances of ImportQueue for TLC. *)
EXTENDS ImportQueue, TLC

\* Clients are interchangeable, and so are workbooks that pass preflight.
QueueSymmetry == {p @@ q : p \in Permutations(Client), q \in Permutations(GoodSha)}

============================================================================
