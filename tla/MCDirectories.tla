--------------------------- MODULE MCDirectories ---------------------------
(* Instance of Directories for TLC. *)
EXTENDS Directories, TLC

\* Requests are interchangeable.
DirectoriesSymmetry == Permutations(Client)

============================================================================
