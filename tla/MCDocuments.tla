---------------------------- MODULE MCDocuments ----------------------------
(* Instance of Documents for TLC. *)
EXTENDS DocumentArchive, TLC

\* Records are interchangeable.
DocumentsSymmetry == Permutations(Record)

============================================================================
