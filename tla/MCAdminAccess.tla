--------------------------- MODULE MCAdminAccess ---------------------------
(* Instance of AdminAccess for TLC. *)
EXTENDS AdminAccess, TLC

Tokens == 1..2

SlotSymmetry == Permutations(Slot)
=============================================================================
