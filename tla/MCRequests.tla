----------------------------- MODULE MCRequests -----------------------------
(* Instances of Requests for TLC. *)
EXTENDS Requests, TLC

CONSTANTS p1, g1, g2

OnePerson == <<p1>>
ThreePersons == <<p1, p1, p1>>

\* A malformed row, and two rows with a program in common; the second has an
\* unknown code after it.
Overlapping == <<<< >>, <<g1, g2>>, <<g1, Unknown>>>>

OneItem == <<<<g1>>>>

RequestSymmetry == Permutations(Client)

============================================================================
