----------------------------- MODULE StagedCopy -----------------------------
(***************************************************************************)
(* What staging an import promises, with no workers, leases or checkpoints *)
(* (sections 5 and 6 of the staging worker design): the rows of a workbook *)
(* are copied into the database sheet by sheet and in order, a batch at a  *)
(* time; staging is declared done only when the copy is complete; the      *)
(* uploaded file is given up only after that, and forgotten last.          *)
(***************************************************************************)
EXTENDS Integers

CONSTANTS SheetCount, RowsIn, BatchSize

VARIABLES
    copied,  \* copied[s]: ordinals of the rows of sheet s in the database
    done,    \* staging has been declared complete
    source,  \* the uploaded file exists
    named    \* the database still names the file

vars == <<copied, done, source, named>>

Sheets == 1 .. SheetCount

Init ==
    /\ copied = [s \in Sheets |-> {}]
    /\ done = FALSE
    /\ source = TRUE
    /\ named = TRUE

Complete(s) == copied[s] = 1 .. RowsIn[s]

CopyBatch == \E s \in Sheets, n \in 1 .. BatchSize : \E k \in 0 .. RowsIn[s] :
    /\ ~done
    /\ \A r \in 1 .. (s - 1) : Complete(r)
    /\ copied[s] = 1 .. k
    /\ k + n <= RowsIn[s]
    /\ copied' = [copied EXCEPT ![s] = 1 .. (k + n)]
    /\ UNCHANGED <<done, source, named>>

Finish ==
    /\ ~done
    /\ \A s \in Sheets : Complete(s)
    /\ done' = TRUE
    /\ UNCHANGED <<copied, source, named>>

Discard ==
    /\ done
    /\ source
    /\ source' = FALSE
    /\ UNCHANGED <<copied, done, named>>

Forget ==
    /\ ~source
    /\ named
    /\ named' = FALSE
    /\ UNCHANGED <<copied, done, source>>

Next == CopyBatch \/ Finish \/ Discard \/ Forget

Spec == Init /\ [][Next]_vars

============================================================================
