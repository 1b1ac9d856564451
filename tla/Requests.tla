------------------------------ MODULE Requests ------------------------------
(***************************************************************************)
(* Client requests: staging the rows of an uploaded workbook, and the      *)
(* operator's decisions on them (backend/requests), beside the operators   *)
(* who edit assignments (backend/people).                                  *)
(*                                                                         *)
(* ImportRows runs one statement after the other with no transaction.      *)
(* ApplyRow and SkipRow read the row first and write later; only the       *)
(* writes of ApplyRow share a transaction, which is one step here because  *)
(* the database has one connection.                                        *)
(***************************************************************************)
EXTENDS Integers, Sequences, FiniteSets

CONSTANTS
    Client,           \* concurrent operator requests
    RowCount,         \* rows of the uploaded workbook
    Person,           \* people, named by their normalised SNILS
    Program,          \* programs known to GetProgramByCode
    Unknown,          \* a program code nobody knows
    Employer,
    RequestEmployer,  \* the employer of the client request
    PersonOf,         \* PersonOf[r]: the person named in row r
    ItemsOf,          \* ItemsOf[r]: the program codes of row r, in order
    Malformed,        \* rows that NormalizeRow rejects
    MaxAssignments    \* bound: operators deactivate below this many assignments

Row == 1 .. RowCount

ASSUME RowAssumption ==
    /\ RowCount \in Nat
    /\ PersonOf \in [Row -> Person]
    /\ ItemsOf \in [Row -> Seq(Program \cup {Unknown})]
    /\ Malformed \subseteq Row
ASSUME ProgramAssumption == Unknown \notin Program
ASSUME EmployerAssumption == RequestEmployer \in Employer
ASSUME BoundAssumption == MaxAssignments \in Nat

VARIABLES
    rows,         \* rows[r]: status of request_rows, or "absent"
    items,        \* items[r]: request_training_items of row r, in order of id
    workers,      \* table workers
    assignments,  \* table worker_employers; the id of a row is its position
    trainings,    \* table training_records, likewise
    import,       \* progress of ImportRows
    call          \* call[c]: the ApplyRow or SkipRow of client c

tables == <<rows, items, workers, assignments, trainings>>
vars == <<tables, import, call>>

RowStatus == {"absent", "parsed", "invalid", "applied", "skipped"}
Item == [program: Program, status: {"valid", "applied", "duplicate"}, record: Nat]
Assignment == [worker: Person, employer: Employer, active: BOOLEAN]
Training == [assignment: Nat, program: Program, row: Row]

\* seen is the number of items that were listed.
Call ==
    [step: {"idle", "reject", "list", "write", "mark"},
     row: 0 .. RowCount, seen: Nat]

Idle == [step |-> "idle", row |-> 0, seen |-> 0]

Init ==
    /\ rows = [r \in Row |-> "absent"]
    /\ items = [r \in Row |-> << >>]
    /\ workers = {}
    /\ assignments = << >>
    /\ trainings = << >>
    /\ import = [row |-> 1, item |-> 0]
    /\ call = [c \in Client |-> Idle]

At(c, step) == call[c].step = step
Become(c, j) == call' = [call EXCEPT ![c] = j]

----------------------------------------------------------------------------
(* ImportRows; import.item = 0 means that row import.row is not created yet, *)
(* and import.row = RowCount + 1 that ImportRows has returned.               *)

NextImportRow == [row |-> import.row + 1, item |-> 0]
Returned == [row |-> RowCount + 1, item |-> 0]

\* CreateRequestRow: the row is visible to operators before its items are.
StageRow ==
    /\ import.row \in Row
    /\ import.item = 0
    /\ \/ /\ import.row \in Malformed
          /\ rows' = [rows EXCEPT ![import.row] = "invalid"]
          /\ import' = NextImportRow
       \/ /\ import.row \notin Malformed
          /\ rows' = [rows EXCEPT ![import.row] = "parsed"]
          /\ import' = [import EXCEPT !.item = 1]
    /\ UNCHANGED <<items, workers, assignments, trainings, call>>

\* CreateRequestTrainingItem; the placeholder program id 0 of an unknown code
\* fails the foreign key, which ends ImportRows with an error.
StageItem ==
    /\ import.item > 0
    /\ LET r == import.row
           k == import.item
       IN  \/ /\ k > Len(ItemsOf[r])
              /\ import' = NextImportRow
              /\ UNCHANGED items
           \/ /\ k <= Len(ItemsOf[r])
              /\ ItemsOf[r][k] = Unknown
              /\ import' = Returned
              /\ UNCHANGED items
           \/ /\ k <= Len(ItemsOf[r])
              /\ ItemsOf[r][k] # Unknown
              /\ items' = [items EXCEPT ![r] = Append(@,
                   [program |-> ItemsOf[r][k], status |-> "valid", record |-> 0])]
              /\ import' = [import EXCEPT !.item = k + 1]
    /\ UNCHANGED <<rows, workers, assignments, trainings, call>>

\* The upload is cancelled or the process stops: what was staged stays.
AbortImport ==
    /\ import.row \in Row
    /\ import' = Returned
    /\ UNCHANGED <<tables, call>>

----------------------------------------------------------------------------
(* ApplyRow *)

\* No row is ever stored as pending, the first status of the table in the code.
rowTransitions ==
    [parsed  |-> {"invalid", "applied", "skipped"},
     invalid |-> {"parsed", "applied", "skipped"},
     applied |-> {},
     skipped |-> {}]

CanTransitionRow(from, to) == from = to \/ to \in rowTransitions[from]

\* Mutant: "override + apply despite validation", as rowTransitions puts it.
CheckApplyOverride(c, r) ==
    /\ At(c, "idle")
    /\ rows[r] # "absent"
    /\ CanTransitionRow(rows[r], "applied")
    /\ Become(c, [Idle EXCEPT !.step = "list", !.row = r])
    /\ UNCHANGED <<tables, import>>

\* A request arrives: GetRequestRow, the transition check and normalizeFromRow.
\* A refused call changes nothing.
CheckApply(c, r) ==
    /\ At(c, "idle")
    /\ rows[r] # "absent"
    /\ CanTransitionRow(rows[r], "applied")
    /\ Become(c, [Idle EXCEPT !.row = r,
                    !.step = IF r \in Malformed THEN "reject" ELSE "list"])
    /\ UNCHANGED <<tables, import>>

\* UpdateRequestRowStatus has no condition on the current status.
RejectRow(c) ==
    /\ At(c, "reject")
    /\ rows' = [rows EXCEPT ![call[c].row] = "invalid"]
    /\ Become(c, Idle)
    /\ UNCHANGED <<items, workers, assignments, trainings, import>>

ListItems(c) ==
    /\ At(c, "list")
    /\ Become(c, [call[c] EXCEPT !.step = "write", !.seen = Len(items[call[c].row])])
    /\ UNCHANGED <<tables, import>>

ActiveAssignments(p, e) ==
    {a \in DOMAIN assignments : /\ assignments[a].worker = p
                                /\ assignments[a].employer = e
                                /\ assignments[a].active}

\* Find-or-create of the active worker_employer.
AssignmentsWith(p) ==
    IF ActiveAssignments(p, RequestEmployer) # {} THEN assignments
    ELSE Append(assignments,
           [worker |-> p, employer |-> RequestEmployer, active |-> TRUE])

Enrolments(ts, a, g) ==
    {t \in DOMAIN ts : ts[t].assignment = a /\ ts[t].program = g}

\* Mutant: records that exist already are not looked up.
CreatingUnchecked(r, n, a) ==
    {k \in 1 .. n : \A j \in 1 .. (k - 1) : items[r][j].program # items[r][k].program}

\* The items among the first n of row r for which a record is created: no active
\* record yet, and no earlier item of the row for the same program.
Creating(r, n, a) ==
    {k \in 1 .. n :
        /\ Enrolments(trainings, a, items[r][k].program) = {}
        /\ \A j \in 1 .. (k - 1) : items[r][j].program # items[r][k].program}

\* The i-th element of a set of numbers, in ascending order.
NthOf(S, i) == CHOOSE k \in S : Cardinality({j \in S : j <= k}) = i

\* The records are created in the order of the items.
TrainingsWith(r, n, a) ==
    LET new == Creating(r, n, a)
    IN  trainings \o [i \in 1 .. Cardinality(new) |->
          [assignment |-> a, program |-> items[r][NthOf(new, i)].program, row |-> r]]

\* Mutant: a duplicate is linked to the latest record of anyone.
ResolveWrong(r, n, a, ts) ==
    [k \in DOMAIN items[r] |->
        IF k > n THEN items[r][k]
        ELSE [program |-> items[r][k].program,
              status |-> IF k \in Creating(r, n, a) THEN "applied" ELSE "duplicate",
              record |-> Len(ts)]]

\* UpdateRequestTrainingItemStatus for each listed item.
Resolve(r, n, a, ts) ==
    [k \in DOMAIN items[r] |->
        IF k > n THEN items[r][k]
        ELSE [program |-> items[r][k].program,
              status |-> IF k \in Creating(r, n, a) THEN "applied" ELSE "duplicate",
              record |-> CHOOSE t \in Enrolments(ts, a, items[r][k].program) : TRUE]]

\* The transaction.
ApplyRow(c) ==
    /\ At(c, "write")
    /\ LET r  == call[c].row
           n  == call[c].seen
           p  == PersonOf[r]
           as == AssignmentsWith(p)
           a  == CHOOSE b \in DOMAIN as :
                   as[b] = [worker |-> p, employer |-> RequestEmployer, active |-> TRUE]
           ts == TrainingsWith(r, n, a)
       IN  /\ workers' = workers \cup {p}
           /\ assignments' = as
           /\ trainings' = ts
           /\ items' = [items EXCEPT ![r] = Resolve(r, n, a, ts)]
           /\ rows' = [rows EXCEPT ![r] = "applied"]
    /\ Become(c, Idle)
    /\ UNCHANGED import

----------------------------------------------------------------------------
(* SkipRow *)

CheckSkip(c, r) ==
    /\ At(c, "idle")
    /\ rows[r] # "absent"
    /\ CanTransitionRow(rows[r], "skipped")
    /\ Become(c, [Idle EXCEPT !.step = "mark", !.row = r])
    /\ UNCHANGED <<tables, import>>

MarkSkipped(c) ==
    /\ At(c, "mark")
    /\ rows' = [rows EXCEPT ![call[c].row] = "skipped"]
    /\ Become(c, Idle)
    /\ UNCHANGED <<items, workers, assignments, trainings, import>>

\* The request is cancelled between two statements; a transaction rolls back.
Cancel(c) ==
    /\ ~At(c, "idle")
    /\ Become(c, Idle)
    /\ UNCHANGED <<tables, import>>

----------------------------------------------------------------------------
(* Operators on the people pages *)

\* ux_worker_employers_active_pair; i is the row that is written.
PairFree(i, p, e) == ActiveAssignments(p, e) \subseteq {i}

SetAssignments(as) ==
    /\ assignments' = as
    /\ UNCHANGED <<rows, items, workers, trainings, import, call>>

\* ux_workers_snils_normalized refuses a second worker with the SNILS.
CreateWorker(p) ==
    /\ p \notin workers
    /\ workers' = workers \cup {p}
    /\ UNCHANGED <<rows, items, assignments, trainings, import, call>>

AssignEmployer(p, e) ==
    /\ p \in workers
    /\ Len(assignments) < MaxAssignments
    /\ PairFree(0, p, e)
    /\ SetAssignments(Append(assignments, [worker |-> p, employer |-> e, active |-> TRUE]))

\* UpdateAssignment moves an assignment, and its records, to another employer.
UpdateAssignment(i, e) ==
    /\ assignments[i].active => PairFree(i, assignments[i].worker, e)
    /\ SetAssignments([assignments EXCEPT ![i].employer = e])

DeactivateAssignment(i) ==
    /\ Len(assignments) < MaxAssignments
    /\ SetAssignments([assignments EXCEPT ![i].active = FALSE])

----------------------------------------------------------------------------
Next ==
    \/ StageRow
    \/ StageItem
    \/ AbortImport
    \/ \E c \in Client :
         \/ \E r \in Row : CheckApply(c, r) \/ CheckSkip(c, r)
         \/ RejectRow(c)
         \/ ListItems(c)
         \/ ApplyRow(c)
         \/ MarkSkipped(c)
         \/ Cancel(c)
    \/ \E p \in Person :
         \/ CreateWorker(p)
         \/ \E e \in Employer : AssignEmployer(p, e)
    \/ \E i \in DOMAIN assignments :
         \/ \E e \in Employer : UpdateAssignment(i, e)
         \/ DeactivateAssignment(i)

Spec == Init /\ [][Next]_vars

----------------------------------------------------------------------------
(* Properties *)

\* Every variable has the type of the row or Go value it models.
TypeOK ==
    /\ rows \in [Row -> RowStatus]
    /\ items \in [Row -> Seq(Item)]
    /\ workers \subseteq Person
    /\ assignments \in Seq(Assignment)
    /\ trainings \in Seq(Training)
    /\ import \in [row: 1 .. (RowCount + 1), item: Nat]
    /\ call \in [Client -> Call]

\* An assignment has at most one training record per program, whoever applies
\* which rows at the same time (ApplyRow).
OneRecordPerEnrolment ==
    \A t, u \in DOMAIN trainings :
        /\ trainings[t].assignment = trainings[u].assignment
        /\ trainings[t].program = trainings[u].program
        => t = u

\* A worker has at most one active assignment per employer, although ApplyRow and
\* the people pages both create and change assignments.
OneActiveAssignment ==
    \A a, b \in DOMAIN assignments :
        /\ assignments[a].active /\ assignments[b].active
        /\ assignments[a].worker = assignments[b].worker
        /\ assignments[a].employer = assignments[b].employer
        => a = b

\* The rows are well typed, nobody has two active assignments to an employer, and
\* no assignment has two records of a program: nobody has two current enrolments
\* in a program with one employer, whoever applies what (ApplyRow, the people
\* pages).  Records under assignments that ended do not count: applying after that
\* enrols again.
EnrolledOnce == TypeOK /\ OneRecordPerEnrolment /\ OneActiveAssignment

\* An item that was applied, or found to be a duplicate, is linked to a record of
\* its own program and of the person named in its row (ApplyRow).
ItemsNameTheirRecord ==
    \A r \in Row : \A k \in DOMAIN items[r] :
        items[r][k].status # "valid" =>
            LET t == items[r][k].record IN
            /\ t \in DOMAIN trainings
            /\ trainings[t].program = items[r][k].program
            /\ trainings[t].assignment \in DOMAIN assignments
            /\ assignments[trainings[t].assignment].worker = PersonOf[r]

\* The item is linked to a record whose assignment is still that of the person at
\* the employer of the request.
InForce(i) ==
    /\ i.status # "valid"
    /\ LET a == assignments[trainings[i.record].assignment]
       IN  a.active /\ a.employer = RequestEmployer

\* Applying a row again is harmless while its enrolments are in force: "we never
\* accidentally re-apply a row" is not what CanTransitionRow does, which lets an
\* applied row through as an "idempotent no-op"; it is the lookups of ApplyRow that
\* keep the link of such an item and create no further record of it.
EnrolmentsStay ==
    \A r \in Row : \A k \in DOMAIN items[r] : InForce(items[r][k]) =>
        /\ items'[r][k].record = items[r][k].record
        /\ \A t \in DOMAIN trainings' \ DOMAIN trainings :
             ~(trainings'[t].row = r /\ trainings'[t].program = items[r][k].program)

\* EnrolmentsStay, of every step.
ReapplyIsHarmless == [][EnrolmentsStay]_vars

\* A row that fails normalisation enrols nobody, although rowTransitions lets an
\* operator apply it (the re-validation of ApplyRow).
MalformedEnrolsNobody ==
    \A r \in Malformed : /\ rows[r] # "applied"
                         /\ \A t \in DOMAIN trainings : trainings[t].row # r

\* rowTransitions: applied and skipped are terminal, and CanTransitionRow guards
\* the writes "against concurrent UI clicks or replayed requests".
DecisionIsFinal ==
    [][\A r \in Row : rows[r] \in {"applied", "skipped"} => rows'[r] = rows[r]]_vars

============================================================================
