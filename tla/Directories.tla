---------------------------- MODULE Directories ----------------------------
(***************************************************************************)
(* The directories that operators edit: program groups and programs        *)
(* (backend/programs), employers (backend/employers), workers and their    *)
(* assignments (backend/people), with the rows these services leave in the *)
(* action log (backend/audit).                                             *)
(*                                                                         *)
(* A creation is one statement.  An update or a deactivation reads the row *)
(* first, a program's update the new group as well, and writes in a later  *)
(* statement; the action log is written by one more.                       *)
(***************************************************************************)
EXTENDS Integers, Sequences, FiniteSets, Bags

CONSTANTS
    Client,    \* concurrent requests
    Key,       \* codes, normalised INNs and normalised SNILSs
    MaxRows,   \* bound: rows of all tables together
    MaxChanges \* bound: changes finished when another begins

ASSUME ClientAssumption == IsFiniteSet(Client)
ASSUME KeyAssumption == Key \subseteq Nat
ASSUME BoundAssumption == MaxRows \in Nat /\ MaxChanges \in Nat

VARIABLES
    table,      \* table[k]: the rows of kind k; the id of a row is its position
    actionLog,  \* bag of the rows of action_log
    lost,       \* number of rows of action_log that could not be written
    call        \* call[c]: the request of client c

vars == <<table, actionLog, lost, call>>

Kind == {"group", "program", "employer", "worker", "assignment"}

\* owner: the group of a program, the worker of an assignment, else 0.
\* key: code, INN or SNILS; the employer of an assignment.
Row == [owner: Nat, key: Nat, status: {"active", "inactive"}]

\* What an operator fills in, and the place of it where nothing is shown.
Form == [owner: Nat, key: Nat]
NoForm == [owner |-> -1, key |-> -1]
Status == {"active", "inactive", "none"}

FormOf(r) == [owner |-> r.owner, key |-> r.key]
RowOf(f, st) == [owner |-> f.owner, key |-> f.key, status |-> st]

\* The details of an entry: the new form and the new status, as far as they are
\* shown.  The values before the change are left out.
Action == {"create", "update", "deactivate"}
Entry == [kind: Kind, id: Nat, action: Action, form: Form \cup {NoForm}, status: Status]

\* form and status: the form and the status that was read, then what the entry of
\* the action log will show.
Call ==
    [step: {"idle", "group", "update", "deactivate", "log"}, kind: Kind, id: Nat,
     action: Action, form: Form \cup {NoForm}, status: Status]

Idle ==
    [step |-> "idle", kind |-> "group", id |-> 0, action |-> "create",
     form |-> NoForm, status |-> "none"]

Init ==
    /\ table = [k \in Kind |-> << >>]
    /\ actionLog = EmptyBag
    /\ lost = 0
    /\ call = [c \in Client |-> Idle]

At(c, step) == call[c].step = step
Become(c, r) == call' = [call EXCEPT ![c] = r]

----------------------------------------------------------------------------
(* The constraints of the schema.  A form whose references do not exist is
   refused. *)

\* The unique indexes: on the code of a group, the INN of an employer and the
\* SNILS of a worker, on group and code of a program, and on worker and employer
\* of an active assignment.
Collide(k, q, r) ==
    /\ q.key = r.key
    /\ q.owner = r.owner
    /\ k = "assignment" => q.status = "active" /\ r.status = "active"

\* Row i of kind k may become r.
MayStore(k, i, r) ==
    \A j \in DOMAIN table[k] \ {i} : ~Collide(k, table[k][j], r)

Store(k, i, r) == table' = [table EXCEPT ![k][i] = r]

\* The snapshots of employers and workers, and the entry of a creation, leave the
\* status out.
ShowsStatus(k, action) ==
    \/ action = "deactivate"
    \/ action = "update" /\ k \in {"group", "program", "assignment"}

\* The entry of a deactivation has nothing but the status.
Logging(k, i, action, row) ==
    [step |-> "log", kind |-> k, id |-> i, action |-> action,
     form |-> IF action = "deactivate" THEN NoForm ELSE FormOf(row),
     status |-> IF ShowsStatus(k, action) THEN row.status ELSE "none"]

MayBegin(c) == At(c, "idle") /\ BagCardinality(actionLog) + lost < MaxChanges

----------------------------------------------------------------------------
(* Creations *)

Size == Len(table["group"]) + Len(table["program"]) + Len(table["employer"])
          + Len(table["worker"]) + Len(table["assignment"])

\* INSERT ... RETURNING, refused at a conflict.
Create(c, k, o, x) ==
    LET row == [owner |-> o, key |-> x, status |-> "active"]
        i == Len(table[k]) + 1
    IN  /\ MayBegin(c)
        /\ Size < MaxRows
        /\ MayStore(k, i, row)
        /\ table' = [table EXCEPT ![k] = Append(@, row)]
        /\ Become(c, Logging(k, i, "create", row))
        /\ UNCHANGED <<actionLog, lost>>

CreateGroup(c) == \E x \in Key : Create(c, "group", 0, x)

\* The group need not be active.
CreateProgram(c) ==
    \E g \in DOMAIN table["group"], x \in Key : Create(c, "program", g, x)

CreateEmployer(c) == \E x \in Key : Create(c, "employer", 0, x)

CreateWorker(c) == \E x \in Key : Create(c, "worker", 0, x)

AssignEmployer(c) ==
    \E w \in DOMAIN table["worker"], e \in DOMAIN table["employer"] :
        Create(c, "assignment", w, e)

----------------------------------------------------------------------------
(* Updates: the row is read, and for a program the group, then written *)

\* The form leaves the status out.
ReadForUpdate(c, k, i, o, x) ==
    /\ MayBegin(c)
    /\ Become(c, [step |-> IF k = "program" THEN "group" ELSE "update", kind |-> k,
                  id |-> i, action |-> "update",
                  form |-> [owner |-> o, key |-> x], status |-> table[k][i].status])
    /\ UNCHANGED <<table, actionLog, lost>>

UpdateGroup(c) ==
    \E i \in DOMAIN table["group"], x \in Key : ReadForUpdate(c, "group", i, 0, x)

UpdateProgram(c) ==
    \E i \in DOMAIN table["program"], g \in DOMAIN table["group"], x \in Key :
        ReadForUpdate(c, "program", i, g, x)

UpdateEmployer(c) ==
    \E i \in DOMAIN table["employer"], x \in Key : ReadForUpdate(c, "employer", i, 0, x)

UpdateWorker(c) ==
    \E i \in DOMAIN table["worker"], x \in Key : ReadForUpdate(c, "worker", i, 0, x)

\* An assignment keeps its worker.
UpdateAssignment(c) ==
    \E i \in DOMAIN table["assignment"], e \in DOMAIN table["employer"] :
        ReadForUpdate(c, "assignment", i, table["assignment"][i].owner, e)

\* UpdateProgram wants an active group.
CheckGroup(c) ==
    /\ At(c, "group")
    /\ LET usable == table["group"][call[c].form.owner].status = "active"
       IN  \/ usable /\ Become(c, [call[c] EXCEPT !.step = "update"])
           \/ ~usable /\ Become(c, Idle)
    /\ UNCHANGED <<table, actionLog, lost>>

\* Mutant: the statement writes the status that was read, too.
WriteWholeRow(c) ==
    /\ At(c, "update")
    /\ LET k == call[c].kind
           i == call[c].id
           row == RowOf(call[c].form, call[c].status)
       IN  \/ /\ MayStore(k, i, row)
              /\ Store(k, i, row)
              /\ Become(c, Logging(k, i, "update", row))
           \/ /\ ~MayStore(k, i, row)
              /\ Become(c, Idle)
              /\ UNCHANGED table
    /\ UNCHANGED <<actionLog, lost>>

\* UPDATE ... RETURNING: the status stays that of the row.
WriteUpdate(c) ==
    /\ At(c, "update")
    /\ LET k == call[c].kind
           i == call[c].id
           row == RowOf(call[c].form, table[k][i].status)
       IN  \/ /\ MayStore(k, i, row)
              /\ Store(k, i, row)
              /\ Become(c, Logging(k, i, "update", row))
           \/ /\ ~MayStore(k, i, row)
              /\ Become(c, Idle)
              /\ UNCHANGED table
    /\ UNCHANGED <<actionLog, lost>>

----------------------------------------------------------------------------
(* Deactivations; nothing deactivates a worker *)

\* Mutant: the early return is missing.
ReadForDeactivateAgain(c, k, i) ==
    /\ MayBegin(c)
    /\ Become(c, [Idle EXCEPT !.step = "deactivate", !.kind = k, !.id = i,
                              !.action = "deactivate"])
    /\ UNCHANGED <<table, actionLog, lost>>

\* An inactive row needs no work.
ReadForDeactivate(c, k, i) ==
    /\ MayBegin(c)
    /\ table[k][i].status = "active"
    /\ Become(c, [Idle EXCEPT !.step = "deactivate", !.kind = k, !.id = i,
                              !.action = "deactivate"])
    /\ UNCHANGED <<table, actionLog, lost>>

DeactivateGroup(c) == \E i \in DOMAIN table["group"] : ReadForDeactivate(c, "group", i)

DeactivateProgram(c) ==
    \E i \in DOMAIN table["program"] : ReadForDeactivate(c, "program", i)

DeactivateEmployer(c) ==
    \E i \in DOMAIN table["employer"] : ReadForDeactivate(c, "employer", i)

DeactivateAssignment(c) ==
    \E i \in DOMAIN table["assignment"] : ReadForDeactivate(c, "assignment", i)

\* Only the statement of employers has "AND status = 'active'".
DeactivateMatches(k, r) == k = "employer" => r.status = "active"

WriteDeactivate(c) ==
    /\ At(c, "deactivate")
    /\ LET k == call[c].kind
           i == call[c].id
           row == [table[k][i] EXCEPT !.status = "inactive"]
       IN  \/ /\ DeactivateMatches(k, table[k][i])
              /\ Store(k, i, row)
              /\ Become(c, Logging(k, i, "deactivate", row))
           \/ /\ ~DeactivateMatches(k, table[k][i])
              /\ Become(c, Idle)
              /\ UNCHANGED table
    /\ UNCHANGED <<actionLog, lost>>

----------------------------------------------------------------------------
EntryOf(r) ==
    [kind |-> r.kind, id |-> r.id, action |-> r.action, form |-> r.form, status |-> r.status]

\* recordAudit: its error is ignored, and the change stays.
RecordAudit(c) ==
    /\ At(c, "log")
    /\ \/ actionLog' = actionLog (+) SetToBag({EntryOf(call[c])}) /\ UNCHANGED lost
       \/ lost' = lost + 1 /\ UNCHANGED actionLog
    /\ Become(c, Idle)
    /\ UNCHANGED table

\* The request is cancelled between two statements.
Cancel(c) ==
    /\ call[c].step \in {"group", "update", "deactivate"}
    /\ Become(c, Idle)
    /\ UNCHANGED <<table, actionLog, lost>>

Next ==
    \E c \in Client :
       \/ CreateGroup(c) \/ CreateProgram(c) \/ CreateEmployer(c)
       \/ CreateWorker(c) \/ AssignEmployer(c)
       \/ UpdateGroup(c) \/ UpdateProgram(c) \/ UpdateEmployer(c)
       \/ UpdateWorker(c) \/ UpdateAssignment(c)
       \/ CheckGroup(c) \/ WriteUpdate(c)
       \/ DeactivateGroup(c) \/ DeactivateProgram(c)
       \/ DeactivateEmployer(c) \/ DeactivateAssignment(c)
       \/ WriteDeactivate(c)
       \/ RecordAudit(c) \/ Cancel(c)

Spec == Init /\ [][Next]_vars

----------------------------------------------------------------------------
(* Properties *)

\* Every variable has the type of the row or Go value it models.
TypeOK ==
    /\ table \in [Kind -> Seq(Row)]
    /\ IsABag(actionLog) /\ BagToSet(actionLog) \subseteq Entry
    /\ lost \in Nat
    /\ call \in [Client -> Call]

\* No request revives a row that was deactivated, an update that read it before
\* included (UpdateGroup, UpdateProgram, Update, UpdateAssignment).
DeactivationIsFinal ==
    [][\A k \in Kind : \A i \in DOMAIN table[k] :
          table[k][i].status = "inactive" => table'[k][i].status = "inactive"]_vars

\* What the action log says, and what requests are about to say.
Said == BagToSet(actionLog) \cup {EntryOf(call[c]) : c \in {d \in Client : At(d, "log")}}

\* The only entry there is for the end of row i of kind k.
EndOf(k, i) ==
    [kind |-> k, id |-> i, action |-> "deactivate", form |-> NoForm, status |-> "inactive"]

\* Unless a row of the log was lost, the log accounts for every row, although its
\* entries may be written in another order than the changes: the row has the form
\* of some creation or update, and it is inactive exactly when a deactivation is
\* there (recordAudit).
LogExplainsRows ==
    lost > 0 \/ \A k \in Kind : \A i \in DOMAIN table[k] :
        /\ \E e \in Said : e.kind = k /\ e.id = i /\ e.form = FormOf(table[k][i])
        /\ table[k][i].status = "inactive" => EndOf(k, i) \in Said

\* No entry says that a row is inactive while it is active, a lost entry or not.
EndsAreTrue ==
    \A e \in Said : e.status = "inactive" =>
        /\ e.id \in DOMAIN table[e.kind]
        /\ table[e.kind][e.id].status = "inactive"

\* "Idempotent: no audit row when nothing changed": the end of an employer is
\* logged at most once.  For the other kinds, whose statement does not look at the
\* status, a second entry takes a request that read the row before its end, so
\* there are never more than one per client (the early returns of DeactivateGroup,
\* DeactivateProgram, Deactivate and DeactivateAssignment).
EndsAreFew ==
    \A e \in BagToSet(actionLog) : e.action = "deactivate" =>
        actionLog[e] <= IF e.kind = "employer" THEN 1 ELSE Cardinality(Client)

\* The rows are well typed and the log accounts for them: every change is there,
\* and an end is true and not repeated without need (recordAudit, the early returns
\* and the WHERE clauses of the deactivations).
LogAccountsForRows == TypeOK /\ LogExplainsRows /\ EndsAreTrue /\ EndsAreFew

============================================================================
