----------------------------- MODULE Documents -----------------------------
(***************************************************************************)
(* Generation and download of the documents of a protocol                  *)
(* (backend/documents), beside the requests that change the protocol and   *)
(* its participants (module Protocols).                                    *)
(*                                                                         *)
(* A generation reads the protocol, its participants and then every        *)
(* participant's rows, each with a statement of its own and in no          *)
(* transaction; it renders the document in memory, inserts a row into      *)
(* generation_runs and writes the action log.  No document is stored.      *)
(***************************************************************************)
EXTENDS Protocols

CONSTANTS
    Generator,   \* concurrent requests for documents
    Code,        \* program codes, as naturals in the order of sort.Strings
    MaxRuns      \* bound: rows of generation_runs

ASSUME DocumentAssumption == Code \subseteq Nat /\ MaxRuns \in Nat

VARIABLES
    runs,        \* table generation_runs; the id of a row is its position
    completed,   \* bag of the run ids in "documents.generate.completed" entries
    job          \* job[g]: the generation that request g is in

docVars == <<runs, completed, job>>

Type == {"xml", "docx"}
Run == [protocol: Nat, type: Type, status: {"success", "failed"}]

\* What RegistryRecord takes from the protocol and from the program's row; the
\* worker and the employer are those of the training record.
RegistryRecord == [record: Record, number: Number \cup {NoNumber}, code: Code]

\* rest: participants listed and not yet loaded; set: the registry set; run: the
\* row inserted.
Job ==
    [step: {"idle", "list", "load", "insert", "log"}, protocol: Nat, type: Type,
     number: Number \cup {NoNumber}, rest: SUBSET Nat, set: Seq(RegistryRecord),
     run: Nat]

NoJob ==
    [step |-> "idle", protocol |-> 0, type |-> "xml", number |-> NoNumber,
     rest |-> {}, set |-> << >>, run |-> 0]

DocumentsInit ==
    /\ Init
    /\ runs = << >>
    /\ completed = EmptyBag
    /\ job = [g \in Generator |-> NoJob]

InStep(g, step) == job[g].step = step
Proceed(g, j) == job' = [job EXCEPT ![g] = j]

----------------------------------------------------------------------------
(* Reading *)

StatusAny(s) == s # "cancelled"  \* mutant: drafts are rendered, too

\* The gate of renderRegistrySet.
MayRender(s) == s \notin {"draft", "cancelled"}

\* recordGenerationRun; its error is logged and swallowed.
RecordRun(p, t, status) ==
    \/ /\ Len(runs) < MaxRuns
       /\ runs' = Append(runs, [protocol |-> p, type |-> t, status |-> status])
    \/ UNCHANGED runs

\* The first read of a generation, GetProtocolByID, and the gate.
Generate(g, p, t) ==
    /\ InStep(g, "idle")
    /\ \/ /\ MayRender(protocols[p].status)
          /\ Proceed(g, [NoJob EXCEPT !.step = "list", !.protocol = p, !.type = t,
                                      !.number = protocols[p].number])
          /\ UNCHANGED runs
       \/ /\ ~MayRender(protocols[p].status)
          /\ RecordRun(p, t, "failed")
          /\ UNCHANGED job
    /\ UNCHANGED <<completed, vars>>

\* Download looks the run up, checks whose it is, and generates again, whatever
\* the run's status.  Rows of generation_runs never change.
Download(g, p, r) ==
    /\ runs[r].protocol = p
    /\ Generate(g, p, runs[r].type)

\* Mutant: removed participants are listed, too.
EveryParticipantOf(p) == {i \in DOMAIN participants : participants[i].protocol = p}

\* ListProtocolParticipants: the active rows of the protocol.
ActiveParticipantsOf(p) ==
    {i \in DOMAIN participants :
        participants[i].protocol = p /\ participants[i].status = "active"}

ListParticipants(g) ==
    /\ InStep(g, "list")
    /\ Proceed(g, [job[g] EXCEPT !.step = "load",
                                 !.rest = ActiveParticipantsOf(job[g].protocol)])
    /\ UNCHANGED <<runs, completed, vars>>

\* One turn of the loop over the participants, by id; the record that a row names
\* never changes.  The program's row is read now, and its code may have been
\* edited since the last turn.
LoadRecord(g) ==
    /\ InStep(g, "load")
    /\ \E i \in job[g].rest, k \in Code :
         /\ \A n \in job[g].rest : i <= n
         /\ Proceed(g, [job[g] EXCEPT !.rest = @ \ {i}, !.set = Append(@,
              [record |-> participants[i].record, number |-> job[g].number, code |-> k])])
    /\ UNCHANGED <<runs, completed, vars>>

----------------------------------------------------------------------------
(* Rendering and recording *)

Empty(set) == set = << >>

\* A registry set with no records makes an XML document but no DOCX archive.
Render(g) ==
    /\ InStep(g, "load")
    /\ job[g].rest = {}
    /\ \/ /\ job[g].type = "docx" /\ Empty(job[g].set)
          /\ RecordRun(job[g].protocol, "docx", "failed")
          /\ Proceed(g, NoJob)
       \/ /\ job[g].type = "docx" => ~Empty(job[g].set)
          /\ Proceed(g, [job[g] EXCEPT !.step = "insert"])
          /\ UNCHANGED runs
    /\ UNCHANGED <<completed, vars>>

\* Mutant: a generation whose row could not be written is logged as completed.
InsertUnchecked(g) ==
    /\ InStep(g, "insert")
    /\ RecordRun(job[g].protocol, job[g].type, "success")
    /\ Proceed(g, [job[g] EXCEPT !.step = "log", !.run = Len(runs')])
    /\ UNCHANGED <<completed, vars>>

\* The row of a success.  Without it the bytes are returned and no run, and the
\* action log is not written.
InsertRun(g) ==
    /\ InStep(g, "insert")
    /\ RecordRun(job[g].protocol, job[g].type, "success")
    /\ \/ /\ runs' # runs
          /\ Proceed(g, [job[g] EXCEPT !.step = "log", !.run = Len(runs')])
       \/ /\ runs' = runs
          /\ Proceed(g, NoJob)
    /\ UNCHANGED <<completed, vars>>

\* recordAudit; its error is ignored.
LogCompleted(g) ==
    /\ InStep(g, "log")
    /\ \/ completed' = completed (+) SetToBag({job[g].run})
       \/ UNCHANGED completed
    /\ Proceed(g, NoJob)
    /\ UNCHANGED <<runs, vars>>

\* A read or the rendering fails, and the failure is recorded; when the request
\* was cancelled it is not.
FailGeneration(g) ==
    /\ job[g].step \in {"list", "load"}
    /\ RecordRun(job[g].protocol, job[g].type, "failed")
    /\ Proceed(g, NoJob)
    /\ UNCHANGED <<completed, vars>>

----------------------------------------------------------------------------
DocumentsNext ==
    \/ Next /\ UNCHANGED docVars
    \/ \E g \in Generator, p \in DOMAIN protocols :
         \/ \E t \in Type : Generate(g, p, t)
         \/ \E r \in DOMAIN runs : Download(g, p, r)
    \/ \E g \in Generator :
         \/ ListParticipants(g)
         \/ LoadRecord(g)
         \/ Render(g)
         \/ InsertRun(g)
         \/ LogCompleted(g)
         \/ FailGeneration(g)

DocumentsSpec == DocumentsInit /\ [][DocumentsNext]_<<docVars, vars>>

----------------------------------------------------------------------------
(* Properties *)

\* Every variable has the type of the row or Go value it models.
DocumentsTypeOK ==
    /\ runs \in Seq(Run)
    /\ IsABag(completed) /\ BagToSet(completed) \subseteq 1 .. Len(runs)
    /\ job \in [Generator -> Job]

\* However a protocol is fixed, moved on or cancelled during a generation, the
\* document carries the number that the protocol has now, and each of its
\* records does (renderRegistrySet, Fix, Transition).
DocumentsCarryTheNumber ==
    \A g \in Generator : ~InStep(g, "idle") =>
        LET number == protocols[job[g].protocol].number IN
        /\ number # NoNumber
        /\ job[g].number = number
        /\ \A i \in DOMAIN job[g].set : job[g].set[i].number = number

\* A recorded document belongs to a protocol that has been issued, also when it
\* was cancelled since (recordGenerationRun, renderRegistrySet).
RecordedMeansIssued ==
    \A r \in DOMAIN runs :
        runs[r].status = "success" => protocols[runs[r].protocol].number # NoNumber

\* A document names nobody twice, although records may leave the protocol and
\* come back while it is made, and only records that are or were in the
\* protocol (ListProtocolParticipants, AddParticipant, RemoveParticipant).  Who is
\* added meanwhile may be missing.
EveryoneListedOnce ==
    \A g \in Generator : InStep(g, "insert") =>
        /\ \A i, j \in DOMAIN job[g].set :
             job[g].set[i].record = job[g].set[j].record => i = j
        /\ \A i \in DOMAIN job[g].set : \E k \in DOMAIN participants :
             /\ participants[k].protocol = job[g].protocol
             /\ participants[k].record = job[g].set[i].record

\* An entry of the action log about a completed generation names the row of a
\* success, and no two entries name one row (recordGenerationRun, recordAudit).
CompletedHasItsRun ==
    \A r \in BagToSet(completed) :
        completed[r] = 1 /\ r \in DOMAIN runs /\ runs[r].status = "success"

\* The rows of generation_runs are well typed, stand for documents of issued
\* protocols, and the log speaks of them (recordGenerationRun, recordAudit).
RunsAreTruthful == DocumentsTypeOK /\ RecordedMeansIssued /\ CompletedHasItsRun

============================================================================
