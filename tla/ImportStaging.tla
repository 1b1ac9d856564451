--------------------------- MODULE ImportStaging ---------------------------
(***************************************************************************)
(* Staging of one queued legacy workbook into import_rows                  *)
(* (backend/imports/stager.go and the lease-scoped queries it runs).       *)
(*                                                                         *)
(* Several workers claim the import, lose their lease, are cancelled or    *)
(* crash and are replaced.  SQLite is opened with one connection, so a     *)
(* transaction, and a statement outside one, is one atomic step; every     *)
(* gap between two of them is an interleaving point.                       *)
(***************************************************************************)
EXTENDS Integers, Sequences

CONSTANTS
    Worker,         \* the values workers use as lease_owner
    NoOwner,        \* lease_owner IS NULL
    SheetCount,     \* sheets of the stored workbook plan
    RowsIn,         \* RowsIn[s]: business rows the parser emits for sheet s
    BatchSize,      \* StagingConfig.BatchSize
    LeaseDuration,  \* StagingConfig.LeaseDuration, in clock ticks
    MaxDelay        \* longest wait for the connection after reading the clock

Sheets == 1 .. SheetCount

ASSUME WorkerAssumption == NoOwner \notin Worker
ASSUME SheetAssumption == SheetCount \in Nat /\ RowsIn \in [Sheets -> Nat]
ASSUME BatchAssumption == BatchSize \in Nat \ {0}
ASSUME LeaseAssumption ==
    LeaseDuration \in Nat /\ MaxDelay \in Nat /\ MaxDelay <= LeaseDuration

VARIABLES
    imp,    \* the row of table imports
    sheet,  \* its rows of table import_sheets, by sheet_order
    rows,   \* rows[s]: ordinals of sheet s present in import_rows
    file,   \* the uploaded workbook exists in the file store
    job     \* job[w]: the Stage call worker w is executing

vars == <<imp, sheet, rows, file, job>>
dbVars == <<imp, sheet, rows>>

(***************************************************************************)
(* imp.lease is lease_expires_at - now: non-negative while the lease is    *)
(* live (the queries compare with >=), and not tracked further down than   *)
(* a delayed statement can tell apart.  imp.sourceExpired says that        *)
(* temp_file_expires_at has passed.                                        *)
(***************************************************************************)
LeaseFloor == -(1 + MaxDelay)

Phases == {"null", "parsing", "staging", "validating"}
Steps == {"idle", "claimed", "verified", "loaded", "open", "parse",
          "sheets", "delete", "clear"}
Outcomes == {"none", "ok", "invalid_input", "source_file_unavailable",
             "staging_checkpoint_corrupt", "lease_lost", "staging_failed",
             "interrupted"}

ImportRow ==
    [status: {"queued", "processing"}, phase: Phases,
     owner: Worker \cup {NoOwner}, lease: LeaseFloor .. LeaseDuration,
     rowsTotal: Nat, stagedAt: BOOLEAN, token: BOOLEAN,
     sourceExpired: BOOLEAN]
SheetRow == [found: Nat, staged: Nat, status: {"pending", "parsing", "staged"}]

(***************************************************************************)
(* A Stage call: the claimed row it was given (phase, snapTotal, stagedAt, *)
(* token), what loadStagingSheets read (base), and the parse loop's        *)
(* variables.  cur is the sheet of the last row, later the sheet being     *)
(* completed; pending holds ordinals of rows of sheet cur.                 *)
(***************************************************************************)
Job ==
    [step: Steps, phase: Phases, snapTotal: Nat, stagedAt: BOOLEAN,
     token: BOOLEAN, base: [Sheets -> Nat], seen: [Sheets -> Nat],
     committed: [Sheets -> Nat], total: Nat, cur: 0 .. (SheetCount + 1),
     pending: Seq(Nat), outcome: Outcomes]

Zeros == [s \in Sheets |-> 0]

IdleJob(outcome) ==
    [step |-> "idle", phase |-> "null", snapTotal |-> 0, stagedAt |-> FALSE,
     token |-> FALSE, base |-> Zeros, seen |-> Zeros, committed |-> Zeros,
     total |-> 0, cur |-> 0, pending |-> << >>, outcome |-> outcome]

\* The state EnqueueLegacy commits: file saved, import queued, sheets pending.
Init ==
    /\ imp = [status |-> "queued", phase |-> "null", owner |-> NoOwner,
              lease |-> LeaseFloor, rowsTotal |-> 0, stagedAt |-> FALSE,
              token |-> TRUE, sourceExpired |-> FALSE]
    /\ sheet = [s \in Sheets |-> [found |-> 0, staged |-> 0, status |-> "pending"]]
    /\ rows = [s \in Sheets |-> {}]
    /\ file = TRUE
    /\ job = [w \in Worker |-> IdleJob("none")]

----------------------------------------------------------------------------
(* Helpers *)

\* rows_total the way loadStagingSheets adds it up, sheet by sheet.
SumTo(f) == LET upTo[n \in 0 .. SheetCount] ==
                    IF n = 0 THEN 0 ELSE upTo[n - 1] + f[n]
            IN  upTo[SheetCount]

StagedCounts == [s \in Sheets |-> sheet[s].staged]

Become(w, j) == job' = [job EXCEPT ![w] = j]

\* Stage returns: the call and its locals are gone, only the outcome is known.
Return(w, outcome) == Become(w, IdleJob(outcome))

At(w, step) == job[w].step = step

Goto(w, step) == Become(w, [job[w] EXCEPT !.step = step])

\* Mutant: any worker may use a live lease.
AnyoneHoldsLease(w, d) == imp.status = "processing" /\ imp.lease + d >= 0

\* The WHERE clause shared by the lease-scoped statements; d is the age of
\* the caller's clock reading when the statement gets the connection.
HoldsLease(w, d) ==
    /\ imp.status = "processing"
    /\ imp.owner = w
    /\ imp.lease + d >= 0

\* The renewed lease is counted from the clock reading, not from commit.
Renewed(d) == LeaseDuration - d

----------------------------------------------------------------------------
(* The worker's caller *)

Snapshot(w, phase) ==
    Become(w, [IdleJob("none") EXCEPT !.step = "claimed", !.phase = phase,
                 !.snapTotal = imp.rowsTotal, !.stagedAt = imp.stagedAt,
                 !.token = imp.token])

\* ClaimNextImport takes a queued import, or one whose lease has run out.
Claimable(d) == imp.status = "queued" \/ imp.lease + d < 0

ClaimNextImport(w) == \E d \in 0 .. MaxDelay :
    /\ At(w, "idle")
    /\ Claimable(d)
    /\ LET phase == IF imp.phase = "null" THEN "parsing" ELSE imp.phase
       IN  /\ imp' = [imp EXCEPT !.status = "processing", !.phase = phase,
                        !.owner = w, !.lease = Renewed(d)]
           /\ Snapshot(w, phase)
    /\ UNCHANGED <<sheet, rows, file>>

\* After a retryable error the owner reads its row again and calls Stage.
RetryStage(w) ==
    /\ At(w, "idle")
    /\ imp.status = "processing"
    /\ imp.owner = w
    /\ Snapshot(w, imp.phase)
    /\ UNCHANGED <<imp, sheet, rows, file>>

----------------------------------------------------------------------------
(* Stage *)

\* Mutant: an import that is staged already is refused.
ValidUnstagedClaim(j) ==
    ~j.stagedAt /\ j.phase \in {"parsing", "staging"} /\ j.token

\* validateStagingImport on the row the caller passed.
ValidClaim(j) ==
    IF j.stagedAt THEN j.phase = "validating"
                  ELSE j.phase \in {"parsing", "staging"} /\ j.token

\* Everything before the first query: input checks, the shortcut for an
\* import that is already staged, source expiry, existence and digest.
VerifySource(w) ==
    /\ At(w, "claimed")
    /\ LET j == job[w] IN
       \/ ~ValidClaim(j) /\ Return(w, "invalid_input")
       \/ ValidClaim(j) /\ j.stagedAt /\ j.token /\ Goto(w, "delete")
       \/ ValidClaim(j) /\ j.stagedAt /\ ~j.token /\ Return(w, "ok")
       \/ /\ ValidClaim(j) /\ ~j.stagedAt
          /\ imp.sourceExpired \/ ~file
          /\ Return(w, "source_file_unavailable")
       \/ /\ ValidClaim(j) /\ ~j.stagedAt /\ ~imp.sourceExpired /\ file
          /\ Goto(w, "verified")
    /\ UNCHANGED <<imp, sheet, rows, file>>

\* The per-sheet and total checks of loadStagingSheets.  The total is compared
\* with the row the caller passed, which may be older than the sheets.
SheetCheckpointOK(r) ==
    /\ r.found >= r.staged
    /\ r.status = "pending" => r.found = 0 /\ r.staged = 0
    /\ r.status = "staged" => r.found = r.staged
CheckpointOK(w) ==
    /\ \A s \in Sheets : SheetCheckpointOK(sheet[s])
    /\ SumTo(StagedCounts) = job[w].snapTotal

LoadStagingSheets(w) ==
    /\ At(w, "verified")
    /\ \/ ~CheckpointOK(w) /\ Return(w, "staging_checkpoint_corrupt")
       \/ /\ CheckpointOK(w)
          /\ Become(w, [job[w] EXCEPT !.step = "loaded",
                          !.base = StagedCounts, !.committed = StagedCounts])
    /\ UNCHANGED <<imp, sheet, rows, file>>

MayStart(w, d) == HoldsLease(w, d) /\ imp.phase \in {"parsing", "staging"}

StartImportStaging(w) == \E d \in 0 .. MaxDelay :
    /\ At(w, "loaded")
    /\ \/ /\ MayStart(w, d)
          /\ imp' = [imp EXCEPT !.phase = "staging", !.lease = Renewed(d)]
          /\ Become(w, [job[w] EXCEPT !.step = "open", !.total = imp.rowsTotal])
       \/ ~MayStart(w, d) /\ Return(w, "lease_lost") /\ UNCHANGED imp
    /\ UNCHANGED <<sheet, rows, file>>

\* legacy.Parse opens the workbook; once open it can be read to the end even
\* if the file is removed.
OpenSource(w) ==
    /\ At(w, "open")
    /\ \/ file /\ Goto(w, "parse")
       \/ ~file /\ Return(w, "staging_failed")
    /\ UNCHANGED <<imp, sheet, rows, file>>

\* The parser emits the rows of sheet 1, then of sheet 2, and so on.
NextRowIn(j, s) ==
    /\ j.seen[s] < RowsIn[s]
    /\ \A r \in 1 .. (s - 1) : j.seen[r] = RowsIn[r]
AtEOF(j) == \A s \in Sheets : j.seen[s] = RowsIn[s]

\* Mutant: a batch may span two sheets.
FlushWhenFull(j) ==
    j.pending # << >> /\ (Len(j.pending) >= BatchSize \/ AtEOF(j))

\* A batch is written when it is full, when the next row is in another sheet,
\* and at the end of the workbook.
FlushDue(j) ==
    /\ j.pending # << >>
    /\ \/ Len(j.pending) >= BatchSize
       \/ \E s \in Sheets : NextRowIn(j, s) /\ s # j.cur
       \/ AtEOF(j)

\* Mutant: the last row of the checkpoint is not skipped.
AfterRowOffByOne(j, s) ==
    LET ordinal == j.seen[s] + 1 IN
    [j EXCEPT !.cur = s,
              !.seen = [j.seen EXCEPT ![s] = ordinal],
              !.pending = IF ordinal < j.base[s] THEN j.pending
                                                 ELSE Append(j.pending, ordinal)]

\* The row callback of Parse: rows below the checkpoint are counted and skipped.
AfterRow(j, s) ==
    LET ordinal == j.seen[s] + 1 IN
    [j EXCEPT !.cur = s,
              !.seen = [j.seen EXCEPT ![s] = ordinal],
              !.pending = IF ordinal <= j.base[s] THEN j.pending
                                                  ELSE Append(j.pending, ordinal)]

ParseRow(w) ==
    /\ At(w, "parse")
    /\ ~FlushDue(job[w])
    /\ \E s \in Sheets :
         /\ NextRowIn(job[w], s)
         /\ Become(w, AfterRow(job[w], s))
    /\ UNCHANGED <<imp, sheet, rows, file>>

\* flushBatch: one transaction, rolled back as a whole by any failure.
MayFlush(w, d) ==
    /\ HoldsLease(w, d)
    /\ imp.phase = "staging"
    /\ imp.rowsTotal <= job[w].total + Len(job[w].pending)

\* Mutant: the last row of a batch is not written.
AllButLastPending(j) == {j.pending[i] : i \in 1 .. (Len(j.pending) - 1)}

PendingRows(j) == {j.pending[i] : i \in 1 .. Len(j.pending)}

MayAdvanceSheet(r, found, staged) ==
    /\ r.found <= found
    /\ r.staged <= staged
    /\ r.status \in {"pending", "parsing"}

\* Mutant: the running total is not advanced.
AfterCommitKeepTotal(j) ==
    [j EXCEPT !.committed = [j.committed EXCEPT ![j.cur] =
                               j.committed[j.cur] + Len(j.pending)],
              !.pending = << >>]

AfterCommit(j) ==
    LET n == Len(j.pending) IN
    [j EXCEPT !.committed = [j.committed EXCEPT ![j.cur] = j.committed[j.cur] + n],
              !.total = j.total + n, !.pending = << >>]

FlushCommit(w, d) ==
    LET j == job[w]
        s == j.cur
        n == Len(j.pending)
    IN  /\ MayFlush(w, d)
        /\ PendingRows(j) \cap rows[s] = {}
        /\ MayAdvanceSheet(sheet[s], j.seen[s], j.committed[s] + n)
        /\ imp' = [imp EXCEPT !.rowsTotal = j.total + n, !.lease = Renewed(d)]
        /\ rows' = [rows EXCEPT ![s] = @ \cup PendingRows(j)]
        /\ sheet' = [sheet EXCEPT ![s] = [found |-> j.seen[s],
                       staged |-> j.committed[s] + n, status |-> "parsing"]]
        /\ Become(w, AfterCommit(j))

FlushRollback(w, d) ==
    LET j == job[w]
        s == j.cur
    IN  /\ \/ ~MayFlush(w, d) /\ Return(w, "lease_lost")
           \/ /\ MayFlush(w, d)
              /\ PendingRows(j) \cap rows[s] # {}
              /\ Return(w, "staging_checkpoint_corrupt")
           \/ /\ MayFlush(w, d)
              /\ PendingRows(j) \cap rows[s] = {}
              /\ ~MayAdvanceSheet(sheet[s], j.seen[s],
                                  j.committed[s] + Len(j.pending))
              /\ Return(w, "lease_lost")
        /\ UNCHANGED dbVars

FlushBatch(w) == \E d \in 0 .. MaxDelay :
    /\ At(w, "parse")
    /\ FlushDue(job[w])
    /\ FlushCommit(w, d) \/ FlushRollback(w, d)
    /\ UNCHANGED file

ParseEOF(w) ==
    /\ At(w, "parse")
    /\ AtEOF(job[w])
    /\ job[w].pending = << >>
    /\ Become(w, [job[w] EXCEPT !.step = "sheets", !.cur = 1])
    /\ UNCHANGED <<imp, sheet, rows, file>>

\* CompleteImportSheetStaging, sheet after sheet, each its own statement.
MayCompleteSheet(w, s, d) ==
    /\ HoldsLease(w, d)
    /\ imp.phase = "staging"
    /\ sheet[s].found <= job[w].seen[s]
    /\ sheet[s].staged <= job[w].committed[s]

SheetMiscounted(j, s) == j.seen[s] < j.base[s] \/ j.committed[s] # j.seen[s]

CompleteSheet(w) == \E d \in 0 .. MaxDelay :
    /\ At(w, "sheets")
    /\ job[w].cur \in Sheets
    /\ LET j == job[w]
           s == j.cur
       IN  \/ /\ SheetMiscounted(j, s)
              /\ Return(w, "staging_checkpoint_corrupt")
              /\ UNCHANGED sheet
           \/ /\ ~SheetMiscounted(j, s)
              /\ ~MayCompleteSheet(w, s, d)
              /\ Return(w, "lease_lost")
              /\ UNCHANGED sheet
           \/ /\ ~SheetMiscounted(j, s)
              /\ MayCompleteSheet(w, s, d)
              /\ sheet' = [sheet EXCEPT ![s] = [found |-> j.seen[s],
                             staged |-> j.committed[s], status |-> "staged"]]
              /\ Become(w, [j EXCEPT !.cur = s + 1])
    /\ UNCHANGED <<imp, rows, file>>

MayFinish(w, d) ==
    /\ HoldsLease(w, d)
    /\ imp.phase = "staging"
    /\ imp.rowsTotal <= job[w].total

CompleteImportStaging(w) == \E d \in 0 .. MaxDelay :
    /\ At(w, "sheets")
    /\ job[w].cur = SheetCount + 1
    /\ \/ /\ MayFinish(w, d)
          /\ imp' = [imp EXCEPT !.phase = "validating", !.stagedAt = TRUE,
                       !.rowsTotal = job[w].total, !.lease = Renewed(d)]
          /\ IF imp.token THEN Goto(w, "delete") ELSE Return(w, "ok")
       \/ ~MayFinish(w, d) /\ Return(w, "lease_lost") /\ UNCHANGED imp
    /\ UNCHANGED <<sheet, rows, file>>

----------------------------------------------------------------------------
(* cleanupStagedSource: the file first, then the token that names it *)

\* Mutant: an error of Delete is ignored.
DeleteSourceIgnored(w) ==
    At(w, "delete") /\ Goto(w, "clear") /\ UNCHANGED <<imp, sheet, rows, file>>

DeleteSource(w) ==
    /\ At(w, "delete")
    /\ file' = FALSE
    /\ Goto(w, "clear")
    /\ UNCHANGED dbVars

MayClear(w, d) ==
    HoldsLease(w, d) /\ imp.phase = "validating" /\ imp.stagedAt

ClearImportTempFile(w) == \E d \in 0 .. MaxDelay :
    /\ At(w, "clear")
    /\ \/ /\ MayClear(w, d)
          /\ imp' = [imp EXCEPT !.token = FALSE]
          /\ Return(w, "ok")
       \/ ~MayClear(w, d) /\ Return(w, "lease_lost") /\ UNCHANGED imp
    /\ UNCHANGED <<sheet, rows, file>>

----------------------------------------------------------------------------
(* The environment *)

\* Cancellation, a crash of the worker, or a retryable storage or file error
\* at any point: the open transaction is rolled back and the call ends.
Interrupt(w) ==
    /\ ~At(w, "idle")
    /\ Return(w, "interrupted")
    /\ UNCHANGED <<imp, sheet, rows, file>>

Tick ==
    /\ imp.lease > LeaseFloor
    /\ imp' = [imp EXCEPT !.lease = @ - 1]
    /\ UNCHANGED <<sheet, rows, file, job>>

\* temp_file_expires_at (24 hours after the upload, hundreds of leases) passes.
SourceExpires ==
    /\ ~imp.sourceExpired
    /\ imp' = [imp EXCEPT !.sourceExpired = TRUE]
    /\ UNCHANGED <<sheet, rows, file, job>>

WorkerStep(w) ==
    \/ ClaimNextImport(w)
    \/ VerifySource(w)
    \/ LoadStagingSheets(w)
    \/ StartImportStaging(w)
    \/ OpenSource(w)
    \/ ParseRow(w)
    \/ FlushBatch(w)
    \/ ParseEOF(w)
    \/ CompleteSheet(w)
    \/ CompleteImportStaging(w)
    \/ DeleteSource(w)
    \/ ClearImportTempFile(w)

Next ==
    \/ \E w \in Worker : WorkerStep(w) \/ RetryStage(w) \/ Interrupt(w)
    \/ Tick
    \/ SourceExpires

\* Workers keep polling and running, and time passes.
Fairness == WF_vars(Tick) /\ \A w \in Worker : WF_vars(WorkerStep(w))

Spec == Init /\ [][Next]_vars
FairSpec == Spec /\ Fairness

----------------------------------------------------------------------------
(* Properties *)

\* Every variable has the type of the row or Go value it models.
TypeOK ==
    /\ imp \in ImportRow
    /\ sheet \in [Sheets -> SheetRow]
    /\ rows \in [Sheets -> SUBSET Nat]
    /\ file \in BOOLEAN
    /\ job \in [Worker -> Job]

\* The checkpoint never lies: the rows of a sheet in import_rows are exactly
\* the first rows_staged rows of that sheet, whatever mixture of workers,
\* lapsed leases and interrupted transactions put them there (flushBatch).
CheckpointIsExact == \A s \in Sheets : rows[s] = 1 .. sheet[s].staged

\* staged_at means that every row of the workbook is in import_rows, and that
\* every sheet says so (CompleteImportSheetStaging, CompleteImportStaging).
StagedIsComplete ==
    imp.stagedAt => \A s \in Sheets :
        /\ rows[s] = 1 .. RowsIn[s]
        /\ sheet[s] = [found |-> RowsIn[s], staged |-> RowsIn[s],
                       status |-> "staged"]

\* The workbook outlives every worker that may still need to read it, and a
\* file in the store is always named by its import: cleanupStagedSource runs
\* after staged_at and clears the token after it deleted the file.
SourceLifetime ==
    /\ ~imp.stagedAt => file /\ imp.token
    /\ file => imp.token

\* imports.rows_total is the sum of the sheets' checkpoints, although the two
\* tables are updated by different statements (flushBatch).
CountersAgree == imp.rowsTotal = SumTo(StagedCounts)

\* What the lease holder remembers about the database while it parses is what
\* the database says: the counters it will write are not stale (Stage keeps
\* total and committed in memory across batches).
HolderIsCurrent ==
    \A w \in Worker :
        imp.owner = w /\ job[w].step \in {"loaded", "open", "parse", "sheets"} =>
            /\ job[w].committed = StagedCounts
            /\ job[w].step \in {"parse", "sheets"} => job[w].total = imp.rowsTotal

\* The counters in the two tables agree with each other and with what the lease
\* holder will write back over them (flushBatch, Stage).
CountersAreCurrent == CountersAgree /\ HolderIsCurrent

\* A worker that another one replaced changes nothing in the database from
\* then on: every statement of Stage is scoped to lease_owner.
ReplacedWorkerIsInert ==
    [][\A w \in Worker :
          job'[w] # job[w] /\ imp.owner # w /\ imp'.owner # w
            => UNCHANGED dbVars]_vars

\* A sheet that reached status 'staged' keeps its checkpoint and its status
\* through every later attempt (UpdateImportSheetStagingProgress).
StagedSheetIsFinal ==
    [][\A s \in Sheets : sheet[s].status = "staged" => sheet'[s] = sheet[s]]_vars

\* A live lease is never taken over: lease_owner changes only when the lease
\* was free or had run out (ClaimNextImport).
LiveLeaseIsNotStolen ==
    [][imp'.owner # imp.owner => imp.status = "queued" \/ imp.lease < 0]_vars

\* At any time one worker writes: a live lease is not taken over, and who lost
\* it changes nothing more (ClaimNextImport, the lease_owner of every statement).
LeaseIsExclusive == LiveLeaseIsNotStolen /\ ReplacedWorkerIsInert

\* The worker that owns the import is never told that its work is defective:
\* invalid_input, staging_checkpoint_corrupt and staging_failed reach only workers
\* that were replaced (the checks of validateStagingImport, loadStagingSheets,
\* flushBatch and Stage).  The other permanent code, source_file_unavailable, does
\* reach the owner, of an upload that expired.
HolderIsNotRejected ==
    [][\A w \in Worker :
          /\ job'[w].outcome # job[w].outcome
          /\ job'[w].outcome \in {"invalid_input", "staging_checkpoint_corrupt",
                                  "staging_failed"}
          => imp.owner # w]_vars

\* The staging component implements its abstract specification.
Copy == INSTANCE StagedCopy WITH copied <- rows, done <- imp.stagedAt,
                                 source <- file, named <- imp.token
ImplementsStagedCopy == Copy!Spec

\* Steps that keep a worker from finishing within its lease.
LeaseLapses ==
    \E w \in Worker : /\ imp.owner = w /\ ~At(w, "idle")
                      /\ imp.lease >= 0 /\ imp'.lease < 0
Disruption == LeaseLapses \/ \E w \in Worker : Interrupt(w)

\* If the upload does not expire and disruptions stop at some point, the import
\* is staged completely and its source file removed, wherever earlier workers
\* stopped (the retry contract of Stage).
StagingCompletes ==
    ([]~imp.sourceExpired /\ <>[][~Disruption]_vars)
        => <>(imp.stagedAt /\ ~file /\ ~imp.token)

============================================================================
