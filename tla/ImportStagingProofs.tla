------------------------ MODULE ImportStagingProofs ------------------------
(***************************************************************************)
(* Proofs about ImportStaging, for any number of workers, sheets and rows  *)
(* and any batch size and lease duration.                                  *)
(***************************************************************************)
EXTENDS ImportStaging, WellFoundedInduction, TLAPS

Running == {"loaded", "open", "parse", "sheets"}

\* The parse loop of one Stage call: what is counted, skipped, pending and
\* committed adds up, sheet by sheet.
NotStarted(j) ==
    j.seen = Zeros /\ j.pending = << >> /\ j.cur = 0

\* Rows of sheet s that wait in the batch.
Waiting(j, s) == IF s = j.cur THEN Len(j.pending) ELSE 0

SheetCounted(j, s) ==
    /\ j.base[s] <= RowsIn[s]
    /\ j.seen[s] <= RowsIn[s]
    /\ j.seen[s] <= j.base[s] => j.committed[s] = j.base[s] /\ Waiting(j, s) = 0
    /\ j.seen[s] > j.base[s] => j.committed[s] + Waiting(j, s) = j.seen[s]

LoopInv(j) ==
    /\ j.step \in {"claimed", "verified"} => NotStarted(j)
    /\ j.step \in {"loaded", "open"} =>
         /\ NotStarted(j)
         /\ j.committed = j.base
         /\ \A s \in Sheets : j.base[s] <= RowsIn[s]
    /\ j.step = "parse" =>
         /\ \A s \in Sheets : SheetCounted(j, s)
         /\ j.cur \in 0 .. SheetCount
         /\ j.cur = 0 => j.pending = << >>
         /\ Len(j.pending) <= BatchSize
         /\ j.cur \in Sheets => \A r \in 1 .. (j.cur - 1) : j.seen[r] = RowsIn[r]
         /\ \A i \in 1 .. Len(j.pending) : j.pending[i] = j.committed[j.cur] + i
    /\ j.step = "sheets" =>
         \A s \in Sheets : j.seen[s] = RowsIn[s] /\ j.committed[s] = RowsIn[s]

\* The database rows.
StagedSheet(s) ==
    sheet[s] = [found |-> RowsIn[s], staged |-> RowsIn[s], status |-> "staged"]

DatabaseInv ==
    /\ CheckpointIsExact
    /\ \A s \in Sheets : sheet[s].staged <= RowsIn[s]
    /\ \A s \in Sheets : sheet[s].status = "staged" => StagedSheet(s)
    /\ imp.phase = "validating" <=> imp.stagedAt
    /\ imp.stagedAt => \A s \in Sheets : sheet[s].status = "staged"

\* What worker w remembers, if it is the lease holder.
Holds(w, j) ==
    imp.owner = w =>
        /\ j.step \in Running => j.committed = StagedCounts
        /\ j.step = "sheets" =>
             \A s \in Sheets : s < j.cur => sheet[s].status = "staged"

HolderInv == \A w \in Worker : Holds(w, job[w])

\* The source file and the token that names it.
SourceOf(j) ==
    /\ j.stagedAt => imp.stagedAt
    /\ j.step \in {"delete", "clear"} => imp.stagedAt
    /\ j.step = "clear" => ~file

SourceInv == SourceLifetime /\ \A w \in Worker : SourceOf(job[w])

IInv ==
    /\ TypeOK
    /\ \A w \in Worker : LoopInv(job[w])
    /\ DatabaseInv
    /\ HolderInv
    /\ SourceInv

----------------------------------------------------------------------------
(* Type correctness *)

\* A worker between two calls of Stage has a well-typed job.
LEMMA IdleJobType ==
    ASSUME NEW o \in Outcomes
    PROVE  IdleJob(o) \in Job
<1>1. Zeros \in [Sheets -> Nat]
  BY DEF Zeros
<1>2. << >> \in Seq(Nat)
  OBVIOUS
<1>3. 0 \in 0 .. (SheetCount + 1)
  BY SheetAssumption
<1> QED
  BY <1>1, <1>2, <1>3 DEF IdleJob, Job, Steps, Phases

\* The staged counts that loadStagingSheets reads are natural numbers.
LEMMA StagedCountsType ==
    ASSUME sheet \in [Sheets -> SheetRow]
    PROVE  StagedCounts \in [Sheets -> Nat]
BY DEF StagedCounts, SheetRow

\* Setting the locals of one call of Stage keeps the jobs well-typed.
LEMMA BecomeType ==
    ASSUME job \in [Worker -> Job], NEW w \in Worker, NEW j \in Job, Become(w, j)
    PROVE  job' \in [Worker -> Job]
BY DEF Become

\* An error return of Stage keeps every type.
LEMMA ReturnType ==
    ASSUME job \in [Worker -> Job], NEW w \in Worker, NEW o \in Outcomes,
           Return(w, o)
    PROVE  job' \in [Worker -> Job]
BY IdleJobType, BecomeType DEF Return

\* Moving a call of Stage to its next statement keeps every type.
LEMMA GotoType ==
    ASSUME job \in [Worker -> Job], NEW w \in Worker, NEW st \in Steps,
           Goto(w, st)
    PROVE  job' \in [Worker -> Job]
<1>1. [job[w] EXCEPT !.step = st] \in Job
  BY DEF Job
<1> QED
  BY <1>1, BecomeType DEF Goto

\* StartImportStaging leaves a well-typed call: step and total change.
LEMMA OpenedType ==
    ASSUME NEW j \in Job, NEW n \in Nat
    PROVE  [j EXCEPT !.step = "open", !.total = n] \in Job
BY DEF Job, Steps

\* The row callback leaves a well-typed call: cur, seen and pending change.
LEMMA ParsedType ==
    ASSUME NEW j \in Job, NEW s \in 0 .. (SheetCount + 1),
           NEW f \in [Sheets -> Nat], NEW q \in Seq(Nat)
    PROVE  [j EXCEPT !.cur = s, !.seen = f, !.pending = q] \in Job
BY DEF Job

\* A commit leaves a well-typed call: committed, total and pending change.
LEMMA CommittedType ==
    ASSUME NEW j \in Job, NEW c \in [Sheets -> Nat], NEW t \in Nat
    PROVE  [j EXCEPT !.committed = c, !.total = t, !.pending = << >>] \in Job
<1>1. << >> \in Seq(Nat)
  OBVIOUS
<1> QED
  BY <1>1 DEF Job

\* The lease a statement writes is in range however long it waited.
LEMMA RenewedType ==
    ASSUME NEW d \in 0 .. MaxDelay
    PROVE  Renewed(d) \in LeaseFloor .. LeaseDuration
BY LeaseAssumption DEF Renewed, LeaseFloor

\* The claim that ClaimNextImport returns is well-typed.
LEMMA SnapshotType ==
    ASSUME TypeOK, NEW w \in Worker, NEW ph \in Phases, Snapshot(w, ph)
    PROVE  job' \in [Worker -> Job]
<1>1. IdleJob("none") \in Job
  BY IdleJobType DEF Outcomes
<1>2. imp.rowsTotal \in Nat /\ imp.stagedAt \in BOOLEAN /\ imp.token \in BOOLEAN
  BY DEF TypeOK, ImportRow
<1>3. [IdleJob("none") EXCEPT !.step = "claimed", !.phase = ph,
         !.snapTotal = imp.rowsTotal, !.stagedAt = imp.stagedAt,
         !.token = imp.token] \in Job
  BY <1>1, <1>2 DEF Job, Steps
<1> QED
  BY <1>3, BecomeType DEF Snapshot, TypeOK

\* The freshly queued import has the right types.
LEMMA InitType == Init => TypeOK
<1> SUFFICES ASSUME Init PROVE TypeOK
  OBVIOUS
<1>1. LeaseFloor \in LeaseFloor .. LeaseDuration
  BY LeaseAssumption DEF LeaseFloor
<1>2. IdleJob("none") \in Job
  BY IdleJobType DEF Outcomes
<1> QED
  BY <1>1, <1>2 DEF Init, TypeOK, ImportRow, SheetRow, Phases

\* Every statement of every worker keeps the types.
LEMMA NextType == TypeOK /\ [Next]_vars => TypeOK'
<1> SUFFICES ASSUME TypeOK, [Next]_vars PROVE TypeOK'
  OBVIOUS
<1> USE DEF TypeOK
<1>1. ASSUME NEW w \in Worker, ClaimNextImport(w) PROVE TypeOK'
  <2>1. PICK d \in 0 .. MaxDelay :
          LET phase == IF imp.phase = "null" THEN "parsing" ELSE imp.phase
          IN  /\ imp' = [imp EXCEPT !.status = "processing", !.phase = phase,
                           !.owner = w, !.lease = Renewed(d)]
              /\ Snapshot(w, phase)
    BY <1>1 DEF ClaimNextImport
  <2> DEFINE phase == IF imp.phase = "null" THEN "parsing" ELSE imp.phase
  <2>2. phase \in Phases
    BY DEF ImportRow, Phases
  <2>3. imp' \in ImportRow
    BY <2>1, <2>2, RenewedType DEF ImportRow
  <2>4. job' \in [Worker -> Job]
    BY <2>1, <2>2, SnapshotType
  <2> QED
    BY <1>1, <2>3, <2>4 DEF ClaimNextImport
<1>2. ASSUME NEW w \in Worker, RetryStage(w) PROVE TypeOK'
  <2>1. imp.phase \in Phases
    BY DEF ImportRow
  <2> QED
    BY <1>2, <2>1, SnapshotType DEF RetryStage
<1>3. ASSUME NEW w \in Worker, VerifySource(w) PROVE TypeOK'
  BY <1>3, ReturnType, GotoType DEF VerifySource, Outcomes, Steps
<1>4. ASSUME NEW w \in Worker, LoadStagingSheets(w) PROVE TypeOK'
  <2>1. CASE Return(w, "staging_checkpoint_corrupt")
    BY <1>4, <2>1, ReturnType DEF LoadStagingSheets, Outcomes
  <2> DEFINE j == [job[w] EXCEPT !.step = "loaded", !.base = StagedCounts,
                                 !.committed = StagedCounts]
  <2>2. CASE Become(w, j)
    <3>1. j \in Job
      BY StagedCountsType DEF Job, Steps
    <3>2. job' \in [Worker -> Job]
      BY <2>2, <3>1, BecomeType
    <3> QED
      BY <1>4, <3>2 DEF LoadStagingSheets
  <2> QED
    BY <1>4, <2>1, <2>2 DEF LoadStagingSheets
<1>5. ASSUME NEW w \in Worker, StartImportStaging(w) PROVE TypeOK'
  <2>1. PICK d \in 0 .. MaxDelay :
          \/ /\ imp' = [imp EXCEPT !.phase = "staging", !.lease = Renewed(d)]
             /\ Become(w, [job[w] EXCEPT !.step = "open", !.total = imp.rowsTotal])
          \/ Return(w, "lease_lost") /\ UNCHANGED imp
    BY <1>5 DEF StartImportStaging
  <2>2. imp' \in ImportRow
    BY <2>1, RenewedType DEF ImportRow, Phases
  <2>3. [job[w] EXCEPT !.step = "open", !.total = imp.rowsTotal] \in Job
    <3>1. imp.rowsTotal \in Nat
      BY DEF ImportRow
    <3> QED
      BY <3>1, OpenedType
  <2>4. job' \in [Worker -> Job]
    BY <2>1, <2>3, ReturnType, BecomeType DEF Outcomes
  <2> QED
    BY <1>5, <2>2, <2>4 DEF StartImportStaging
<1>6. ASSUME NEW w \in Worker, OpenSource(w) PROVE TypeOK'
  BY <1>6, ReturnType, GotoType DEF OpenSource, Outcomes, Steps
<1>7. ASSUME NEW w \in Worker, ParseRow(w) PROVE TypeOK'
  <2>1. PICK s \in Sheets : Become(w, AfterRow(job[w], s))
    BY <1>7 DEF ParseRow
  <2>2. s \in 0 .. (SheetCount + 1)
    BY SheetAssumption DEF Sheets
  <2>3. /\ job[w].seen[s] + 1 \in Nat
        /\ job[w].pending \in Seq(Nat)
        /\ job[w].seen \in [Sheets -> Nat]
    BY DEF Job
  <2>4. Append(job[w].pending, job[w].seen[s] + 1) \in Seq(Nat)
    BY <2>3
  <2>5. [job[w].seen EXCEPT ![s] = job[w].seen[s] + 1] \in [Sheets -> Nat]
    BY <2>3
  <2>6. AfterRow(job[w], s) \in Job
    <3>1. PICK f : f = [job[w].seen EXCEPT ![s] = job[w].seen[s] + 1]
      OBVIOUS
    <3>2. PICK q \in Seq(Nat) :
            AfterRow(job[w], s)
              = [job[w] EXCEPT !.cur = s, !.seen = f, !.pending = q]
      <4>1. CASE job[w].seen[s] + 1 <= job[w].base[s]
        BY <2>3, <3>1, <4>1 DEF AfterRow
      <4>2. CASE ~(job[w].seen[s] + 1 <= job[w].base[s])
        BY <2>4, <3>1, <4>2 DEF AfterRow
      <4> QED
        BY <4>1, <4>2
    <3>3. job[w] \in Job /\ f \in [Sheets -> Nat]
      BY <2>5, <3>1
    <3>4. [job[w] EXCEPT !.cur = s, !.seen = f, !.pending = q] \in Job
      BY <2>2, <3>3, ParsedType
    <3> QED
      BY <3>2, <3>4
  <2> QED
    BY <1>7, <2>1, <2>6, BecomeType DEF ParseRow
<1>8. ASSUME NEW w \in Worker, FlushBatch(w) PROVE TypeOK'
  <2>1. PICK d \in 0 .. MaxDelay : FlushCommit(w, d) \/ FlushRollback(w, d)
    BY <1>8 DEF FlushBatch
  <2>2. UNCHANGED file
    BY <1>8 DEF FlushBatch
  <2>3. CASE FlushCommit(w, d)
    <3> DEFINE s == job[w].cur
               n == Len(job[w].pending)
    <3>1. n \in Nat /\ job[w].total + n \in Nat
      BY DEF Job
    <3>2. imp' \in ImportRow
      BY <2>3, <3>1, RenewedType DEF FlushCommit, ImportRow
    <3>3. PendingRows(job[w]) \subseteq Nat
      BY DEF PendingRows, Job
    <3>4. rows' \in [Sheets -> SUBSET Nat]
      BY <2>3, <3>3 DEF FlushCommit
    <3>5. s \in Sheets => job[w].committed[s] + n \in Nat /\ job[w].seen[s] \in Nat
      BY <3>1 DEF Job
    <3>6. sheet' \in [Sheets -> SheetRow]
      BY <2>3, <3>5 DEF FlushCommit, SheetRow
    <3>7. AfterCommit(job[w]) \in Job
      <4> DEFINE c == [job[w].committed EXCEPT ![s] = job[w].committed[s] + n]
                 t == job[w].total + n
      <4>1. job[w].committed \in [Sheets -> Nat]
        BY DEF Job
      <4>2. c \in [Sheets -> Nat]
        BY <3>5, <4>1
      <4>4. AfterCommit(job[w])
              = [job[w] EXCEPT !.committed = c, !.total = t, !.pending = << >>]
        BY DEF AfterCommit
      <4>5. t \in Nat
        BY <3>1
      <4> HIDE DEF c, t
      <4>6. [job[w] EXCEPT !.committed = c, !.total = t, !.pending = << >>] \in Job
        BY <4>2, <4>5, CommittedType
      <4> QED
        BY <4>4, <4>6
    <3>8. job' \in [Worker -> Job]
      BY <2>3, <3>7, BecomeType DEF FlushCommit
    <3> QED
      BY <2>2, <3>2, <3>4, <3>6, <3>8
  <2>4. CASE FlushRollback(w, d)
    <3>1. job' \in [Worker -> Job]
      BY <2>4, ReturnType DEF FlushRollback, Outcomes
    <3> QED
      BY <2>2, <2>4, <3>1 DEF FlushRollback, dbVars
  <2> QED
    BY <2>1, <2>3, <2>4
<1>9. ASSUME NEW w \in Worker, ParseEOF(w) PROVE TypeOK'
  <2>1. [job[w] EXCEPT !.step = "sheets", !.cur = 1] \in Job
    <3>1. 1 \in 0 .. (SheetCount + 1)
      BY SheetAssumption
    <3> QED
      BY <3>1 DEF Job, Steps
  <2> QED
    BY <1>9, <2>1, BecomeType DEF ParseEOF
<1>10. ASSUME NEW w \in Worker, CompleteSheet(w) PROVE TypeOK'
  <2> DEFINE s == job[w].cur
  <2>1. s \in Sheets /\ job[w].seen[s] \in Nat /\ job[w].committed[s] \in Nat
    BY <1>10 DEF CompleteSheet, Job
  <2>2. s + 1 \in 0 .. (SheetCount + 1)
    BY <2>1, SheetAssumption DEF Sheets
  <2>3. sheet' \in [Sheets -> SheetRow]
    BY <1>10, <2>1 DEF CompleteSheet, SheetRow
  <2>4. job' \in [Worker -> Job]
    <3>1. \/ Return(w, "staging_checkpoint_corrupt")
          \/ Return(w, "lease_lost")
          \/ Become(w, [job[w] EXCEPT !.cur = s + 1])
      BY <1>10 DEF CompleteSheet
    <3>2. [job[w] EXCEPT !.cur = s + 1] \in Job
      BY <2>2 DEF Job
    <3> QED
      BY <3>1, <3>2, ReturnType, BecomeType DEF Outcomes
  <2> QED
    BY <1>10, <2>3, <2>4 DEF CompleteSheet
<1>11. ASSUME NEW w \in Worker, CompleteImportStaging(w) PROVE TypeOK'
  <2>1. PICK d \in 0 .. MaxDelay :
          \/ /\ imp' = [imp EXCEPT !.phase = "validating", !.stagedAt = TRUE,
                           !.rowsTotal = job[w].total, !.lease = Renewed(d)]
             /\ Goto(w, "delete") \/ Return(w, "ok")
          \/ Return(w, "lease_lost") /\ UNCHANGED imp
    BY <1>11 DEF CompleteImportStaging
  <2>2. imp' \in ImportRow
    BY <2>1, RenewedType DEF ImportRow, Phases, Job
  <2>3. job' \in [Worker -> Job]
    BY <2>1, ReturnType, GotoType DEF Outcomes, Steps
  <2> QED
    BY <1>11, <2>2, <2>3 DEF CompleteImportStaging
<1>12. ASSUME NEW w \in Worker, DeleteSource(w) PROVE TypeOK'
  BY <1>12, GotoType DEF DeleteSource, Steps, dbVars
<1>13. ASSUME NEW w \in Worker, ClearImportTempFile(w) PROVE TypeOK'
  <2>1. imp' \in ImportRow
    BY <1>13 DEF ClearImportTempFile, ImportRow
  <2>2. job' \in [Worker -> Job]
    BY <1>13, ReturnType DEF ClearImportTempFile, Outcomes
  <2> QED
    BY <1>13, <2>1, <2>2 DEF ClearImportTempFile
<1>14. ASSUME NEW w \in Worker, Interrupt(w) PROVE TypeOK'
  BY <1>14, ReturnType DEF Interrupt, Outcomes
<1>15. ASSUME Tick PROVE TypeOK'
  <2>1. imp.lease - 1 \in LeaseFloor .. LeaseDuration
    BY <1>15, LeaseAssumption DEF Tick, ImportRow, LeaseFloor
  <2> QED
    BY <1>15, <2>1 DEF Tick, ImportRow
<1>16. ASSUME SourceExpires PROVE TypeOK'
  BY <1>16 DEF SourceExpires, ImportRow
<1>17. ASSUME UNCHANGED vars PROVE TypeOK'
  BY <1>17 DEF vars
<1> QED
  BY <1>1, <1>2, <1>3, <1>4, <1>5, <1>6, <1>7, <1>8, <1>9, <1>10, <1>11,
     <1>12, <1>13, <1>14, <1>15, <1>16, <1>17 DEF Next, WorkerStep

\* The row, the sheets, the staged rows and every worker's locals keep their
\* types in every reachable state.
THEOREM TypeCorrect == Spec => []TypeOK
<1>1. Init => TypeOK
  BY InitType
<1>2. TypeOK /\ [Next]_vars => TypeOK'
  BY NextType
<1> QED
  BY <1>1, <1>2, PTL DEF Spec

----------------------------------------------------------------------------
(* The inductive invariant *)

\* Only the locals of the stepping worker change.
LEMMA BecomeValue ==
    ASSUME TypeOK, NEW w \in Worker, NEW j, Become(w, j)
    PROVE  job'[w] = j /\ \A v \in Worker \ {w} : job'[v] = job[v]
BY DEF Become, TypeOK

\* A step that changes only the locals of one call.
LEMMA LocalStep ==
    ASSUME IInv, TypeOK', NEW w \in Worker, NEW j, Become(w, j),
           UNCHANGED <<imp, sheet, rows, file>>,
           LoopInv(j), Holds(w, j), SourceOf(j)
    PROVE  IInv'
<1>1. \A v \in Worker : job'[v] = IF v = w THEN j ELSE job[v]
  BY BecomeValue DEF IInv
<1>2. \A v \in Worker : LoopInv(job'[v])
  BY <1>1 DEF IInv
<1>3. DatabaseInv'
  BY DEF IInv, DatabaseInv, CheckpointIsExact, StagedSheet
<1>4. HolderInv'
  BY <1>1 DEF IInv, HolderInv, Holds, StagedCounts
<1>5. SourceInv'
  BY <1>1 DEF IInv, SourceInv, SourceOf, SourceLifetime
<1> QED
  BY <1>2, <1>3, <1>4, <1>5 DEF IInv

\* A database step of worker w, which owns the import afterwards.
LEMMA OwnerStep ==
    ASSUME IInv, TypeOK', NEW w \in Worker, NEW j, Become(w, j),
           imp'.owner = w, imp.stagedAt => imp'.stagedAt, UNCHANGED file,
           LoopInv(j), DatabaseInv', Holds(w, j)', SourceLifetime', SourceOf(j)'
    PROVE  IInv'
<1>1. \A v \in Worker : job'[v] = IF v = w THEN j ELSE job[v]
  BY BecomeValue DEF IInv
<1>2. \A v \in Worker : LoopInv(job'[v])
  BY <1>1 DEF IInv
<1>3. HolderInv'
  BY <1>1 DEF HolderInv, Holds
<1>4. SourceInv'
  BY <1>1 DEF IInv, SourceInv, SourceOf
<1> QED
  BY <1>2, <1>3, <1>4 DEF IInv

\* Every error return leaves the invariant alone.
LEMMA ReturnStep ==
    ASSUME IInv, TypeOK', NEW w \in Worker, NEW o, Return(w, o),
           UNCHANGED <<imp, sheet, rows, file>>
    PROVE  IInv'
<1>1. IdleJob(o).step = "idle" /\ IdleJob(o).stagedAt = FALSE
  BY DEF IdleJob
<1>2. LoopInv(IdleJob(o)) /\ Holds(w, IdleJob(o)) /\ SourceOf(IdleJob(o))
  BY <1>1 DEF LoopInv, Holds, SourceOf, Running
<1> QED
  BY <1>2, LocalStep DEF Return

\* A statement that only moves phase, lease or owner keeps the sheets' story.
LEMMA SameSheets ==
    ASSUME DatabaseInv, UNCHANGED <<sheet, rows>>,
           imp'.stagedAt = imp.stagedAt,
           imp'.phase = "validating" <=> imp.phase = "validating"
    PROVE  DatabaseInv'
BY DEF DatabaseInv, CheckpointIsExact, StagedSheet

\* The freshly queued import satisfies the inductive invariant.
LEMMA InitInv == Init => IInv
<1> SUFFICES ASSUME Init PROVE IInv
  OBVIOUS
<1>1. TypeOK
  BY InitType
<1>2. \A w \in Worker : job[w].step = "idle" /\ job[w].stagedAt = FALSE
  BY DEF Init, IdleJob
<1>3. \A w \in Worker : LoopInv(job[w])
  BY <1>2 DEF LoopInv
<1>4. DatabaseInv
  BY SheetAssumption DEF Init, DatabaseInv, CheckpointIsExact
<1>5. HolderInv
  BY <1>2 DEF HolderInv, Holds, Running
<1>6. SourceInv
  BY <1>2 DEF Init, SourceInv, SourceOf, SourceLifetime
<1> QED
  BY <1>1, <1>3, <1>4, <1>5, <1>6 DEF IInv

\* The row numbers of a batch are the next ones after the checkpoint.
LEMMA IntervalShift ==
    ASSUME NEW c \in Nat, NEW n \in Nat
    PROVE  {c + i : i \in 1 .. n} = (c + 1) .. (c + n)
<1>1. \A x \in (c + 1) .. (c + n) : x - c \in 1 .. n /\ c + (x - c) = x
  OBVIOUS
<1> QED
  BY <1>1

\* A prefix of the rows extended by a batch is a prefix again.
LEMMA IntervalJoin ==
    ASSUME NEW c \in Nat, NEW n \in Nat
    PROVE  (1 .. c) \cup ((c + 1) .. (c + n)) = 1 .. (c + n)
OBVIOUS

\* What is known about a batch when its transaction commits.
LEMMA FlushFacts ==
    ASSUME IInv, NEW w \in Worker, NEW d \in 0 .. MaxDelay,
           NEW j, j = job[w], NEW s, s = j.cur, NEW n, n = Len(j.pending),
           NEW c, c = j.committed[s],
           j.step = "parse", FlushDue(j), FlushCommit(w, d)
    PROVE  /\ s \in Sheets /\ n \in Nat /\ n > 0 /\ c \in Nat
           /\ imp.owner = w /\ imp.phase = "staging" /\ ~imp.stagedAt
           /\ j.committed = StagedCounts
           /\ c + n = j.seen[s] /\ c + n <= RowsIn[s] /\ c = sheet[s].staged
           /\ PendingRows(j) = (c + 1) .. (c + n)
           /\ rows[s] = 1 .. c
           /\ rows' = [rows EXCEPT ![s] = 1 .. (c + n)]
<1>1. j \in Job /\ LoopInv(j) /\ Holds(w, j) /\ SourceOf(j)
  BY DEF IInv, HolderInv, SourceInv, TypeOK
<1>2. j.step = "parse" /\ j.pending # << >> /\ j.pending \in Seq(Nat)
  BY <1>1 DEF FlushDue, Job
<1>3. n \in Nat /\ n > 0
  BY <1>2
<1>4. s \in Sheets
  BY <1>1, <1>2 DEF LoopInv, Sheets
<1>5. /\ j.committed \in [Sheets -> Nat]
      /\ j.seen \in [Sheets -> Nat]
      /\ j.base \in [Sheets -> Nat]
      /\ sheet \in [Sheets -> SheetRow]
      /\ rows \in [Sheets -> SUBSET Nat]
  BY <1>1 DEF Job, IInv, TypeOK
<1>6. imp.owner = w /\ imp.phase = "staging" /\ ~imp.stagedAt
  BY DEF FlushCommit, MayFlush, HoldsLease, IInv, DatabaseInv
<1>7. j.committed = StagedCounts
  BY <1>1, <1>2, <1>6 DEF Holds, Running
<1>8. c + n = j.seen[s] /\ c + n <= RowsIn[s] /\ c = sheet[s].staged
  <2>1. SheetCounted(j, s) /\ Waiting(j, s) = n
    BY <1>1, <1>2, <1>4 DEF LoopInv, Waiting
  <2>2. c = sheet[s].staged
    BY <1>4, <1>7 DEF StagedCounts
  <2> QED
    BY <1>3, <1>4, <1>5, <2>1, <2>2, SheetAssumption DEF SheetCounted
<1>9. PendingRows(j) = (c + 1) .. (c + n)
  <2>1. \A i \in 1 .. n : j.pending[i] = c + i
    BY <1>1, <1>2 DEF LoopInv
  <2>2. PendingRows(j) = {c + i : i \in 1 .. n}
    BY <2>1 DEF PendingRows
  <2>3. c \in Nat
    BY <1>4, <1>5
  <2> QED
    BY <1>3, <2>2, <2>3, IntervalShift
<1>10. rows[s] = 1 .. c /\ c \in Nat
  <2>1. CheckpointIsExact
    BY DEF IInv, DatabaseInv
  <2>2. rows[s] = 1 .. sheet[s].staged
    BY <1>4, <2>1 DEF CheckpointIsExact
  <2>3. c \in Nat
    BY <1>4, <1>5
  <2> QED
    BY <1>8, <2>2, <2>3
<1>11. rows[s] \cup PendingRows(j) = 1 .. (c + n)
  <2>1. (1 .. c) \cup ((c + 1) .. (c + n)) = 1 .. (c + n)
    BY <1>3, <1>10, IntervalJoin
  <2> QED
    BY <1>9, <1>10, <2>1
<1>12. rows' = [rows EXCEPT ![s] = 1 .. (c + n)]
  BY <1>11 DEF FlushCommit
<1> QED
  BY <1>3, <1>4, <1>6, <1>7, <1>8, <1>9, <1>10, <1>12

\* The batch transaction of the lease holder.
LEMMA FlushKeepsInv ==
    ASSUME IInv, TypeOK', NEW w \in Worker, NEW d \in 0 .. MaxDelay,
           NEW j, j = job[w], NEW k, k = AfterCommit(j),
           NEW s, s = j.cur, NEW n, n = Len(j.pending), NEW c, c = j.committed[s],
           j.step = "parse", FlushDue(j), FlushCommit(w, d), UNCHANGED file
    PROVE  IInv'
<1>1. j \in Job /\ LoopInv(j) /\ Holds(w, j) /\ SourceOf(j)
  BY DEF IInv, HolderInv, SourceInv, TypeOK
<1>2. /\ s \in Sheets /\ n \in Nat /\ n > 0 /\ c \in Nat
      /\ imp.owner = w /\ imp.phase = "staging" /\ ~imp.stagedAt
      /\ j.committed = StagedCounts
      /\ c + n = j.seen[s] /\ c + n <= RowsIn[s] /\ c = sheet[s].staged
      /\ rows' = [rows EXCEPT ![s] = 1 .. (c + n)]
  BY FlushFacts
<1>5. /\ j.committed \in [Sheets -> Nat]
      /\ j.seen \in [Sheets -> Nat]
      /\ j.base \in [Sheets -> Nat]
      /\ sheet \in [Sheets -> SheetRow]
      /\ rows \in [Sheets -> SUBSET Nat]
  BY <1>1 DEF Job, IInv, TypeOK
<1>10. /\ k.step = "parse" /\ k.seen = j.seen /\ k.base = j.base
       /\ k.cur = s /\ k.pending = << >> /\ k.stagedAt = j.stagedAt
       /\ k.committed = [j.committed EXCEPT ![s] = c + n]
  BY <1>1, <1>2 DEF AfterCommit, Job
<1>11. LoopInv(k)
  <2>1. \A r \in Sheets : SheetCounted(k, r)
    <3> SUFFICES ASSUME NEW r \in Sheets PROVE SheetCounted(k, r)
      OBVIOUS
    <3>1. SheetCounted(j, r)
      BY <1>1, <1>2 DEF LoopInv
    <3>2. Waiting(k, r) = 0
      BY <1>10 DEF Waiting
    <3>3. CASE r = s
      BY <1>2, <1>5, <1>10, <3>1, <3>2, <3>3, SheetAssumption
         DEF SheetCounted, Waiting
    <3>4. CASE r # s
      BY <1>2, <1>5, <1>10, <3>1, <3>2, <3>4 DEF SheetCounted, Waiting
    <3> QED
      BY <3>3, <3>4
  <2>2. Len(k.pending) = 0 /\ 0 <= BatchSize
    BY <1>10, BatchAssumption
  <2>3. \A i \in 1 .. Len(k.pending) : k.pending[i] = k.committed[k.cur] + i
    BY <2>2
  <2> QED
    BY <1>1, <1>2, <1>10, <2>1, <2>2, <2>3 DEF LoopInv
<1>12. /\ sheet' = [sheet EXCEPT ![s] = [found |-> j.seen[s],
                      staged |-> c + n, status |-> "parsing"]]
       /\ imp' = [imp EXCEPT !.rowsTotal = j.total + n, !.lease = Renewed(d)]
  BY DEF FlushCommit
<1>13. /\ imp'.owner = w /\ imp'.phase = "staging" /\ ~imp'.stagedAt
       /\ imp'.token = imp.token
  BY <1>2, <1>12 DEF IInv, TypeOK, ImportRow
<1>14. \A r \in Sheets : r # s => sheet'[r] = sheet[r] /\ rows'[r] = rows[r]
  BY <1>2, <1>5, <1>12
<1>15. /\ sheet'[s] = [found |-> j.seen[s], staged |-> c + n, status |-> "parsing"]
       /\ rows'[s] = 1 .. (c + n)
  BY <1>2, <1>5, <1>12
<1>16. DatabaseInv'
  <2>1. rows'[s] = 1 .. sheet'[s].staged
    BY <1>15
  <2>2. CheckpointIsExact'
    BY <1>14, <2>1 DEF IInv, DatabaseInv, CheckpointIsExact
  <2>3. \A r \in Sheets : sheet'[r].staged <= RowsIn[r]
    BY <1>2, <1>14, <1>15 DEF IInv, DatabaseInv
  <2>4. \A r \in Sheets : (sheet[r].status = "staged" => StagedSheet(r))'
    BY <1>14, <1>15 DEF IInv, DatabaseInv, StagedSheet
  <2> QED
    BY <1>13, <2>2, <2>3, <2>4 DEF DatabaseInv
<1>17. Holds(w, k)'
  <2>1. k.committed = StagedCounts'
    <3>1. \A r \in Sheets : r # s => k.committed[r] = sheet'[r].staged
      BY <1>2, <1>5, <1>10, <1>14 DEF StagedCounts
    <3>2. k.committed[s] = sheet'[s].staged
      BY <1>2, <1>5, <1>10, <1>15
    <3>3. k.committed = [r \in Sheets |-> k.committed[r]]
      BY <1>5, <1>10
    <3> QED
      BY <3>1, <3>2, <3>3 DEF StagedCounts
  <2> QED
    BY <1>10, <2>1 DEF Holds
<1>18. SourceLifetime' /\ SourceOf(k)'
  BY <1>1, <1>2, <1>10, <1>13 DEF IInv, SourceInv, SourceLifetime, SourceOf
<1>19. Become(w, k)
  BY DEF FlushCommit
<1> QED
  BY <1>2, <1>11, <1>13, <1>16, <1>17, <1>18, <1>19, OwnerStep

\* Completing one sheet.
LEMMA CompleteSheetKeepsInv ==
    ASSUME IInv, TypeOK', NEW w \in Worker, NEW d \in 0 .. MaxDelay,
           NEW j, j = job[w], NEW s, s = j.cur, s \in Sheets,
           NEW k, k = [j EXCEPT !.cur = s + 1],
           j.step = "sheets", MayCompleteSheet(w, s, d), Become(w, k),
           sheet' = [sheet EXCEPT ![s] = [found |-> j.seen[s],
                       staged |-> j.committed[s], status |-> "staged"]],
           UNCHANGED <<imp, rows, file>>
    PROVE  IInv'
<1>1. j \in Job /\ LoopInv(j) /\ Holds(w, j) /\ SourceOf(j)
  BY DEF IInv, HolderInv, SourceInv, TypeOK
<1>2. imp.owner = w /\ imp.phase = "staging" /\ ~imp.stagedAt
  BY DEF MayCompleteSheet, HoldsLease, IInv, DatabaseInv
<1>3. j.committed = StagedCounts
  BY <1>1, <1>2 DEF Holds, Running
<1>4. /\ \A r \in Sheets : j.seen[r] = RowsIn[r] /\ j.committed[r] = RowsIn[r]
      /\ sheet \in [Sheets -> SheetRow] /\ SheetCount \in Nat
  BY <1>1, SheetAssumption DEF LoopInv, IInv, TypeOK
<1>5. /\ k.step = "sheets" /\ k.seen = j.seen /\ k.committed = j.committed
      /\ k.cur = s + 1 /\ k.stagedAt = j.stagedAt
  BY <1>1 DEF Job
<1>6. \A r \in Sheets : r # s => sheet'[r] = sheet[r]
  BY <1>4
<1>7. /\ sheet'[s] = [found |-> RowsIn[s], staged |-> RowsIn[s], status |-> "staged"]
      /\ sheet[s].staged = RowsIn[s]
  BY <1>3, <1>4 DEF StagedCounts
<1>8. DatabaseInv'
  <2>1. \A r \in Sheets : sheet'[r].staged = sheet[r].staged
    BY <1>6, <1>7
  <2>2. CheckpointIsExact'
    BY <2>1 DEF IInv, DatabaseInv, CheckpointIsExact
  <2>3. \A r \in Sheets : sheet'[r].staged <= RowsIn[r]
    BY <2>1 DEF IInv, DatabaseInv
  <2>4. \A r \in Sheets : (sheet[r].status = "staged" => StagedSheet(r))'
    BY <1>6, <1>7 DEF IInv, DatabaseInv, StagedSheet
  <2> QED
    BY <1>2, <2>2, <2>3, <2>4 DEF IInv, DatabaseInv
<1>9. Holds(w, k)'
  <2>1. \A r \in Sheets : r < s + 1 => sheet'[r].status = "staged"
    <3>1. \A r \in Sheets : r < s => sheet[r].status = "staged"
      BY <1>1, <1>2 DEF Holds
    <3>2. \A r \in Sheets : r < s + 1 => r < s \/ r = s
      BY <1>4 DEF Sheets
    <3> QED
      BY <1>6, <1>7, <3>1, <3>2
  <2>2. k.committed = StagedCounts'
    BY <1>3, <1>5, <1>6, <1>7 DEF StagedCounts
  <2> QED
    BY <1>5, <2>1, <2>2 DEF Holds
<1>10. LoopInv(k)
  BY <1>4, <1>5 DEF LoopInv
<1>11. SourceLifetime' /\ SourceOf(k)'
  BY <1>1, <1>5 DEF IInv, SourceInv, SourceLifetime, SourceOf
<1> QED
  BY <1>2, <1>8, <1>9, <1>10, <1>11, OwnerStep

\* Counting one more row keeps a sheet's counters in step.
LEMMA CountStep ==
    ASSUME NEW seen \in Nat, NEW base \in Nat, NEW done \in Nat, NEW wait \in Nat,
           seen <= base => done = base /\ wait = 0,
           seen > base => done + wait = seen
    PROVE  /\ seen + 1 <= base => done = base /\ wait = 0
           /\ seen + 1 > base => done + wait = seen /\ done + (wait + 1) = seen + 1
OBVIOUS

\* The row callback of the parser.
LEMMA ParseRowKeepsInv ==
    ASSUME IInv, TypeOK', NEW w \in Worker, NEW j, j = job[w],
           NEW s \in Sheets, NEW k, k = AfterRow(j, s),
           j.step = "parse", ~FlushDue(j), NextRowIn(j, s), Become(w, k),
           UNCHANGED <<imp, sheet, rows, file>>
    PROVE  IInv'
<1> DEFINE ordinal == j.seen[s] + 1
<1>1. j \in Job /\ LoopInv(j) /\ Holds(w, j) /\ SourceOf(j)
  BY DEF IInv, HolderInv, SourceInv, TypeOK
<1>2. /\ j.committed \in [Sheets -> Nat] /\ j.seen \in [Sheets -> Nat]
      /\ j.base \in [Sheets -> Nat] /\ j.pending \in Seq(Nat)
      /\ RowsIn \in [Sheets -> Nat] /\ SheetCount \in Nat
      /\ BatchSize \in Nat /\ BatchSize > 0
      /\ Len(j.pending) \in Nat /\ ordinal \in Nat /\ j.seen[s] \in Nat
      /\ j.base[s] \in Nat /\ j.committed[s] \in Nat /\ RowsIn[s] \in Nat
  <2>1. /\ j.committed \in [Sheets -> Nat] /\ j.seen \in [Sheets -> Nat]
        /\ j.base \in [Sheets -> Nat] /\ j.pending \in Seq(Nat)
    BY <1>1 DEF Job
  <2>2. BatchSize \in Nat /\ BatchSize > 0
    BY BatchAssumption
  <2> QED
    BY <2>1, <2>2, SheetAssumption
<1>3. /\ k.step = "parse" /\ k.base = j.base /\ k.committed = j.committed
      /\ k.cur = s /\ k.stagedAt = j.stagedAt
      /\ k.seen = [j.seen EXCEPT ![s] = ordinal]
      /\ k.pending = IF ordinal <= j.base[s] THEN j.pending
                                             ELSE Append(j.pending, ordinal)
  BY <1>1 DEF AfterRow, Job
<1>4. j.cur = s \/ j.pending = << >>
  BY DEF FlushDue
<1>5. Len(j.pending) = 0 \/ Len(j.pending) < BatchSize
  BY <1>2, <1>4 DEF FlushDue
<1>6. j.pending = << >> => Len(j.pending) = 0
  OBVIOUS
<1>7. Waiting(j, s) = Len(j.pending)
  BY <1>4, <1>6 DEF Waiting
<1>8. \A r \in Sheets : SheetCounted(j, r)
  BY <1>1 DEF LoopInv
<1>9. /\ j.seen[s] <= j.base[s] => j.committed[s] = j.base[s] /\ Len(j.pending) = 0
      /\ j.seen[s] > j.base[s] => j.committed[s] + Len(j.pending) = j.seen[s]
  BY <1>7, <1>8 DEF SheetCounted
<1>10. /\ ordinal <= j.base[s] => j.committed[s] = j.base[s] /\ Len(j.pending) = 0
       /\ ordinal > j.base[s] =>
            /\ j.committed[s] + Len(j.pending) = j.seen[s]
            /\ j.committed[s] + (Len(j.pending) + 1) = ordinal
  <2> DEFINE sn == j.seen[s]
             bs == j.base[s]
             cm == j.committed[s]
             pn == Len(j.pending)
  <2>1. sn \in Nat /\ bs \in Nat /\ cm \in Nat /\ pn \in Nat
    BY <1>2
  <2>2. (sn <= bs => cm = bs /\ pn = 0) /\ (sn > bs => cm + pn = sn)
    BY <1>9
  <2> HIDE DEF sn, bs, cm, pn
  <2>3. /\ sn + 1 <= bs => cm = bs /\ pn = 0
        /\ sn + 1 > bs => cm + pn = sn /\ cm + (pn + 1) = sn + 1
    BY <2>1, <2>2, CountStep
  <2> QED
    BY <2>3 DEF sn, bs, cm, pn
<1>11. k.pending = IF ordinal <= j.base[s] THEN << >> ELSE Append(j.pending, ordinal)
  <2>1. ordinal <= j.base[s] => Len(j.pending) = 0
    BY <1>10
  <2>2. Len(j.pending) = 0 => j.pending = << >>
    BY <1>2
  <2> QED
    BY <1>3, <2>1, <2>2
<1>12. Len(k.pending) = IF ordinal <= j.base[s] THEN 0 ELSE Len(j.pending) + 1
  BY <1>2, <1>11
<1>13. \A r \in Sheets : SheetCounted(k, r)
  <2> SUFFICES ASSUME NEW r \in Sheets PROVE SheetCounted(k, r)
    OBVIOUS
  <2>1. CASE r = s
    <3>1. Waiting(k, r) = Len(k.pending)
      BY <1>3, <2>1 DEF Waiting
    <3>2. k.seen[r] = ordinal /\ ordinal <= RowsIn[r]
      BY <1>2, <1>3, <2>1 DEF NextRowIn
    <3> QED
      BY <1>3, <1>8, <1>10, <1>12, <1>2, <2>1, <3>1, <3>2 DEF SheetCounted
  <2>2. CASE r # s
    <3>1. Waiting(k, r) = 0 /\ k.seen[r] = j.seen[r]
      BY <1>2, <1>3, <2>2 DEF Waiting
    <3>2. Waiting(j, r) = 0
      BY <1>4, <1>6, <2>2 DEF Waiting
    <3> QED
      BY <1>3, <1>8, <3>1, <3>2 DEF SheetCounted
  <2> QED
    BY <2>1, <2>2
<1>14. \A i \in 1 .. Len(k.pending) : k.pending[i] = k.committed[k.cur] + i
  <2>1. CASE ordinal <= j.base[s]
    BY <1>12, <2>1
  <2>2. CASE ~(ordinal <= j.base[s])
    <3>1. j.committed[s] + Len(j.pending) = j.seen[s]
      BY <1>2, <1>10, <2>2
    <3>2. \A i \in 1 .. Len(j.pending) : j.pending[i] = j.committed[s] + i
      BY <1>1, <1>4, <1>6 DEF LoopInv
    <3>3. k.pending = Append(j.pending, ordinal)
      BY <1>11, <2>2
    <3>4. \A i \in 1 .. (Len(j.pending) + 1) :
            k.pending[i] = IF i <= Len(j.pending) THEN j.pending[i] ELSE ordinal
      BY <1>2, <3>3
    <3> QED
      <4> SUFFICES ASSUME NEW i \in 1 .. (Len(j.pending) + 1)
                   PROVE  k.pending[i] = j.committed[s] + i
        BY <1>3, <1>12, <2>2
      <4>1. CASE i <= Len(j.pending)
        BY <1>2, <3>2, <3>4, <4>1
      <4>2. CASE ~(i <= Len(j.pending))
        <5>1. i = Len(j.pending) + 1
          BY <1>2, <4>2
        <5>2. k.pending[i] = ordinal
          BY <3>4, <4>2
        <5>3. ordinal > j.base[s]
          BY <1>2, <2>2
        <5>4. j.committed[s] + (Len(j.pending) + 1) = ordinal
          BY <1>10, <5>3
        <5> QED
          BY <5>1, <5>2, <5>4
      <4> QED
        BY <4>1, <4>2
  <2> QED
    BY <2>1, <2>2
<1>15. LoopInv(k)
  <2>1. Len(k.pending) <= BatchSize
    BY <1>2, <1>5, <1>12
  <2>2. k.cur \in 0 .. SheetCount /\ k.cur # 0
    BY <1>2, <1>3 DEF Sheets
  <2>3. \A r \in 1 .. (k.cur - 1) : k.seen[r] = RowsIn[r]
    <3> SUFFICES ASSUME NEW r \in 1 .. (s - 1) PROVE k.seen[r] = RowsIn[r]
      BY <1>3
    <3>1. r # s /\ r \in Sheets
      <4>1. SheetCount \in Nat /\ s \in 1 .. SheetCount
        BY <1>2 DEF Sheets
      <4>2. r \in 1 .. SheetCount /\ r # s
        BY <4>1
      <4> QED
        BY <4>2 DEF Sheets
    <3> QED
      BY <1>2, <1>3, <3>1 DEF NextRowIn
  <2> QED
    BY <1>3, <1>13, <1>14, <2>1, <2>2, <2>3 DEF LoopInv
<1>16. Holds(w, k) /\ SourceOf(k)
  BY <1>1, <1>3 DEF Holds, SourceOf, Running
<1> QED
  BY <1>15, <1>16, LocalStep

\* Every statement of every worker keeps the inductive invariant (Stage, flushBatch,
\* cleanupStagedSource and the statements they call).
LEMMA NextInv == IInv /\ [Next]_vars => IInv'
<1> SUFFICES ASSUME IInv, [Next]_vars PROVE IInv'
  OBVIOUS
<1>0. TypeOK /\ TypeOK'
  BY NextType DEF IInv
<1>1. ASSUME NEW w \in Worker, ClaimNextImport(w) \/ RetryStage(w) PROVE IInv'
  <2> DEFINE start(ph) == [IdleJob("none") EXCEPT !.step = "claimed", !.phase = ph,
                 !.snapTotal = imp.rowsTotal, !.stagedAt = imp.stagedAt,
                 !.token = imp.token]
  <2>1. PICK ph, j : j = start(ph) /\ Become(w, j)
    BY <1>1 DEF ClaimNextImport, RetryStage, Snapshot
  <2>2. /\ j.step = "claimed" /\ j.seen = Zeros /\ j.pending = << >>
        /\ j.cur = 0 /\ j.stagedAt = imp.stagedAt
    BY <2>1 DEF IdleJob
  <2>3. LoopInv(j)
    BY <2>2 DEF LoopInv, NotStarted
  <2>4. CASE RetryStage(w)
    <3>1. Holds(w, j) /\ SourceOf(j)
      BY <2>2 DEF Holds, SourceOf, Running
    <3> QED
      BY <1>0, <2>1, <2>3, <2>4, <3>1, LocalStep DEF RetryStage
  <2>5. CASE ClaimNextImport(w)
    <3>1. /\ imp'.owner = w /\ imp'.stagedAt = imp.stagedAt /\ imp'.token = imp.token
          /\ imp'.phase = "validating" <=> imp.phase = "validating"
          /\ UNCHANGED <<sheet, rows, file>>
      BY <1>0, <2>5 DEF ClaimNextImport, TypeOK, ImportRow
    <3>2. DatabaseInv'
      BY <3>1, SameSheets DEF IInv
    <3>3. Holds(w, j)' /\ SourceOf(j)' /\ SourceLifetime'
      BY <2>2, <3>1 DEF Holds, SourceOf, Running, IInv, SourceInv, SourceLifetime
    <3> QED
      BY <1>0, <2>1, <2>3, <3>1, <3>2, <3>3, OwnerStep
  <2> QED
    BY <1>1, <2>4, <2>5
<1>3. ASSUME NEW w \in Worker, VerifySource(w) PROVE IInv'
  <2>1. job[w] \in Job /\ LoopInv(job[w]) /\ SourceOf(job[w])
    BY DEF IInv, TypeOK, SourceInv
  <2>2. UNCHANGED <<imp, sheet, rows, file>> /\ job[w].step = "claimed"
    BY <1>3 DEF VerifySource, At
  <2>3. CASE \E o \in Outcomes : Return(w, o)
    BY <1>0, <2>2, <2>3, ReturnStep
  <2>4. CASE job[w].stagedAt /\ Goto(w, "delete")
    <3>1. PICK j : j = [job[w] EXCEPT !.step = "delete"] /\ Become(w, j)
      BY <2>4 DEF Goto
    <3>2. j.step = "delete" /\ j.stagedAt = job[w].stagedAt
      BY <2>1, <3>1 DEF Job
    <3>3. LoopInv(j) /\ Holds(w, j) /\ SourceOf(j)
      BY <2>1, <2>4, <3>2 DEF LoopInv, Holds, SourceOf, Running
    <3> QED
      BY <1>0, <2>2, <3>1, <3>3, LocalStep
  <2>5. CASE Goto(w, "verified")
    <3>1. PICK j : j = [job[w] EXCEPT !.step = "verified"] /\ Become(w, j)
      BY <2>5 DEF Goto
    <3>2. /\ j.step = "verified" /\ j.stagedAt = job[w].stagedAt
          /\ j.seen = job[w].seen /\ j.pending = job[w].pending /\ j.cur = job[w].cur
      BY <2>1, <3>1 DEF Job
    <3>3. LoopInv(j) /\ Holds(w, j) /\ SourceOf(j)
      BY <2>1, <2>2, <3>2 DEF LoopInv, NotStarted, Holds, SourceOf, Running
    <3> QED
      BY <1>0, <2>2, <3>1, <3>3, LocalStep
  <2> QED
    BY <1>3, <2>3, <2>4, <2>5 DEF VerifySource, Outcomes
<1>4. ASSUME NEW w \in Worker, LoadStagingSheets(w) PROVE IInv'
  <2>1. job[w] \in Job /\ LoopInv(job[w]) /\ SourceOf(job[w])
    BY DEF IInv, TypeOK, SourceInv
  <2>2. UNCHANGED <<imp, sheet, rows, file>> /\ job[w].step = "verified"
    BY <1>4 DEF LoadStagingSheets, At
  <2>3. CASE Return(w, "staging_checkpoint_corrupt")
    BY <1>0, <2>2, <2>3, ReturnStep
  <2>4. CASE ~Return(w, "staging_checkpoint_corrupt")
    <3>1. PICK j : /\ j = [job[w] EXCEPT !.step = "loaded", !.base = StagedCounts,
                                         !.committed = StagedCounts]
                   /\ Become(w, j)
      BY <1>4, <2>4 DEF LoadStagingSheets
    <3>2. /\ j.step = "loaded" /\ j.stagedAt = job[w].stagedAt
          /\ j.seen = job[w].seen /\ j.pending = job[w].pending /\ j.cur = job[w].cur
          /\ j.base = StagedCounts /\ j.committed = StagedCounts
      BY <2>1, <3>1 DEF Job
    <3>3. \A s \in Sheets : StagedCounts[s] <= RowsIn[s]
      BY DEF IInv, DatabaseInv, StagedCounts
    <3>4. LoopInv(j)
      BY <2>1, <2>2, <3>2, <3>3 DEF LoopInv, NotStarted
    <3>5. Holds(w, j) /\ SourceOf(j)
      BY <2>1, <3>2 DEF Holds, SourceOf, Running
    <3> QED
      BY <1>0, <2>2, <3>1, <3>4, <3>5, LocalStep
  <2> QED
    BY <2>3, <2>4
<1>5. ASSUME NEW w \in Worker, StartImportStaging(w) PROVE IInv'
  <2>1. /\ job[w] \in Job /\ LoopInv(job[w]) /\ Holds(w, job[w])
        /\ SourceOf(job[w]) /\ job[w].step = "loaded"
        /\ UNCHANGED <<sheet, rows, file>>
    BY <1>5 DEF IInv, TypeOK, HolderInv, SourceInv, StartImportStaging, At
  <2>2. CASE Return(w, "lease_lost") /\ UNCHANGED imp
    BY <1>0, <2>1, <2>2, ReturnStep
  <2>3. CASE ~(Return(w, "lease_lost") /\ UNCHANGED imp)
    <3>1. PICK d, j :
            /\ d \in 0 .. MaxDelay
            /\ MayStart(w, d)
            /\ imp' = [imp EXCEPT !.phase = "staging", !.lease = Renewed(d)]
            /\ j = [job[w] EXCEPT !.step = "open", !.total = imp.rowsTotal]
            /\ Become(w, j)
      BY <1>5, <2>3 DEF StartImportStaging
    <3>2. /\ j.step = "open" /\ j.stagedAt = job[w].stagedAt
          /\ j.seen = job[w].seen /\ j.pending = job[w].pending /\ j.cur = job[w].cur
          /\ j.base = job[w].base /\ j.committed = job[w].committed
      BY <2>1, <3>1 DEF Job
    <3>3. imp.owner = w /\ imp.phase # "validating"
      BY <3>1 DEF MayStart, HoldsLease
    <3>4. /\ imp'.owner = w /\ imp'.stagedAt = imp.stagedAt /\ imp'.token = imp.token
          /\ imp'.phase # "validating"
      BY <1>0, <3>1, <3>3 DEF TypeOK, ImportRow
    <3>5. DatabaseInv'
      BY <2>1, <3>3, <3>4, SameSheets DEF IInv
    <3>6. LoopInv(j)
      BY <2>1, <3>2 DEF LoopInv, NotStarted
    <3>7. Holds(w, j)' /\ SourceOf(j)' /\ SourceLifetime'
      BY <2>1, <3>2, <3>3, <3>4
         DEF Holds, SourceOf, Running, StagedCounts, IInv, SourceInv, SourceLifetime
    <3> QED
      BY <1>0, <2>1, <3>1, <3>4, <3>5, <3>6, <3>7, OwnerStep
  <2> QED
    BY <2>2, <2>3
<1>6. ASSUME NEW w \in Worker, OpenSource(w) PROVE IInv'
  <2>1. /\ job[w] \in Job /\ LoopInv(job[w]) /\ Holds(w, job[w])
        /\ SourceOf(job[w]) /\ job[w].step = "open"
        /\ UNCHANGED <<imp, sheet, rows, file>>
    BY <1>6 DEF IInv, TypeOK, HolderInv, SourceInv, OpenSource, At
  <2>2. CASE Return(w, "staging_failed")
    BY <1>0, <2>1, <2>2, ReturnStep
  <2>3. CASE Goto(w, "parse")
    <3>1. PICK j : j = [job[w] EXCEPT !.step = "parse"] /\ Become(w, j)
      BY <2>3 DEF Goto
    <3>2. /\ j.step = "parse" /\ j.stagedAt = job[w].stagedAt
          /\ j.seen = job[w].seen /\ j.pending = job[w].pending /\ j.cur = job[w].cur
          /\ j.base = job[w].base /\ j.committed = job[w].committed
          /\ j.base \in [Sheets -> Nat]
      BY <2>1, <3>1 DEF Job
    <3>3. /\ j.seen = Zeros /\ j.pending = << >> /\ j.cur = 0 /\ j.committed = j.base
          /\ \A s \in Sheets : j.base[s] <= RowsIn[s]
      BY <2>1, <3>2 DEF LoopInv, NotStarted
    <3>4. Len(j.pending) = 0
      BY <3>3
    <3>5. \A s \in Sheets : SheetCounted(j, s)
      <4> SUFFICES ASSUME NEW s \in Sheets PROVE SheetCounted(j, s)
        OBVIOUS
      <4>1. j.seen[s] = 0 /\ j.base[s] \in Nat /\ RowsIn[s] \in Nat
        BY <3>2, <3>3, SheetAssumption DEF Zeros
      <4>2. Waiting(j, s) = 0
        BY <3>4 DEF Waiting
      <4> QED
        BY <3>3, <4>1, <4>2 DEF SheetCounted
    <3>6. 0 \in 0 .. SheetCount /\ 0 <= BatchSize /\ 0 \notin Sheets
      BY SheetAssumption, BatchAssumption DEF Sheets
    <3>7. \A i \in 1 .. Len(j.pending) : j.pending[i] = j.committed[j.cur] + i
      BY <3>4
    <3>8. LoopInv(j)
      BY <3>2, <3>3, <3>4, <3>5, <3>6, <3>7 DEF LoopInv
    <3>9. Holds(w, j) /\ SourceOf(j)
      BY <2>1, <3>2 DEF Holds, SourceOf, Running
    <3> QED
      BY <1>0, <2>1, <3>1, <3>8, <3>9, LocalStep
  <2> QED
    BY <1>6, <2>2, <2>3 DEF OpenSource
<1>7. ASSUME NEW w \in Worker, ParseRow(w) PROVE IInv'
  <2>1. PICK s, j, k :
          /\ s \in Sheets
          /\ j = job[w] /\ k = AfterRow(j, s)
          /\ NextRowIn(j, s) /\ Become(w, k)
    BY <1>7 DEF ParseRow
  <2> QED
    BY <1>0, <1>7, <2>1, ParseRowKeepsInv DEF ParseRow, At
<1>8. ASSUME NEW w \in Worker, FlushBatch(w) PROVE IInv'
  <2>1. PICK d \in 0 .. MaxDelay : FlushCommit(w, d) \/ FlushRollback(w, d)
    BY <1>8 DEF FlushBatch
  <2>2. UNCHANGED file
    BY <1>8 DEF FlushBatch
  <2>3. CASE FlushCommit(w, d)
    <3>1. PICK j, k, s, n, c : /\ j = job[w] /\ k = AfterCommit(j) /\ s = j.cur
                               /\ n = Len(j.pending) /\ c = j.committed[s]
      OBVIOUS
    <3> QED
      BY <1>0, <1>8, <2>3, <3>1, FlushKeepsInv DEF FlushBatch, At
  <2>4. CASE FlushRollback(w, d)
    BY <1>0, <2>2, <2>4, ReturnStep DEF FlushRollback, dbVars
  <2> QED
    BY <2>1, <2>3, <2>4
<1>9. ASSUME NEW w \in Worker, ParseEOF(w) PROVE IInv'
  <2>1. /\ job[w] \in Job /\ LoopInv(job[w]) /\ Holds(w, job[w])
        /\ SourceOf(job[w]) /\ job[w].step = "parse" /\ AtEOF(job[w])
        /\ UNCHANGED <<imp, sheet, rows, file>> /\ job[w].pending = << >>
    BY <1>9 DEF IInv, TypeOK, HolderInv, SourceInv, ParseEOF, At
  <2>2. PICK j : j = [job[w] EXCEPT !.step = "sheets", !.cur = 1] /\ Become(w, j)
    BY <1>9 DEF ParseEOF
  <2>3. /\ j.step = "sheets" /\ j.stagedAt = job[w].stagedAt /\ j.cur = 1
        /\ j.seen = job[w].seen /\ j.committed = job[w].committed
    BY <2>1, <2>2 DEF Job
  <2>4. \A s \in Sheets : j.seen[s] = RowsIn[s] /\ j.committed[s] = RowsIn[s]
    <3> SUFFICES ASSUME NEW s \in Sheets
                 PROVE  j.seen[s] = RowsIn[s] /\ j.committed[s] = RowsIn[s]
      OBVIOUS
    <3>1. SheetCounted(job[w], s)
      BY <2>1 DEF LoopInv
    <3>2. Waiting(job[w], s) = 0
      BY <2>1 DEF Waiting
    <3>3. /\ job[w].seen[s] = RowsIn[s] /\ RowsIn[s] \in Nat
          /\ job[w].base[s] \in Nat /\ job[w].committed[s] \in Nat
      BY <2>1, SheetAssumption DEF AtEOF, Job
    <3>4. CASE job[w].seen[s] <= job[w].base[s]
      BY <2>3, <3>1, <3>3, <3>4 DEF SheetCounted
    <3>5. CASE job[w].seen[s] > job[w].base[s]
      BY <2>3, <3>1, <3>2, <3>3, <3>5 DEF SheetCounted
    <3> QED
      BY <3>3, <3>4, <3>5
  <2>5. LoopInv(j)
    BY <2>3, <2>4 DEF LoopInv
  <2>6. \A s \in Sheets : ~(s < 1)
    BY SheetAssumption DEF Sheets
  <2>7. Holds(w, j) /\ SourceOf(j)
    BY <2>1, <2>3, <2>6 DEF Holds, SourceOf, Running
  <2> QED
    BY <1>0, <2>1, <2>2, <2>5, <2>7, LocalStep
<1>10. ASSUME NEW w \in Worker, CompleteSheet(w) PROVE IInv'
  <2>1. PICK d \in 0 .. MaxDelay :
          \/ \E o \in Outcomes : Return(w, o) /\ UNCHANGED sheet
          \/ /\ MayCompleteSheet(w, job[w].cur, d)
             /\ sheet' = [sheet EXCEPT ![job[w].cur] =
                   [found |-> job[w].seen[job[w].cur],
                    staged |-> job[w].committed[job[w].cur], status |-> "staged"]]
             /\ Become(w, [job[w] EXCEPT !.cur = job[w].cur + 1])
    BY <1>10 DEF CompleteSheet, Outcomes
  <2>2. CASE \E o \in Outcomes : Return(w, o) /\ UNCHANGED sheet
    BY <1>0, <1>10, <2>2, ReturnStep DEF CompleteSheet
  <2>3. CASE ~\E o \in Outcomes : Return(w, o) /\ UNCHANGED sheet
    <3>1. PICK j, s, k : j = job[w] /\ s = j.cur /\ k = [j EXCEPT !.cur = s + 1]
      OBVIOUS
    <3> QED
      BY <1>0, <1>10, <2>1, <2>3, <3>1, CompleteSheetKeepsInv DEF CompleteSheet, At
  <2> QED
    BY <2>2, <2>3
<1>11. ASSUME NEW w \in Worker, CompleteImportStaging(w) PROVE IInv'
  <2>1. /\ job[w] \in Job /\ LoopInv(job[w]) /\ Holds(w, job[w])
        /\ SourceOf(job[w]) /\ job[w].step = "sheets"
        /\ job[w].cur = SheetCount + 1 /\ UNCHANGED <<sheet, rows, file>>
    BY <1>11 DEF IInv, TypeOK, HolderInv, SourceInv, CompleteImportStaging, At
  <2>2. CASE Return(w, "lease_lost") /\ UNCHANGED imp
    BY <1>0, <2>1, <2>2, ReturnStep
  <2>3. CASE ~(Return(w, "lease_lost") /\ UNCHANGED imp)
    <3>1. PICK d \in 0 .. MaxDelay :
            /\ MayFinish(w, d)
            /\ imp' = [imp EXCEPT !.phase = "validating", !.stagedAt = TRUE,
                         !.rowsTotal = job[w].total, !.lease = Renewed(d)]
            /\ Goto(w, "delete") \/ Return(w, "ok")
      BY <1>11, <2>3 DEF CompleteImportStaging
    <3>2. imp.owner = w
      BY <3>1 DEF MayFinish, HoldsLease
    <3>3. /\ imp'.owner = w /\ imp'.stagedAt = TRUE /\ imp'.token = imp.token
          /\ imp'.phase = "validating"
      BY <1>0, <3>1, <3>2 DEF TypeOK, ImportRow
    <3>4. \A s \in Sheets : sheet[s].status = "staged"
      <4>1. \A s \in Sheets : s < SheetCount + 1
        BY SheetAssumption DEF Sheets
      <4> QED
        BY <2>1, <3>2, <4>1 DEF Holds
    <3>5. DatabaseInv'
      BY <2>1, <3>3, <3>4 DEF IInv, DatabaseInv, CheckpointIsExact, StagedSheet
    <3>6. SourceLifetime'
      BY <2>1, <3>3 DEF IInv, SourceInv, SourceLifetime
    <3>7. PICK j : Become(w, j) /\ j.step \in {"delete", "idle"}
      BY <2>1, <3>1 DEF Goto, Return, IdleJob, Job
    <3>8. LoopInv(j) /\ Holds(w, j)' /\ SourceOf(j)'
      BY <3>3, <3>7 DEF LoopInv, Holds, SourceOf, Running
    <3> QED
      BY <1>0, <2>1, <3>3, <3>5, <3>6, <3>7, <3>8, OwnerStep
  <2> QED
    BY <2>2, <2>3
<1>12. ASSUME NEW w \in Worker, DeleteSource(w) PROVE IInv'
  <2>1. /\ job[w] \in Job /\ SourceOf(job[w]) /\ job[w].step = "delete"
        /\ UNCHANGED <<imp, sheet, rows>> /\ file' = FALSE
    BY <1>12 DEF IInv, TypeOK, SourceInv, DeleteSource, dbVars, At
  <2>2. PICK j : j = [job[w] EXCEPT !.step = "clear"] /\ Become(w, j)
    BY <1>12 DEF DeleteSource, Goto
  <2>3. j.step = "clear" /\ j.stagedAt = job[w].stagedAt
    BY <2>1, <2>2 DEF Job
  <2>4. \A v \in Worker : job'[v] = IF v = w THEN j ELSE job[v]
    BY <1>0, <2>2, BecomeValue
  <2>5. \A v \in Worker : LoopInv(job'[v])
    BY <2>3, <2>4 DEF IInv, LoopInv
  <2>6. DatabaseInv'
    BY <2>1, SameSheets DEF IInv
  <2>7. HolderInv'
    BY <2>1, <2>3, <2>4 DEF IInv, HolderInv, Holds, Running, StagedCounts
  <2>8. SourceInv'
    BY <2>1, <2>3, <2>4 DEF IInv, SourceInv, SourceOf, SourceLifetime
  <2> QED
    BY <1>0, <2>5, <2>6, <2>7, <2>8 DEF IInv
<1>13. ASSUME NEW w \in Worker, ClearImportTempFile(w) PROVE IInv'
  <2>1. /\ job[w] \in Job /\ SourceOf(job[w]) /\ job[w].step = "clear"
        /\ UNCHANGED <<sheet, rows, file>>
    BY <1>13 DEF IInv, TypeOK, SourceInv, ClearImportTempFile, At
  <2>2. CASE UNCHANGED imp
    BY <1>0, <1>13, <2>1, <2>2, ReturnStep DEF ClearImportTempFile
  <2>3. CASE ~UNCHANGED imp
    <3>1. PICK d \in 0 .. MaxDelay : /\ MayClear(w, d) /\ Return(w, "ok")
                                     /\ imp' = [imp EXCEPT !.token = FALSE]
      BY <1>13, <2>3 DEF ClearImportTempFile
    <3>2. imp.owner = w /\ imp.stagedAt
      BY <3>1 DEF MayClear, HoldsLease
    <3>3. /\ imp'.owner = w /\ imp'.stagedAt = imp.stagedAt
          /\ imp'.phase = imp.phase
      BY <1>0, <3>1, <3>2 DEF TypeOK, ImportRow
    <3>4. DatabaseInv'
      BY <2>1, <3>3, SameSheets DEF IInv
    <3>5. SourceLifetime'
      BY <2>1, <3>2, <3>3 DEF SourceLifetime, SourceOf
    <3>6. PICK j : Become(w, j) /\ j = IdleJob("ok")
      BY <3>1 DEF Return
    <3>7. j.step = "idle" /\ j.stagedAt = FALSE
      BY <3>6 DEF IdleJob
    <3>8. LoopInv(j) /\ Holds(w, j)' /\ SourceOf(j)'
      BY <3>7 DEF LoopInv, Holds, SourceOf, Running
    <3> QED
      BY <1>0, <2>1, <3>2, <3>3, <3>4, <3>5, <3>6, <3>8, OwnerStep
  <2> QED
    BY <2>2, <2>3
<1>14. ASSUME NEW w \in Worker, Interrupt(w) PROVE IInv'
  BY <1>0, <1>14, ReturnStep DEF Interrupt
<1>15. ASSUME Tick \/ SourceExpires PROVE IInv'
  <2>1. /\ imp'.owner = imp.owner /\ imp'.stagedAt = imp.stagedAt
        /\ imp'.token = imp.token /\ imp'.phase = imp.phase
        /\ UNCHANGED <<sheet, rows, file, job>>
    BY <1>0, <1>15 DEF Tick, SourceExpires, TypeOK, ImportRow
  <2>2. DatabaseInv'
    BY <2>1, SameSheets DEF IInv
  <2>3. HolderInv' /\ SourceInv'
    BY <2>1 DEF IInv, HolderInv, Holds, StagedCounts, SourceInv, SourceOf, SourceLifetime
  <2> QED
    BY <1>0, <2>1, <2>2, <2>3 DEF IInv
<1>16. ASSUME UNCHANGED vars PROVE IInv'
  <2>1. UNCHANGED imp /\ UNCHANGED sheet /\ UNCHANGED rows /\ UNCHANGED file /\ UNCHANGED job
    BY <1>16 DEF vars
  <2>2. DatabaseInv'
    BY <2>1, SameSheets DEF IInv
  <2>3. HolderInv' /\ SourceInv'
    BY <2>1 DEF IInv, HolderInv, Holds, StagedCounts, SourceInv, SourceOf, SourceLifetime
  <2> QED
    BY <1>0, <2>1, <2>2, <2>3 DEF IInv
<1> QED
  BY <1>1, <1>3, <1>4, <1>5, <1>6, <1>7, <1>8, <1>9, <1>10, <1>11,
     <1>12, <1>13, <1>14, <1>15, <1>16 DEF Next, WorkerStep

\* The inductive invariant holds after any interleaving of the workers' calls of
\* Stage: database rows, source file and the locals of every call agree.
THEOREM Invariance == Spec => []IInv
<1>1. Init => IInv
  BY InitInv
<1>2. IInv /\ [Next]_vars => IInv'
  BY NextInv
<1> QED
  BY <1>1, <1>2, PTL DEF Spec

----------------------------------------------------------------------------
(* What the invariant gives *)

\* The staged rows of every sheet are exactly the prefix its checkpoint names,
\* whoever stages and is interrupted where (flushBatch).
THEOREM CheckpointSafety == Spec => []CheckpointIsExact
<1>1. IInv => CheckpointIsExact
  BY DEF IInv, DatabaseInv
<1> QED
  BY <1>1, Invariance, PTL

\* An import marked as staged has all its rows, and all its sheets say so
\* (CompleteImportSheetStaging, CompleteImportStaging).
THEOREM StagingSafety == Spec => []StagedIsComplete
<1>1. IInv => StagedIsComplete
  <2> SUFFICES ASSUME IInv, imp.stagedAt, NEW s \in Sheets
               PROVE  /\ rows[s] = 1 .. RowsIn[s]
                      /\ StagedSheet(s)
    BY DEF StagedIsComplete, StagedSheet
  <2>1. StagedSheet(s)
    BY DEF IInv, DatabaseInv
  <2> QED
    BY <2>1 DEF IInv, DatabaseInv, CheckpointIsExact, StagedSheet
<1> QED
  BY <1>1, Invariance, PTL

\* The workbook is there until staging is complete, and a file that is still there
\* has its token (cleanupStagedSource).
THEOREM SourceSafety == Spec => []SourceLifetime
<1>1. IInv => SourceLifetime
  BY DEF IInv, SourceInv
<1> QED
  BY <1>1, Invariance, PTL

\* Once a sheet is marked as staged no statement of any worker changes it
\* (UpdateImportSheetStagingProgress, CompleteImportSheetStaging).
THEOREM StagedSheetsStay == Spec => StagedSheetIsFinal
<1>1. IInv /\ [Next]_vars =>
        [\A s \in Sheets : sheet[s].status = "staged" => sheet'[s] = sheet[s]]_vars
  <2> SUFFICES ASSUME IInv, Next, NEW r \in Sheets, sheet[r].status = "staged"
               PROVE  sheet'[r] = sheet[r]
    BY DEF vars
  <2>1. TypeOK /\ IInv'
    BY NextInv DEF IInv
  <2>2. \A w \in Worker, d \in 0 .. MaxDelay : FlushCommit(w, d) => sheet'[r] = sheet[r]
    BY <2>1 DEF FlushCommit, MayAdvanceSheet, TypeOK
  <2>3. ASSUME NEW w \in Worker, CompleteSheet(w) PROVE sheet'[r] = sheet[r]
    <3>1. CASE job[w].cur # r
      BY <2>1, <2>3, <3>1 DEF CompleteSheet, TypeOK
    <3>2. CASE job[w].cur = r /\ sheet' # sheet
      <4>1. sheet'[r].status = "staged"
        BY <2>1, <2>3, <3>2 DEF CompleteSheet, TypeOK
      <4>2. StagedSheet(r) /\ StagedSheet(r)'
        BY <2>1, <4>1 DEF IInv, DatabaseInv
      <4> QED
        BY <4>2 DEF StagedSheet
    <3> QED
      BY <3>1, <3>2
  <2>4. ASSUME NEW w \in Worker, FlushBatch(w) PROVE sheet'[r] = sheet[r]
    BY <2>2, <2>4 DEF FlushBatch, FlushRollback, dbVars
  <2> QED
    BY <2>3, <2>4 DEF Next, WorkerStep, ClaimNextImport, RetryStage, VerifySource,
       LoadStagingSheets, StartImportStaging, OpenSource, ParseRow, ParseEOF,
       CompleteImportStaging, DeleteSource, ClearImportTempFile, Interrupt, Tick,
       SourceExpires, dbVars
<1> QED
  BY <1>1, Invariance, PTL DEF Spec, StagedSheetIsFinal

----------------------------------------------------------------------------
(* Sums over the sheets *)

\* A set of naturals that is not empty has a least element.
LEMMA LeastNatural ==
    ASSUME NEW S \in SUBSET Nat, S # {}
    PROVE  \E m \in S : \A n \in S : m <= n
<1>1. PICK R : R = {ss \in Nat \X Nat : ss[1] < ss[2]}
  OBVIOUS
<1>2. IsWellFoundedOn(R, Nat)
  BY <1>1, NatLessThanWellFounded DEF OpToRel
<1>3. PICK m \in S : \A n \in S : ~(<<n, m>> \in R)
  BY <1>2, WFMin, Zenon
<1>4. \A n \in S : ~(n < m)
  BY <1>1, <1>3
<1> QED
  BY <1>4

\* g is the running sum of f up to sheet n.
SumsUpTo(f, n, g) ==
    /\ g \in [0 .. n -> Nat] /\ g[0] = 0
    /\ \A m \in 1 .. n : g[m] = g[m - 1] + f[m]

\* The recursion in SumTo.
RunningSum(f, g) ==
    g = [n \in 0 .. SheetCount |-> IF n = 0 THEN 0 ELSE g[n - 1] + f[n]]

\* The loop over the sheets has a result: no sheet is the first without one.
LEMMA SumExists ==
    ASSUME NEW f \in [Sheets -> Nat]
    PROVE  \E g : SumsUpTo(f, SheetCount, g)
<1>1. PICK S : S = {n \in 0 .. SheetCount : ~\E g : SumsUpTo(f, n, g)}
  OBVIOUS
<1>2. S \in SUBSET Nat /\ SheetCount \in 0 .. SheetCount
  BY <1>1, SheetAssumption
<1>3. SUFFICES ASSUME S # {} PROVE FALSE
  BY <1>1, <1>2
<1>4. PICK m \in S : \A n \in S : m <= n
  BY <1>2, <1>3, LeastNatural
<1>5. m \in 0 .. SheetCount /\ ~\E g : SumsUpTo(f, m, g)
  BY <1>1, <1>4
<1>6. m # 0
  <2>1. PICK g : g = [i \in 0 .. 0 |-> 0]
    OBVIOUS
  <2>2. g \in [0 .. 0 -> Nat] /\ g[0] = 0 /\ \A i \in 1 .. 0 : FALSE
    BY <2>1
  <2>3. SumsUpTo(f, 0, g)
    BY <2>2 DEF SumsUpTo
  <2> QED
    BY <1>5, <2>3
<1>7. m - 1 \in 0 .. SheetCount /\ ~(m <= m - 1) /\ m \in 1 .. SheetCount
  BY <1>5, <1>6, SheetAssumption
<1>8. PICK g : SumsUpTo(f, m - 1, g)
  BY <1>1, <1>4, <1>7
<1>9. /\ g \in [0 .. (m - 1) -> Nat] /\ g[0] = 0 /\ f[m] \in Nat
      /\ \A i \in 1 .. (m - 1) : g[i] = g[i - 1] + f[i]
  BY <1>7, <1>8 DEF SumsUpTo, Sheets
<1>10. PICK h : h = [i \in 0 .. m |-> IF i = m THEN g[m - 1] + f[m] ELSE g[i]]
  OBVIOUS
<1>11. m \in Nat /\ m - 1 \in 0 .. (m - 1) /\ \A i \in 0 .. m : i # m => i \in 0 .. (m - 1)
  BY <1>7
<1>12. g[m - 1] \in Nat
  BY <1>9, <1>11
<1>13. h \in [0 .. m -> Nat]
  BY <1>9, <1>10, <1>11, <1>12
<1>14. h[0] = 0
  BY <1>6, <1>9, <1>10, <1>11
<1>15. ASSUME NEW i \in 1 .. m PROVE h[i] = h[i - 1] + f[i]
  <2>1. i \in 0 .. m /\ i - 1 \in 0 .. m /\ i - 1 # m /\ (i # m => i \in 1 .. (m - 1))
    BY <1>11
  <2>2. h[i - 1] = g[i - 1]
    BY <1>10, <2>1
  <2>3. CASE i = m
    BY <1>10, <2>1, <2>2, <2>3
  <2>4. CASE i # m
    BY <1>9, <1>10, <2>1, <2>2, <2>4
  <2> QED
    BY <2>3, <2>4
<1>16. SumsUpTo(f, m, h)
  BY <1>13, <1>14, <1>15 DEF SumsUpTo
<1> QED
  BY <1>5, <1>16

\* The result is the one that SumTo names.
LEMMA SumToRuns ==
    ASSUME NEW f \in [Sheets -> Nat]
    PROVE  \E g : SumsUpTo(f, SheetCount, g) /\ SumTo(f) = g[SheetCount]
<1>1. PICK h : SumsUpTo(f, SheetCount, h)
  BY SumExists
<1>2. RunningSum(f, h)
  <2>1. h \in [0 .. SheetCount -> Nat]
    BY <1>1 DEF SumsUpTo
  <2>2. ASSUME NEW n \in 0 .. SheetCount
        PROVE  h[n] = IF n = 0 THEN 0 ELSE h[n - 1] + f[n]
    <3>1. n # 0 => n \in 1 .. SheetCount
      BY SheetAssumption
    <3> QED
      BY <1>1, <3>1 DEF SumsUpTo
  <2> QED
    BY <2>1, <2>2 DEF RunningSum
<1>3. PICK g : g = CHOOSE x : RunningSum(f, x)
  OBVIOUS
<1>4. RunningSum(f, g)
  BY <1>2, <1>3
<1>5. SumTo(f) = g[SheetCount]
  BY <1>3 DEF SumTo, RunningSum
<1>6. SumsUpTo(f, SheetCount, g)
  <2>1. /\ DOMAIN g = 0 .. SheetCount /\ g[0] = 0
        /\ g = [n \in 0 .. SheetCount |-> g[n]]
        /\ \A m \in 1 .. SheetCount : g[m] = g[m - 1] + f[m]
    <3>1. DOMAIN g = 0 .. SheetCount
      BY <1>4 DEF RunningSum
    <3>2. \A n \in 0 .. SheetCount : g[n] = IF n = 0 THEN 0 ELSE g[n - 1] + f[n]
      BY <1>4 DEF RunningSum
    <3>3. 0 \in 0 .. SheetCount /\ \A m \in 1 .. SheetCount : m \in 0 .. SheetCount /\ m # 0
      BY SheetAssumption
    <3>4. g = [n \in 0 .. SheetCount |-> g[n]]
      BY <1>4 DEF RunningSum
    <3> QED
      BY <3>1, <3>2, <3>3, <3>4
  <2>2. \A n \in 0 .. SheetCount : g[n] = h[n]
    <3>1. PICK S : S = {n \in 0 .. SheetCount : g[n] # h[n]}
      OBVIOUS
    <3>2. SUFFICES ASSUME S # {} PROVE FALSE
      BY <3>1
    <3>3. S \in SUBSET Nat
      BY <3>1
    <3>4. PICK m \in S : \A n \in S : m <= n
      BY <3>2, <3>3, LeastNatural
    <3>5. m \in 0 .. SheetCount /\ g[m] # h[m]
      BY <3>1, <3>4
    <3>6. m # 0
      BY <1>1, <2>1, <3>5 DEF SumsUpTo
    <3>7. m - 1 \in 0 .. SheetCount /\ ~(m <= m - 1) /\ m \in 1 .. SheetCount
      BY <3>5, <3>6, SheetAssumption
    <3>8. g[m - 1] = h[m - 1]
      BY <3>1, <3>4, <3>7
    <3> QED
      BY <1>1, <2>1, <3>5, <3>7, <3>8 DEF SumsUpTo
  <2>3. g = h
    <3>1. h = [n \in 0 .. SheetCount |-> h[n]]
      BY <1>1 DEF SumsUpTo
    <3> QED
      BY <2>1, <2>2, <3>1
  <2> QED
    BY <1>1, <2>3
<1> QED
  BY <1>5, <1>6

\* Adding n to the count of one sheet adds n to the sum.
LEMMA SumToAdds ==
    ASSUME NEW f \in [Sheets -> Nat], NEW s \in Sheets, NEW n \in Nat,
           NEW e, e = [f EXCEPT ![s] = f[s] + n]
    PROVE  SumTo(f) \in Nat /\ SumTo(e) = SumTo(f) + n
<1>1. /\ e \in [Sheets -> Nat] /\ e[s] = f[s] + n /\ f[s] \in Nat
      /\ \A r \in Sheets : r # s => e[r] = f[r]
  OBVIOUS
<1>2. PICK g : SumsUpTo(f, SheetCount, g) /\ SumTo(f) = g[SheetCount]
  BY SumToRuns
<1>3. PICK h : SumsUpTo(e, SheetCount, h) /\ SumTo(e) = h[SheetCount]
  BY <1>1, SumToRuns
<1>4. /\ g \in [0 .. SheetCount -> Nat] /\ g[0] = 0
      /\ \A m \in 1 .. SheetCount : g[m] = g[m - 1] + f[m]
      /\ h \in [0 .. SheetCount -> Nat] /\ h[0] = 0
      /\ \A m \in 1 .. SheetCount : h[m] = h[m - 1] + e[m]
  BY <1>2, <1>3 DEF SumsUpTo
<1>5. SheetCount \in Nat /\ s \in 1 .. SheetCount /\ SheetCount \in 0 .. SheetCount
  BY SheetAssumption DEF Sheets
<1>6. PICK S : S = {m \in 0 .. SheetCount : h[m] # g[m] + (IF m < s THEN 0 ELSE n)}
  OBVIOUS
<1>7. S = {}
  <2> SUFFICES ASSUME S # {} PROVE FALSE
    OBVIOUS
  <2>1. S \in SUBSET Nat
    BY <1>6
  <2>2. PICK m \in S : \A i \in S : m <= i
    BY <2>1, LeastNatural
  <2>3. m \in 0 .. SheetCount /\ h[m] # g[m] + (IF m < s THEN 0 ELSE n)
    BY <1>6, <2>2
  <2>4. m # 0
    BY <1>4, <1>5, <2>3
  <2>5. m - 1 \in 0 .. SheetCount /\ ~(m <= m - 1) /\ m \in 1 .. SheetCount
    BY <1>5, <2>3, <2>4
  <2>6. h[m - 1] = g[m - 1] + (IF m - 1 < s THEN 0 ELSE n)
    BY <1>6, <2>2, <2>5
  <2>7. h[m] = h[m - 1] + e[m] /\ g[m] = g[m - 1] + f[m]
    BY <1>4, <2>5
  <2>8. m \in Sheets /\ f[m] \in Nat /\ g[m - 1] \in Nat
    BY <1>4, <2>5 DEF Sheets
  <2>9. CASE m = s
    BY <1>1, <1>5, <2>3, <2>5, <2>6, <2>7, <2>8, <2>9
  <2>10. CASE m # s
    <3>1. e[m] = f[m] /\ (m < s <=> m - 1 < s)
      BY <1>1, <1>5, <2>5, <2>8, <2>10
    <3> QED
      BY <2>3, <2>6, <2>7, <2>8, <3>1
  <2> QED
    BY <2>9, <2>10
<1>8. h[SheetCount] = g[SheetCount] + n
  <2>1. ~(SheetCount < s)
    BY <1>5
  <2> QED
    BY <1>5, <1>6, <1>7, <2>1
<1> QED
  BY <1>2, <1>3, <1>4, <1>5, <1>8

\* Before the first batch there is nothing to add.
LEMMA SumToZeros == SumTo(Zeros) = 0
<1>1. Zeros \in [Sheets -> Nat] /\ \A s \in Sheets : Zeros[s] = 0
  BY DEF Zeros
<1>2. PICK g : SumsUpTo(Zeros, SheetCount, g) /\ SumTo(Zeros) = g[SheetCount]
  BY <1>1, SumToRuns
<1>3. /\ g \in [0 .. SheetCount -> Nat] /\ g[0] = 0
      /\ \A m \in 1 .. SheetCount : g[m] = g[m - 1] + Zeros[m]
  BY <1>2 DEF SumsUpTo
<1>4. PICK S : S = {m \in 0 .. SheetCount : g[m] # 0}
  OBVIOUS
<1>5. S = {}
  <2> SUFFICES ASSUME S # {} PROVE FALSE
    OBVIOUS
  <2>1. S \in SUBSET Nat
    BY <1>4
  <2>2. PICK m \in S : \A i \in S : m <= i
    BY <2>1, LeastNatural
  <2>3. m \in 0 .. SheetCount /\ g[m] # 0 /\ m # 0
    BY <1>3, <1>4, <2>2
  <2>4. m - 1 \in 0 .. SheetCount /\ ~(m <= m - 1) /\ m \in 1 .. SheetCount
    BY <2>3, SheetAssumption
  <2>5. g[m - 1] = 0 /\ Zeros[m] = 0 /\ g[m] = g[m - 1] + Zeros[m]
    BY <1>1, <1>3, <1>4, <2>2, <2>4 DEF Sheets
  <2> QED
    BY <2>3, <2>5
<1> QED
  BY <1>2, <1>4, <1>5, SheetAssumption

----------------------------------------------------------------------------
(* The counters, and what the lease holder knows of them *)

\* What a call of Stage knows: the claim it was given was in order, the import was
\* not staged yet when it went on, and no checkpoint is past the end of its sheet.
\* If the call still owns the import, the totals it remembers are those of the row.
Knows(w, j) ==
    /\ j.step = "claimed" => ValidClaim(j)
    /\ j.step \in {"verified"} \cup Running => ~j.stagedAt
    /\ j.step \in Running => \A s \in Sheets : j.base[s] <= RowsIn[s]
    /\ imp.owner = w =>
         /\ j.step \in {"claimed", "verified"} => j.snapTotal = imp.rowsTotal
         /\ j.step \in {"claimed", "verified"} \cup Running => j.stagedAt = imp.stagedAt
         /\ j.step \in {"open", "parse", "sheets"} => j.total = imp.rowsTotal

\* Beside IInv this is inductive.
CountersInv ==
    /\ CountersAgree
    /\ \A s \in Sheets : SheetCheckpointOK(sheet[s])
    /\ imp.status = "processing" => imp.phase # "null"
    /\ \A w \in Worker : Knows(w, job[w])

\* A step that changes only the locals of one call.
LEMMA LocalKnows ==
    ASSUME IInv, CountersInv, NEW w \in Worker, NEW j, Become(w, j),
           UNCHANGED <<imp, sheet>>, Knows(w, j)
    PROVE  CountersInv'
<1>1. \A v \in Worker : job'[v] = IF v = w THEN j ELSE job[v]
  BY BecomeValue DEF IInv
<1>2. imp' = imp /\ sheet' = sheet
  OBVIOUS
<1>3. CountersAgree' /\ \A s \in Sheets : SheetCheckpointOK(sheet'[s])
  <2>1. StagedCounts' = StagedCounts
    BY <1>2 DEF StagedCounts
  <2> QED
    BY <1>2, <2>1 DEF CountersInv, CountersAgree
<1>4. (\A v \in Worker : Knows(v, job[v]))'
  BY <1>1, <1>2 DEF CountersInv, Knows
<1> QED
  BY <1>2, <1>3, <1>4 DEF CountersInv

\* A database step of worker w, which owns the import afterwards.
LEMMA OwnerKnows ==
    ASSUME IInv, CountersInv, NEW w \in Worker, NEW j, Become(w, j),
           imp'.owner = w, imp'.phase # "null", CountersAgree',
           \A s \in Sheets : SheetCheckpointOK(sheet'[s]), Knows(w, j)'
    PROVE  CountersInv'
<1>1. \A v \in Worker : job'[v] = IF v = w THEN j ELSE job[v]
  BY BecomeValue DEF IInv
<1>2. \A v \in Worker : v # w => imp'.owner # v
  OBVIOUS
<1>3. (\A v \in Worker : Knows(v, job[v]))'
  BY <1>1, <1>2 DEF CountersInv, Knows
<1> QED
  BY <1>3 DEF CountersInv

\* Every error return leaves the counters alone.
LEMMA ReturnKnows ==
    ASSUME IInv, CountersInv, NEW w \in Worker, NEW o, Return(w, o),
           UNCHANGED <<imp, sheet>>
    PROVE  CountersInv'
<1>1. PICK j : j = IdleJob(o)
  OBVIOUS
<1>2. j.step = "idle"
  BY <1>1 DEF IdleJob
<1>3. Knows(w, j)
  BY <1>2 DEF Knows, Running
<1> QED
  BY <1>1, <1>3, LocalKnows DEF Return

\* What the invariants say of the call of w.
LEMMA CallFacts ==
    ASSUME IInv, CountersInv, NEW w \in Worker
    PROVE  /\ job[w] \in Job /\ LoopInv(job[w]) /\ Holds(w, job[w])
           /\ SourceOf(job[w]) /\ Knows(w, job[w]) /\ imp \in ImportRow
           /\ SourceLifetime /\ DatabaseInv
BY DEF IInv, CountersInv, TypeOK, HolderInv, SourceInv

\* The call of Stage that Snapshot starts.
ClaimedJob(ph) ==
    [IdleJob("none") EXCEPT !.step = "claimed", !.phase = ph,
       !.snapTotal = imp.rowsTotal, !.stagedAt = imp.stagedAt, !.token = imp.token]

\* A claim that is handed out passes validateStagingImport.
LEMMA ClaimIsValid ==
    ASSUME IInv, CountersInv, NEW ph, NEW w \in Worker, NEW j, j = ClaimedJob(ph),
           imp.phase # "null" => ph = imp.phase,
           imp.phase = "null" => ph = "parsing"
    PROVE  /\ j.step = "claimed" /\ j.snapTotal = imp.rowsTotal
           /\ j.stagedAt = imp.stagedAt /\ ValidClaim(j) /\ j.outcome = "none"
<1>1. /\ j.step = "claimed" /\ j.snapTotal = imp.rowsTotal
      /\ j.stagedAt = imp.stagedAt /\ j.phase = ph /\ j.token = imp.token
      /\ j.outcome = "none"
  BY DEF ClaimedJob, IdleJob
<1>2. /\ imp.phase \in Phases /\ (imp.phase = "validating" <=> imp.stagedAt)
      /\ ~imp.stagedAt => imp.token
  BY CallFacts DEF ImportRow, DatabaseInv, SourceLifetime
<1> QED
  BY <1>1, <1>2 DEF ValidClaim, Phases

\* The batch transaction moves the total and the checkpoint by the same amount.
LEMMA FlushKnows ==
    ASSUME IInv, CountersInv, NEW w \in Worker, NEW d \in 0 .. MaxDelay,
           job[w].step = "parse", FlushDue(job[w]), FlushCommit(w, d)
    PROVE  CountersInv'
<1>1. PICK j, s, n, c, k : /\ j = job[w] /\ s = j.cur /\ n = Len(j.pending)
                           /\ c = j.committed[s] /\ k = AfterCommit(j)
  OBVIOUS
<1>2. /\ s \in Sheets /\ n \in Nat /\ n > 0 /\ c \in Nat
      /\ imp.owner = w /\ imp.phase = "staging" /\ ~imp.stagedAt
      /\ j.committed = StagedCounts
      /\ c + n = j.seen[s] /\ c = sheet[s].staged
  BY <1>1, FlushFacts
<1>3. /\ j \in Job /\ Knows(w, j) /\ imp \in ImportRow /\ j.step = "parse"
      /\ sheet \in [Sheets -> SheetRow]
  BY <1>1, CallFacts DEF IInv, TypeOK
<1>4. /\ sheet' = [sheet EXCEPT ![s] = [found |-> j.seen[s],
                     staged |-> c + n, status |-> "parsing"]]
      /\ imp' = [imp EXCEPT !.rowsTotal = j.total + n, !.lease = Renewed(d)]
      /\ Become(w, k)
  BY <1>1 DEF FlushCommit
<1>5. /\ k.step = "parse" /\ k.base = j.base /\ k.stagedAt = j.stagedAt
      /\ k.total = j.total + n
  BY <1>1, <1>3 DEF AfterCommit, Job
<1>6. /\ imp'.owner = w /\ imp'.phase = "staging" /\ imp'.stagedAt = imp.stagedAt
      /\ imp'.rowsTotal = j.total + n
  BY <1>2, <1>3, <1>4 DEF ImportRow
<1>7. /\ sheet'[s] = [found |-> j.seen[s], staged |-> c + n, status |-> "parsing"]
      /\ \A r \in Sheets : r # s => sheet'[r] = sheet[r]
  BY <1>2, <1>3, <1>4
<1>8. CountersAgree'
  <2>1. PICK f, e : f = StagedCounts /\ e = [f EXCEPT ![s] = f[s] + n]
    OBVIOUS
  <2>2. f \in [Sheets -> Nat] /\ f[s] = c
    BY <1>2, <1>3, <2>1, StagedCountsType DEF StagedCounts
  <2>3. \A r \in Sheets : e[r] = sheet'[r].staged
    <3> SUFFICES ASSUME NEW r \in Sheets PROVE e[r] = sheet'[r].staged
      OBVIOUS
    <3>1. CASE r = s
      BY <1>2, <1>7, <2>1, <2>2, <3>1
    <3>2. CASE r # s
      BY <1>7, <2>1, <2>2, <3>2 DEF StagedCounts
    <3> QED
      BY <3>1, <3>2
  <2>4. e = StagedCounts'
    <3>1. e = [r \in Sheets |-> e[r]]
      BY <2>1, <2>2
    <3> QED
      BY <2>3, <3>1 DEF StagedCounts
  <2>5. SumTo(e) = SumTo(f) + n
    BY <1>2, <2>1, <2>2, SumToAdds
  <2>6. SumTo(f) = imp.rowsTotal /\ j.total = imp.rowsTotal
    BY <1>2, <1>3, <2>1 DEF CountersInv, CountersAgree, Knows
  <2> QED
    BY <1>6, <2>4, <2>5, <2>6 DEF CountersAgree
<1>9. SheetCheckpointOK(sheet'[s])
  BY <1>2, <1>7 DEF SheetCheckpointOK
<1>10. \A r \in Sheets : SheetCheckpointOK(sheet'[r])
  BY <1>7, <1>9 DEF CountersInv
<1>11. Knows(w, k)'
  BY <1>2, <1>3, <1>5, <1>6 DEF Knows, Running
<1> QED
  BY <1>4, <1>6, <1>8, <1>10, <1>11, OwnerKnows

\* Completing a sheet writes back the count that it has.
LEMMA CompleteSheetKnows ==
    ASSUME IInv, CountersInv, NEW w \in Worker, CompleteSheet(w), ~UNCHANGED sheet
    PROVE  CountersInv'
<1>1. PICK d, j, s, k :
        /\ j = job[w] /\ s = j.cur /\ k = [j EXCEPT !.cur = s + 1]
        /\ s \in Sheets /\ j.step = "sheets" /\ MayCompleteSheet(w, s, d)
        /\ sheet' = [sheet EXCEPT ![s] = [found |-> j.seen[s],
                       staged |-> j.committed[s], status |-> "staged"]]
        /\ Become(w, k) /\ imp' = imp
  BY DEF CompleteSheet, At
<1>2. /\ j \in Job /\ Knows(w, j) /\ LoopInv(j) /\ Holds(w, j) /\ imp \in ImportRow
      /\ sheet \in [Sheets -> SheetRow] /\ RowsIn[s] \in Nat
  BY <1>1, CallFacts, SheetAssumption DEF IInv, TypeOK
<1>3. imp.owner = w /\ imp.phase = "staging"
  BY <1>1 DEF MayCompleteSheet, HoldsLease
<1>4. /\ j.committed = StagedCounts /\ j.seen[s] = RowsIn[s] /\ j.committed[s] = RowsIn[s]
  BY <1>1, <1>2, <1>3 DEF Holds, LoopInv, Running
<1>5. k.step = "sheets" /\ k.base = j.base /\ k.stagedAt = j.stagedAt /\ k.total = j.total
  BY <1>1, <1>2 DEF Job
<1>6. /\ sheet'[s] = [found |-> RowsIn[s], staged |-> RowsIn[s], status |-> "staged"]
      /\ \A r \in Sheets : r # s => sheet'[r] = sheet[r]
  BY <1>1, <1>2, <1>4
<1>7. sheet[s].staged = RowsIn[s]
  BY <1>1, <1>4 DEF StagedCounts
<1>8. StagedCounts' = StagedCounts
  BY <1>6, <1>7 DEF StagedCounts
<1>9. CountersAgree'
  BY <1>1, <1>8 DEF CountersInv, CountersAgree
<1>10. SheetCheckpointOK(sheet'[s])
  BY <1>2, <1>6 DEF SheetCheckpointOK
<1>11. \A r \in Sheets : SheetCheckpointOK(sheet'[r])
  BY <1>6, <1>10 DEF CountersInv
<1>12. Knows(w, k)'
  BY <1>1, <1>2, <1>3, <1>5 DEF Knows, Running
<1> QED
  BY <1>1, <1>3, <1>9, <1>11, <1>12, OwnerKnows

\* Every statement of every worker keeps the counters in step.
LEMMA NextKnows == IInv /\ CountersInv /\ [Next]_vars => CountersInv'
<1> SUFFICES ASSUME IInv, CountersInv, [Next]_vars PROVE CountersInv'
  OBVIOUS
<1>1. ASSUME NEW w \in Worker, ClaimNextImport(w) \/ RetryStage(w) PROVE CountersInv'
  <2>0. PICK ph, j :
          /\ j = ClaimedJob(ph) /\ Snapshot(w, ph)
          /\ imp.phase # "null" => ph = imp.phase
          /\ imp.phase = "null" => ph = "parsing"
    <3>1. CASE ClaimNextImport(w)
      BY <3>1 DEF ClaimNextImport
    <3>2. CASE RetryStage(w)
      <4>1. imp.phase # "null" /\ Snapshot(w, imp.phase)
        BY <3>2 DEF RetryStage, CountersInv
      <4> QED
        BY <4>1
    <3> QED
      BY <1>1, <3>1, <3>2
  <2>1. Become(w, j)
    BY <2>0 DEF Snapshot, ClaimedJob
  <2>2. /\ j.step = "claimed" /\ j.snapTotal = imp.rowsTotal
        /\ j.stagedAt = imp.stagedAt /\ ValidClaim(j)
    BY <2>0, ClaimIsValid
  <2>3. CASE RetryStage(w)
    <3>1. Knows(w, j)
      BY <2>2 DEF Knows, Running
    <3> QED
      BY <2>1, <2>3, <3>1, LocalKnows DEF RetryStage
  <2>4. CASE ClaimNextImport(w)
    <3>1. /\ imp'.owner = w /\ imp'.stagedAt = imp.stagedAt
          /\ imp'.rowsTotal = imp.rowsTotal /\ imp'.phase # "null" /\ sheet' = sheet
      BY <2>4, CallFacts DEF ClaimNextImport, ImportRow
    <3>2. StagedCounts' = StagedCounts
      BY <3>1 DEF StagedCounts
    <3>3. CountersAgree' /\ \A s \in Sheets : SheetCheckpointOK(sheet'[s])
      BY <3>1, <3>2 DEF CountersInv, CountersAgree
    <3>4. Knows(w, j)'
      BY <2>2, <3>1 DEF Knows, Running
    <3> QED
      BY <2>1, <3>1, <3>3, <3>4, OwnerKnows
  <2> QED
    BY <1>1, <2>3, <2>4
<1>2. ASSUME NEW w \in Worker, VerifySource(w) PROVE CountersInv'
  <2>1. /\ job[w] \in Job /\ Knows(w, job[w])
        /\ UNCHANGED <<imp, sheet>> /\ job[w].step = "claimed"
    BY <1>2, CallFacts DEF VerifySource, At
  <2>2. CASE \E o \in Outcomes : Return(w, o)
    BY <2>1, <2>2, ReturnKnows
  <2>3. CASE Goto(w, "delete")
    <3>1. PICK j : j = [job[w] EXCEPT !.step = "delete"] /\ Become(w, j)
      BY <2>3 DEF Goto
    <3>2. j.step = "delete"
      BY <2>1, <3>1 DEF Job
    <3>3. Knows(w, j)
      BY <3>2 DEF Knows, Running
    <3> QED
      BY <2>1, <3>1, <3>3, LocalKnows
  <2>4. CASE ~job[w].stagedAt /\ Goto(w, "verified")
    <3>1. PICK j : j = [job[w] EXCEPT !.step = "verified"] /\ Become(w, j)
      BY <2>4 DEF Goto
    <3>2. /\ j.step = "verified" /\ j.stagedAt = job[w].stagedAt
          /\ j.snapTotal = job[w].snapTotal
      BY <2>1, <3>1 DEF Job
    <3>3. Knows(w, j)
      BY <2>1, <2>4, <3>2 DEF Knows, Running
    <3> QED
      BY <2>1, <3>1, <3>3, LocalKnows
  <2> QED
    BY <1>2, <2>2, <2>3, <2>4 DEF VerifySource, Outcomes
<1>3. ASSUME NEW w \in Worker, LoadStagingSheets(w) PROVE CountersInv'
  <2>1. /\ job[w] \in Job /\ Knows(w, job[w])
        /\ UNCHANGED <<imp, sheet>> /\ job[w].step = "verified"
    BY <1>3, CallFacts DEF LoadStagingSheets, At
  <2>2. CASE Return(w, "staging_checkpoint_corrupt")
    BY <2>1, <2>2, ReturnKnows
  <2>3. CASE ~Return(w, "staging_checkpoint_corrupt")
    <3>1. PICK j : /\ j = [job[w] EXCEPT !.step = "loaded", !.base = StagedCounts,
                                         !.committed = StagedCounts]
                   /\ Become(w, j)
      BY <1>3, <2>3 DEF LoadStagingSheets
    <3>2. /\ j.step = "loaded" /\ j.stagedAt = job[w].stagedAt /\ j.base = StagedCounts
      BY <2>1, <3>1 DEF Job
    <3>3. \A s \in Sheets : StagedCounts[s] <= RowsIn[s]
      BY DEF IInv, DatabaseInv, StagedCounts
    <3>4. Knows(w, j)
      BY <2>1, <3>2, <3>3 DEF Knows, Running
    <3> QED
      BY <2>1, <3>1, <3>4, LocalKnows
  <2> QED
    BY <2>2, <2>3
<1>4. ASSUME NEW w \in Worker, StartImportStaging(w) PROVE CountersInv'
  <2>1. /\ job[w] \in Job /\ Knows(w, job[w]) /\ imp \in ImportRow
        /\ sheet' = sheet /\ job[w].step = "loaded"
    BY <1>4, CallFacts DEF StartImportStaging, At
  <2>2. CASE Return(w, "lease_lost") /\ imp' = imp
    BY <2>1, <2>2, ReturnKnows
  <2>3. CASE ~(Return(w, "lease_lost") /\ imp' = imp)
    <3>0. PICK d \in 0 .. MaxDelay :
            /\ MayStart(w, d)
            /\ imp' = [imp EXCEPT !.phase = "staging", !.lease = Renewed(d)]
            /\ Become(w, [job[w] EXCEPT !.step = "open", !.total = imp.rowsTotal])
      BY <1>4, <2>3 DEF StartImportStaging
    <3>1. PICK j : /\ j = [job[w] EXCEPT !.step = "open", !.total = imp.rowsTotal]
                   /\ Become(w, j)
      BY <3>0
    <3>2. /\ j.step = "open" /\ j.stagedAt = job[w].stagedAt
          /\ j.base = job[w].base /\ j.total = imp.rowsTotal
      BY <2>1, <3>1 DEF Job
    <3>3. /\ imp.owner = w /\ imp'.owner = w /\ imp'.stagedAt = imp.stagedAt
          /\ imp'.rowsTotal = imp.rowsTotal /\ imp'.phase # "null"
      BY <2>1, <3>0 DEF MayStart, HoldsLease, ImportRow
    <3>4. StagedCounts' = StagedCounts
      BY <2>1 DEF StagedCounts
    <3>5. CountersAgree' /\ \A s \in Sheets : SheetCheckpointOK(sheet'[s])
      BY <2>1, <3>3, <3>4 DEF CountersInv, CountersAgree
    <3>6. Knows(w, j)'
      BY <2>1, <3>2, <3>3 DEF Knows, Running
    <3> QED
      BY <3>1, <3>3, <3>5, <3>6, OwnerKnows
  <2> QED
    BY <2>2, <2>3
<1>5. ASSUME NEW w \in Worker, OpenSource(w) \/ ParseRow(w) \/ ParseEOF(w)
      PROVE  CountersInv'
  <2>1. /\ job[w] \in Job /\ Knows(w, job[w]) /\ UNCHANGED <<imp, sheet>>
        /\ job[w].step \in {"open", "parse"}
    BY <1>5, CallFacts DEF OpenSource, ParseRow, ParseEOF, At
  <2>2. CASE Return(w, "staging_failed")
    BY <2>1, <2>2, ReturnKnows
  <2>3. CASE ~Return(w, "staging_failed")
    <3>1. PICK j : /\ Become(w, j) /\ j.step \in {"parse", "sheets"}
                   /\ j.base = job[w].base /\ j.stagedAt = job[w].stagedAt
                   /\ j.total = job[w].total
      <4>1. CASE OpenSource(w)
        <5>1. PICK j : j = [job[w] EXCEPT !.step = "parse"] /\ Become(w, j)
          BY <2>3, <4>1 DEF OpenSource, Goto
        <5>2. /\ j.step = "parse" /\ j.base = job[w].base
              /\ j.stagedAt = job[w].stagedAt /\ j.total = job[w].total
          BY <2>1, <5>1 DEF Job
        <5> QED
          BY <5>1, <5>2
      <4>2. CASE ParseRow(w)
        <5>1. PICK j, s : j = AfterRow(job[w], s) /\ Become(w, j) /\ job[w].step = "parse"
          BY <4>2 DEF ParseRow, At
        <5>2. /\ j.step = "parse" /\ j.base = job[w].base
              /\ j.stagedAt = job[w].stagedAt /\ j.total = job[w].total
          BY <2>1, <5>1 DEF AfterRow, Job
        <5> QED
          BY <5>1, <5>2
      <4>3. CASE ParseEOF(w)
        <5>1. PICK j : j = [job[w] EXCEPT !.step = "sheets", !.cur = 1] /\ Become(w, j)
          BY <4>3 DEF ParseEOF
        <5>2. /\ j.step = "sheets" /\ j.base = job[w].base
              /\ j.stagedAt = job[w].stagedAt /\ j.total = job[w].total
          BY <2>1, <5>1 DEF Job
        <5> QED
          BY <5>1, <5>2
      <4> QED
        BY <1>5, <4>1, <4>2, <4>3
    <3>2. Knows(w, j)
      BY <2>1, <3>1 DEF Knows, Running
    <3> QED
      BY <2>1, <3>1, <3>2, LocalKnows
  <2> QED
    BY <2>2, <2>3
<1>6. ASSUME NEW w \in Worker, FlushBatch(w) PROVE CountersInv'
  <2>1. PICK d \in 0 .. MaxDelay : FlushCommit(w, d) \/ FlushRollback(w, d)
    BY <1>6 DEF FlushBatch
  <2>2. CASE FlushCommit(w, d)
    BY <1>6, <2>2, FlushKnows DEF FlushBatch, At
  <2>3. CASE FlushRollback(w, d)
    BY <2>3, ReturnKnows DEF FlushRollback, dbVars
  <2> QED
    BY <2>1, <2>2, <2>3
<1>7. ASSUME NEW w \in Worker, CompleteSheet(w) PROVE CountersInv'
  <2>1. CASE UNCHANGED sheet
    <3>1. CASE \E o \in Outcomes : Return(w, o)
      BY <1>7, <2>1, <3>1, ReturnKnows DEF CompleteSheet
    <3>2. CASE ~\E o \in Outcomes : Return(w, o)
      <4>1. PICK j : /\ j = [job[w] EXCEPT !.cur = job[w].cur + 1] /\ Become(w, j)
                     /\ UNCHANGED imp
        BY <1>7, <3>2 DEF CompleteSheet, Outcomes
      <4>2. job[w] \in Job /\ Knows(w, job[w]) /\ job[w].step = "sheets"
        BY <1>7, CallFacts DEF CompleteSheet, At
      <4>3. /\ j.step = "sheets" /\ j.base = job[w].base
            /\ j.stagedAt = job[w].stagedAt /\ j.total = job[w].total
        BY <4>1, <4>2 DEF Job
      <4>4. Knows(w, j)
        BY <4>2, <4>3 DEF Knows, Running
      <4> QED
        BY <2>1, <4>1, <4>4, LocalKnows
    <3> QED
      BY <3>1, <3>2
  <2>2. CASE ~UNCHANGED sheet
    BY <1>7, <2>2, CompleteSheetKnows
  <2> QED
    BY <2>1, <2>2
<1>8. ASSUME NEW w \in Worker, CompleteImportStaging(w) PROVE CountersInv'
  <2>1. /\ job[w] \in Job /\ Knows(w, job[w]) /\ imp \in ImportRow
        /\ sheet' = sheet /\ job[w].step = "sheets"
    BY <1>8, CallFacts DEF CompleteImportStaging, At
  <2>2. CASE Return(w, "lease_lost") /\ imp' = imp
    BY <2>1, <2>2, ReturnKnows
  <2>3. CASE ~(Return(w, "lease_lost") /\ imp' = imp)
    <3>1. PICK d \in 0 .. MaxDelay :
            /\ MayFinish(w, d)
            /\ imp' = [imp EXCEPT !.phase = "validating", !.stagedAt = TRUE,
                         !.rowsTotal = job[w].total, !.lease = Renewed(d)]
            /\ Goto(w, "delete") \/ Return(w, "ok")
      BY <1>8, <2>3 DEF CompleteImportStaging
    <3>2. imp.owner = w
      BY <3>1 DEF MayFinish, HoldsLease
    <3>3. imp'.owner = w /\ imp'.phase # "null" /\ imp'.rowsTotal = imp.rowsTotal
      BY <2>1, <3>1, <3>2 DEF ImportRow, Knows
    <3>4. StagedCounts' = StagedCounts
      BY <2>1 DEF StagedCounts
    <3>5. CountersAgree' /\ \A s \in Sheets : SheetCheckpointOK(sheet'[s])
      BY <2>1, <3>3, <3>4 DEF CountersInv, CountersAgree
    <3>6. PICK j : Become(w, j) /\ j.step \in {"delete", "idle"}
      BY <2>1, <3>1 DEF Goto, Return, IdleJob, Job
    <3>7. Knows(w, j)'
      BY <3>6 DEF Knows, Running
    <3> QED
      BY <3>3, <3>5, <3>6, <3>7, OwnerKnows
  <2> QED
    BY <2>2, <2>3
<1>9. ASSUME NEW w \in Worker, DeleteSource(w) PROVE CountersInv'
  <2>1. job[w] \in Job /\ UNCHANGED <<imp, sheet>>
    BY <1>9, CallFacts DEF DeleteSource, dbVars
  <2>2. PICK j : j = [job[w] EXCEPT !.step = "clear"] /\ Become(w, j)
    BY <1>9 DEF DeleteSource, Goto
  <2>3. j.step = "clear"
    BY <2>1, <2>2 DEF Job
  <2>4. Knows(w, j)
    BY <2>3 DEF Knows, Running
  <2> QED
    BY <2>1, <2>2, <2>4, LocalKnows
<1>10. ASSUME NEW w \in Worker, ClearImportTempFile(w) PROVE CountersInv'
  <2>1. CASE UNCHANGED imp
    BY <1>10, <2>1, ReturnKnows DEF ClearImportTempFile
  <2>2. CASE ~UNCHANGED imp
    <3>1. PICK d : /\ MayClear(w, d) /\ Return(w, "ok") /\ sheet' = sheet
                   /\ imp' = [imp EXCEPT !.token = FALSE]
      BY <1>10, <2>2 DEF ClearImportTempFile
    <3>2. /\ imp'.owner = w /\ imp'.phase # "null" /\ imp'.rowsTotal = imp.rowsTotal
      BY <3>1, CallFacts DEF MayClear, HoldsLease, ImportRow
    <3>3. StagedCounts' = StagedCounts
      BY <3>1 DEF StagedCounts
    <3>4. CountersAgree' /\ \A s \in Sheets : SheetCheckpointOK(sheet'[s])
      BY <3>1, <3>2, <3>3 DEF CountersInv, CountersAgree
    <3>5. PICK j : Become(w, j) /\ j.step = "idle"
      BY <3>1 DEF Return, IdleJob
    <3>6. Knows(w, j)'
      BY <3>5 DEF Knows, Running
    <3> QED
      BY <3>2, <3>4, <3>5, <3>6, OwnerKnows
  <2> QED
    BY <2>1, <2>2
<1>11. ASSUME NEW w \in Worker, Interrupt(w) PROVE CountersInv'
  BY <1>11, ReturnKnows DEF Interrupt
<1>12. ASSUME Tick \/ SourceExpires \/ UNCHANGED vars PROVE CountersInv'
  <2>1. /\ imp'.owner = imp.owner /\ imp'.stagedAt = imp.stagedAt
        /\ imp'.rowsTotal = imp.rowsTotal /\ imp'.phase = imp.phase
        /\ imp'.status = imp.status /\ sheet' = sheet /\ job' = job
    BY <1>12 DEF Tick, SourceExpires, vars, IInv, TypeOK, ImportRow
  <2>2. StagedCounts' = StagedCounts
    BY <2>1 DEF StagedCounts
  <2>3. CountersAgree' /\ \A s \in Sheets : SheetCheckpointOK(sheet'[s])
    BY <2>1, <2>2 DEF CountersInv, CountersAgree
  <2>4. (\A w \in Worker : Knows(w, job[w]))'
    BY <2>1 DEF CountersInv, Knows
  <2> QED
    BY <2>1, <2>3, <2>4 DEF CountersInv
<1> QED
  BY <1>1, <1>2, <1>3, <1>4, <1>5, <1>6, <1>7, <1>8, <1>9, <1>10, <1>11, <1>12
     DEF Next, WorkerStep

\* The counters are in step in every state of every behaviour.
LEMMA CountersInvariance == Spec => []CountersInv
<1>1. Init => CountersInv
  <2> SUFFICES ASSUME Init PROVE CountersInv
    OBVIOUS
  <2>1. StagedCounts = Zeros
    BY DEF Init, StagedCounts, Zeros
  <2>2. CountersAgree
    BY <2>1, SumToZeros DEF Init, CountersAgree
  <2>3. ASSUME NEW w \in Worker PROVE Knows(w, job[w])
    <3>1. job[w] = IdleJob("none")
      BY DEF Init
    <3>2. job[w].step = "idle"
      BY <3>1 DEF IdleJob
    <3> QED
      BY <3>2 DEF Knows, Running
  <2>4. \A s \in Sheets : SheetCheckpointOK(sheet[s])
    BY DEF Init, SheetCheckpointOK
  <2> QED
    BY <2>2, <2>3, <2>4 DEF Init, CountersInv
<1>2. IInv /\ CountersInv /\ [Next]_vars => CountersInv'
  BY NextKnows
<1> QED
  BY <1>1, <1>2, Invariance, PTL DEF Spec

\* rows_total is the sum of the checkpoints, and what the lease holder is going to
\* write back is what the database says (flushBatch, Stage).
THEOREM CountersSafety == Spec => []CountersAreCurrent
<1>1. IInv /\ CountersInv => CountersAreCurrent
  <2> SUFFICES ASSUME IInv, CountersInv PROVE CountersAreCurrent
    OBVIOUS
  <2>1. HolderIsCurrent
    BY CallFacts DEF HolderIsCurrent, Holds, Knows, Running
  <2> QED
    BY <2>1 DEF CountersInv, CountersAreCurrent
<1> QED
  BY <1>1, Invariance, CountersInvariance, PTL

----------------------------------------------------------------------------
(* What a step of a worker may not do *)

\* Every worker step sets the locals of that worker only.
LEMMA OnlyOwnLocals ==
    ASSUME TypeOK, NEW w \in Worker, WorkerStep(w) \/ RetryStage(w) \/ Interrupt(w)
    PROVE  \E j : Become(w, j)
BY DEF WorkerStep, RetryStage, Interrupt, ClaimNextImport, VerifySource,
       LoadStagingSheets, StartImportStaging, OpenSource, ParseRow, FlushBatch,
       FlushCommit, FlushRollback, ParseEOF, CompleteSheet, CompleteImportStaging,
       DeleteSource, ClearImportTempFile, Snapshot, Goto, Return

\* A worker without the lease that does not take it writes nothing.
LEMMA StrangerWritesNothing ==
    ASSUME TypeOK, NEW w \in Worker, WorkerStep(w) \/ RetryStage(w) \/ Interrupt(w),
           imp.owner # w, imp'.owner # w
    PROVE  UNCHANGED dbVars
<1>1. \A d : ~HoldsLease(w, d)
  BY DEF HoldsLease
<1>2. ~ClaimNextImport(w)
  <2> SUFFICES ASSUME ClaimNextImport(w) PROVE imp'.owner = w
    OBVIOUS
  <2> QED
    BY DEF ClaimNextImport, TypeOK, ImportRow
<1>3. CASE FlushBatch(w)
  BY <1>1, <1>3 DEF FlushBatch, FlushCommit, FlushRollback, MayFlush, dbVars
<1>4. CASE StartImportStaging(w) \/ CompleteSheet(w) \/ CompleteImportStaging(w)
           \/ ClearImportTempFile(w)
  BY <1>1, <1>4 DEF StartImportStaging, CompleteSheet, CompleteImportStaging,
     ClearImportTempFile, MayStart, MayCompleteSheet, MayFinish, MayClear, dbVars
<1>5. CASE RetryStage(w) \/ Interrupt(w) \/ VerifySource(w) \/ LoadStagingSheets(w)
           \/ OpenSource(w) \/ ParseRow(w) \/ ParseEOF(w) \/ DeleteSource(w)
  BY <1>5 DEF RetryStage, Interrupt, VerifySource, LoadStagingSheets, OpenSource,
     ParseRow, ParseEOF, DeleteSource, dbVars
<1> QED
  BY <1>2, <1>3, <1>4, <1>5 DEF WorkerStep

\* lease_owner is written by ClaimNextImport alone.
LEMMA OwnerStays ==
    ASSUME TypeOK, Next, \A w \in Worker : ~ClaimNextImport(w)
    PROVE  imp'.owner = imp.owner
<1>1. CASE Tick \/ SourceExpires
  BY <1>1 DEF Tick, SourceExpires, TypeOK, ImportRow
<1>2. ASSUME NEW w \in Worker, FlushBatch(w) PROVE imp'.owner = imp.owner
  BY <1>2 DEF FlushBatch, FlushCommit, FlushRollback, dbVars, TypeOK, ImportRow
<1>3. ASSUME NEW w \in Worker, StartImportStaging(w) \/ CompleteImportStaging(w)
                               \/ ClearImportTempFile(w)
      PROVE  imp'.owner = imp.owner
  BY <1>3 DEF StartImportStaging, CompleteImportStaging, ClearImportTempFile,
              TypeOK, ImportRow
<1>4. ASSUME NEW w \in Worker,
             RetryStage(w) \/ Interrupt(w) \/ VerifySource(w) \/ LoadStagingSheets(w)
             \/ OpenSource(w) \/ ParseRow(w) \/ ParseEOF(w) \/ DeleteSource(w)
             \/ CompleteSheet(w)
      PROVE  imp'.owner = imp.owner
  BY <1>4 DEF RetryStage, Interrupt, VerifySource, LoadStagingSheets, OpenSource,
     ParseRow, ParseEOF, DeleteSource, CompleteSheet, dbVars
<1> QED
  BY <1>1, <1>2, <1>3, <1>4 DEF Next, WorkerStep

\* At any time one worker writes: a live lease is not taken over, however late the
\* claim that lost the race runs, and a worker that was replaced writes nothing more
\* (ClaimNextImport, the lease_owner of every statement).
THEOREM LeaseSafety == Spec => LeaseIsExclusive
<1>1. TypeOK /\ [Next]_vars =>
        [imp'.owner # imp.owner => imp.status = "queued" \/ imp.lease < 0]_vars
  <2> SUFFICES ASSUME TypeOK, Next, imp'.owner # imp.owner
               PROVE  imp.status = "queued" \/ imp.lease < 0
    OBVIOUS
  <2>1. PICK w \in Worker : ClaimNextImport(w)
    BY OwnerStays
  <2>2. PICK d \in 0 .. MaxDelay : imp.status = "queued" \/ imp.lease + d < 0
    BY <2>1 DEF ClaimNextImport, Claimable
  <2>3. imp.lease \in Int /\ d \in Int /\ d >= 0
    BY LeaseAssumption DEF TypeOK, ImportRow, LeaseFloor
  <2> QED
    BY <2>2, <2>3
<1>2. TypeOK /\ [Next]_vars =>
        [\A w \in Worker : job'[w] # job[w] /\ imp.owner # w /\ imp'.owner # w
            => UNCHANGED dbVars]_vars
  <2> SUFFICES ASSUME TypeOK, Next, NEW w \in Worker, job'[w] # job[w],
                      imp.owner # w, imp'.owner # w
               PROVE  UNCHANGED dbVars
    OBVIOUS
  <2>1. ~(Tick \/ SourceExpires)
    BY DEF Tick, SourceExpires
  <2>2. PICK v \in Worker : WorkerStep(v) \/ RetryStage(v) \/ Interrupt(v)
    BY <2>1 DEF Next
  <2>3. v = w
    <3>1. PICK j : Become(v, j)
      BY <2>2, OnlyOwnLocals
    <3> QED
      BY <3>1, BecomeValue
  <2> QED
    BY <2>2, <2>3, StrangerWritesNothing
<1> QED
  BY <1>1, <1>2, TypeCorrect, PTL
     DEF Spec, LeaseIsExclusive, LiveLeaseIsNotStolen, ReplacedWorkerIsInert

\* The error codes that end an import for good.
Permanent == {"invalid_input", "staging_checkpoint_corrupt", "staging_failed"}

\* A call that does not return keeps its outcome, and a new one has none.
LEMMA NoOutcome ==
    ASSUME TypeOK, NEW w \in Worker, NEW j, Become(w, j),
           j.outcome = job[w].outcome \/ j.outcome \notin Permanent
    PROVE  job'[w].outcome = job[w].outcome \/ job'[w].outcome \notin Permanent
BY BecomeValue

\* A worker that owns the import is given none of them.
LEMMA HolderGoesOn ==
    ASSUME IInv, CountersInv, NEW w \in Worker, imp.owner = w,
           WorkerStep(w) \/ RetryStage(w) \/ Interrupt(w)
    PROVE  job'[w].outcome = job[w].outcome \/ job'[w].outcome \notin Permanent
<1> DEFINE Goal == job'[w].outcome = job[w].outcome \/ job'[w].outcome \notin Permanent
<1>0. /\ TypeOK /\ job[w] \in Job /\ LoopInv(job[w]) /\ Holds(w, job[w])
      /\ SourceOf(job[w]) /\ Knows(w, job[w]) /\ SourceLifetime /\ DatabaseInv
  BY CallFacts DEF IInv
<1>1. ASSUME NEW o, o \notin Permanent, Return(w, o) PROVE Goal
  <2>1. PICK j : j = IdleJob(o) /\ Become(w, j)
    BY <1>1 DEF Return
  <2>2. j.outcome = o
    BY <2>1 DEF IdleJob
  <2> QED
    BY <1>0, <1>1, <2>1, <2>2, NoOutcome
<1>2. ASSUME NEW st, Goto(w, st) PROVE Goal
  <2>1. PICK j : j = [job[w] EXCEPT !.step = st] /\ Become(w, j)
    BY <1>2 DEF Goto
  <2>2. j.outcome = job[w].outcome
    BY <1>0, <2>1 DEF Job
  <2> QED
    BY <1>0, <2>1, <2>2, NoOutcome
<1>3. ASSUME NEW ph, Snapshot(w, ph) PROVE Goal
  <2>1. PICK j : j = ClaimedJob(ph) /\ Become(w, j)
    BY <1>3 DEF Snapshot, ClaimedJob
  <2>2. j.outcome = "none"
    BY <2>1 DEF ClaimedJob, IdleJob
  <2> QED
    BY <1>0, <2>1, <2>2, NoOutcome DEF Permanent
<1> HIDE DEF Goal
<1> SUFFICES Goal
  BY DEF Goal
<1>4. "ok" \notin Permanent /\ "lease_lost" \notin Permanent /\ "interrupted" \notin Permanent
      /\ "source_file_unavailable" \notin Permanent
  BY DEF Permanent
<1>5. CASE ClaimNextImport(w) \/ RetryStage(w)
  BY <1>3, <1>5 DEF ClaimNextImport, RetryStage
<1>6. CASE VerifySource(w)
  <2>1. ValidClaim(job[w])
    BY <1>0, <1>6 DEF VerifySource, At, Knows
  <2> QED
    BY <1>1, <1>2, <1>4, <1>6, <2>1 DEF VerifySource
<1>7. CASE LoadStagingSheets(w)
  <2>1. CheckpointOK(w)
    <3>1. job[w].snapTotal = imp.rowsTotal
      BY <1>0, <1>7 DEF LoadStagingSheets, At, Knows
    <3> QED
      BY <3>1 DEF CheckpointOK, CountersInv, CountersAgree
  <2>2. PICK j : /\ j = [job[w] EXCEPT !.step = "loaded", !.base = StagedCounts,
                                       !.committed = StagedCounts]
                 /\ Become(w, j)
    BY <1>7, <2>1 DEF LoadStagingSheets
  <2>3. j.outcome = job[w].outcome
    BY <1>0, <2>2 DEF Job
  <2> QED
    BY <1>0, <2>2, <2>3, NoOutcome DEF Goal
<1>8. CASE StartImportStaging(w)
  <2>1. CASE Return(w, "lease_lost")
    BY <1>1, <1>4, <2>1
  <2>2. CASE ~Return(w, "lease_lost")
    <3>1. PICK j : /\ j = [job[w] EXCEPT !.step = "open", !.total = imp.rowsTotal]
                   /\ Become(w, j)
      BY <1>8, <2>2 DEF StartImportStaging
    <3>2. j.outcome = job[w].outcome
      BY <1>0, <3>1 DEF Job
    <3> QED
      BY <1>0, <3>1, <3>2, NoOutcome DEF Goal
  <2> QED
    BY <2>1, <2>2
<1>9. CASE OpenSource(w)
  <2>1. file
    <3>1. job[w].step = "open"
      BY <1>9 DEF OpenSource, At
    <3>2. ~imp.stagedAt
      BY <1>0, <3>1 DEF Knows, Running
    <3> QED
      BY <1>0, <3>2 DEF SourceLifetime
  <2> QED
    BY <1>2, <1>9, <2>1 DEF OpenSource
<1>10. CASE ParseRow(w)
  <2>1. PICK j, s : j = AfterRow(job[w], s) /\ Become(w, j)
    BY <1>10 DEF ParseRow
  <2>2. j.outcome = job[w].outcome
    BY <1>0, <2>1 DEF AfterRow, Job
  <2> QED
    BY <1>0, <2>1, <2>2, NoOutcome DEF Goal
<1>11. CASE FlushBatch(w)
  <2>1. PICK d \in 0 .. MaxDelay : FlushCommit(w, d) \/ FlushRollback(w, d)
    BY <1>11 DEF FlushBatch
  <2>2. CASE FlushCommit(w, d)
    <3>1. PICK j : j = AfterCommit(job[w]) /\ Become(w, j)
      BY <2>2 DEF FlushCommit
    <3>2. j.outcome = job[w].outcome
      BY <1>0, <3>1 DEF AfterCommit, Job
    <3> QED
      BY <1>0, <3>1, <3>2, NoOutcome DEF Goal
  <2>3. CASE FlushRollback(w, d)
    <3>1. PendingRows(job[w]) \cap rows[job[w].cur] = {}
      <4>1. PICK j, s : j = job[w] /\ s = j.cur
        OBVIOUS
      <4>2. j.step = "parse" /\ j.pending # << >> /\ j.pending \in Seq(Nat)
        BY <1>0, <1>11, <4>1 DEF FlushBatch, FlushDue, At, Job
      <4>3. s \in Sheets
        BY <1>0, <4>1, <4>2 DEF LoopInv, Sheets
      <4>4. j.committed = StagedCounts /\ j.committed \in [Sheets -> Nat]
        BY <1>0, <4>1, <4>2 DEF Holds, Running, Job
      <4>5. PICK c \in Nat : c = j.committed[s] /\ rows[s] = 1 .. c
        BY <1>0, <4>3, <4>4 DEF DatabaseInv, CheckpointIsExact, StagedCounts
      <4>6. \A i \in 1 .. Len(j.pending) : j.pending[i] = c + i
        BY <1>0, <4>1, <4>2, <4>5 DEF LoopInv
      <4>7. \A i \in 1 .. Len(j.pending) : j.pending[i] \notin rows[s]
        <5> SUFFICES ASSUME NEW i \in 1 .. Len(j.pending) PROVE c + i \notin 1 .. c
          BY <4>5, <4>6
        <5>1. Len(j.pending) \in Nat
          BY <4>2
        <5> QED
          BY <5>1
      <4> QED
        BY <4>1, <4>7 DEF PendingRows
    <3> QED
      BY <1>1, <1>4, <2>3, <3>1 DEF FlushRollback
  <2> QED
    BY <2>1, <2>2, <2>3
<1>12. CASE ParseEOF(w)
  <2>1. PICK j : j = [job[w] EXCEPT !.step = "sheets", !.cur = 1] /\ Become(w, j)
    BY <1>12 DEF ParseEOF
  <2>2. j.outcome = job[w].outcome
    BY <1>0, <2>1 DEF Job
  <2> QED
    BY <1>0, <2>1, <2>2, NoOutcome DEF Goal
<1>13. CASE CompleteSheet(w)
  <2>1. ~SheetMiscounted(job[w], job[w].cur)
    <3>1. PICK j, s : j = job[w] /\ s = j.cur
      OBVIOUS
    <3>2. s \in Sheets /\ j.step = "sheets"
      BY <1>13, <3>1 DEF CompleteSheet, At
    <3>3. /\ j.seen[s] = RowsIn[s] /\ j.committed[s] = RowsIn[s]
          /\ j.base[s] <= RowsIn[s]
      BY <1>0, <3>1, <3>2 DEF LoopInv, Knows, Running
    <3>4. j.base[s] \in Nat /\ RowsIn[s] \in Nat
      BY <1>0, <3>1, <3>2, SheetAssumption DEF Job
    <3> QED
      BY <3>1, <3>3, <3>4 DEF SheetMiscounted
  <2>2. CASE Return(w, "lease_lost")
    BY <1>1, <1>4, <2>2
  <2>3. CASE ~Return(w, "lease_lost")
    <3>1. PICK j : j = [job[w] EXCEPT !.cur = job[w].cur + 1] /\ Become(w, j)
      BY <1>13, <2>1, <2>3 DEF CompleteSheet
    <3>2. j.outcome = job[w].outcome
      BY <1>0, <3>1 DEF Job
    <3> QED
      BY <1>0, <3>1, <3>2, NoOutcome DEF Goal
  <2> QED
    BY <2>2, <2>3
<1>14. CASE CompleteImportStaging(w) \/ DeleteSource(w) \/ ClearImportTempFile(w)
            \/ Interrupt(w)
  BY <1>1, <1>2, <1>4, <1>14
     DEF CompleteImportStaging, DeleteSource, ClearImportTempFile, Interrupt
<1> QED
  BY <1>5, <1>6, <1>7, <1>8, <1>9, <1>10, <1>11, <1>12, <1>13, <1>14
     DEF WorkerStep

\* The worker that owns the import is never told invalid_input,
\* staging_checkpoint_corrupt or staging_failed, whatever state earlier workers left
\* behind (validateStagingImport, loadStagingSheets, flushBatch, Stage).
THEOREM HolderSafety == Spec => HolderIsNotRejected
<1>1. IInv /\ CountersInv /\ [Next]_vars =>
        [\A w \in Worker :
           /\ job'[w].outcome # job[w].outcome
           /\ job'[w].outcome \in {"invalid_input", "staging_checkpoint_corrupt",
                                   "staging_failed"}
           => imp.owner # w]_vars
  <2> SUFFICES ASSUME IInv, CountersInv, Next, NEW w \in Worker, imp.owner = w,
                      job'[w].outcome # job[w].outcome, job'[w].outcome \in Permanent
               PROVE  FALSE
    BY DEF Permanent
  <2>1. ~(Tick \/ SourceExpires)
    BY DEF Tick, SourceExpires
  <2>2. PICK v \in Worker : WorkerStep(v) \/ RetryStage(v) \/ Interrupt(v)
    BY <2>1 DEF Next
  <2>3. v = w
    <3>1. TypeOK
      BY DEF IInv
    <3>2. PICK j : Become(v, j)
      BY <2>2, <3>1, OnlyOwnLocals
    <3> QED
      BY <3>1, <3>2, BecomeValue
  <2> QED
    BY <2>2, <2>3, HolderGoesOn
<1> QED
  BY <1>1, Invariance, CountersInvariance, PTL DEF Spec, HolderIsNotRejected

----------------------------------------------------------------------------
(* Refinement *)

\* The committing batch transaction is a CopyBatch step.
LEMMA FlushIsCopyBatch ==
    ASSUME IInv, NEW w \in Worker, NEW d \in 0 .. MaxDelay,
           NEW j, j = job[w], NEW s, s = j.cur, NEW n, n = Len(j.pending),
           NEW c, c = j.committed[s],
           j.step = "parse", FlushDue(j), FlushCommit(w, d), UNCHANGED file
    PROVE  Copy!CopyBatch
<1>1. /\ s \in Sheets /\ n \in Nat /\ n > 0 /\ c \in Nat
      /\ imp.owner = w /\ ~imp.stagedAt /\ j.committed = StagedCounts
      /\ c + n <= RowsIn[s] /\ rows[s] = 1 .. c
      /\ rows' = [rows EXCEPT ![s] = 1 .. (c + n)]
  BY FlushFacts
<1>2. j \in Job /\ LoopInv(j)
  BY DEF IInv, TypeOK
<1>3. n \in 1 .. BatchSize
  BY <1>1, <1>2, BatchAssumption DEF LoopInv
<1>4. SheetCount \in Nat /\ s \in 1 .. SheetCount /\ RowsIn[s] \in Nat
  BY <1>1, SheetAssumption DEF Sheets
<1>5. c \in 0 .. RowsIn[s]
  BY <1>1, <1>4
<1>6. \A r \in 1 .. (s - 1) : rows[r] = 1 .. RowsIn[r]
  <2> SUFFICES ASSUME NEW r \in 1 .. (s - 1) PROVE rows[r] = 1 .. RowsIn[r]
    OBVIOUS
  <2>1. r \in Sheets /\ r # s
    <3>1. r \in 1 .. SheetCount /\ r # s
      BY <1>4
    <3> QED
      BY <3>1 DEF Sheets
  <2>2. SheetCounted(j, r) /\ j.seen[r] = RowsIn[r] /\ Waiting(j, r) = 0
    BY <1>1, <1>2, <2>1 DEF LoopInv, Waiting
  <2>3. j.base[r] \in Nat /\ j.committed[r] \in Nat /\ RowsIn[r] \in Nat
    BY <1>2, <2>1, SheetAssumption DEF Job
  <2>4. j.committed[r] = RowsIn[r]
    <3>1. CASE j.seen[r] <= j.base[r]
      BY <2>2, <2>3, <3>1 DEF SheetCounted
    <3>2. CASE j.seen[r] > j.base[r]
      BY <2>2, <2>3, <3>2 DEF SheetCounted
    <3> QED
      BY <2>2, <2>3, <3>1, <3>2
  <2>5. sheet[r].staged = RowsIn[r]
    BY <1>1, <2>1, <2>4 DEF StagedCounts
  <2>6. CheckpointIsExact
    BY DEF IInv, DatabaseInv
  <2> QED
    BY <2>1, <2>5, <2>6 DEF CheckpointIsExact
<1>7. imp'.stagedAt = imp.stagedAt /\ imp'.token = imp.token
  BY DEF FlushCommit, IInv, TypeOK, ImportRow
<1> QED
  BY <1>1, <1>3, <1>4, <1>5, <1>6, <1>7 DEF Copy!CopyBatch, Copy!Complete, Copy!Sheets

\* Staging, with its workers, leases, checkpoints and interruptions, implements
\* the abstract copy: every step is a copied batch, the completion, the
\* removal of the file, the forgetting of its token, or invisible.
THEOREM Refinement == Spec => ImplementsStagedCopy
<1>1. Init => Copy!Init
  BY DEF Init, Copy!Init, Copy!Sheets, Sheets
<1>2. IInv /\ [Next]_vars => [Copy!Next]_(Copy!vars)
  <2> SUFFICES ASSUME IInv, [Next]_vars
               PROVE  \/ Copy!CopyBatch \/ Copy!Finish \/ Copy!Discard \/ Copy!Forget
                      \/ UNCHANGED Copy!vars
    BY DEF Copy!Next
  <2>1. TypeOK /\ IInv'
    BY NextInv DEF IInv
  <2> DEFINE Invisible == /\ UNCHANGED <<rows, file>>
                          /\ imp'.stagedAt = imp.stagedAt /\ imp'.token = imp.token
  <2>2. Invisible => UNCHANGED Copy!vars
    BY DEF Copy!vars
  <2>3. ASSUME NEW w \in Worker, FlushBatch(w) PROVE Copy!CopyBatch \/ Invisible
    <3>1. PICK d \in 0 .. MaxDelay : FlushCommit(w, d) \/ FlushRollback(w, d)
      BY <2>3 DEF FlushBatch
    <3>2. CASE FlushCommit(w, d)
      <4>1. PICK j, s, n, c : /\ j = job[w] /\ s = j.cur
                              /\ n = Len(j.pending) /\ c = j.committed[s]
        OBVIOUS
      <4> QED
        BY <2>3, <3>2, <4>1, FlushIsCopyBatch DEF FlushBatch, At
    <3>3. CASE FlushRollback(w, d)
      BY <2>3, <3>3 DEF FlushRollback, FlushBatch, dbVars
    <3> QED
      BY <3>1, <3>2, <3>3
  <2>4. ASSUME NEW w \in Worker, CompleteImportStaging(w)
        PROVE  Copy!Finish \/ Invisible
    <3>1. CASE UNCHANGED imp
      BY <2>4, <3>1 DEF CompleteImportStaging
    <3>2. CASE ~UNCHANGED imp
      <4>1. PICK d \in 0 .. MaxDelay :
              /\ MayFinish(w, d)
              /\ imp' = [imp EXCEPT !.phase = "validating", !.stagedAt = TRUE,
                           !.rowsTotal = job[w].total, !.lease = Renewed(d)]
        BY <2>4, <3>2 DEF CompleteImportStaging
      <4>2. imp'.stagedAt = TRUE /\ imp'.token = imp.token
        BY <2>1, <4>1 DEF TypeOK, ImportRow
      <4>3. ~imp.stagedAt
        BY <4>1 DEF MayFinish, IInv, DatabaseInv
      <4>4. UNCHANGED <<sheet, rows, file>>
        BY <2>4 DEF CompleteImportStaging
      <4>5. \A s \in Sheets : rows'[s] = 1 .. RowsIn[s]
        <5> SUFFICES ASSUME NEW s \in Sheets PROVE rows'[s] = 1 .. RowsIn[s]
          OBVIOUS
        <5>1. StagedSheet(s)'
          BY <2>1, <4>2 DEF IInv, DatabaseInv
        <5>2. CheckpointIsExact'
          BY <2>1 DEF IInv, DatabaseInv
        <5> QED
          BY <5>1, <5>2 DEF StagedSheet, CheckpointIsExact
      <4>6. \A s \in Copy!Sheets : Copy!Complete(s)
        BY <4>4, <4>5 DEF Copy!Sheets, Copy!Complete, Sheets
      <4> QED
        BY <4>2, <4>3, <4>4, <4>6 DEF Copy!Finish
    <3> QED
      BY <3>1, <3>2
  <2>5. ASSUME NEW w \in Worker, DeleteSource(w) PROVE Copy!Discard \/ Invisible
    <3>1. imp.stagedAt
      BY <2>5 DEF DeleteSource, At, IInv, SourceInv, SourceOf
    <3>2. UNCHANGED <<imp, rows>> /\ file' = FALSE
      BY <2>5 DEF DeleteSource, dbVars
    <3>3. file = TRUE \/ file = FALSE
      BY <2>1 DEF TypeOK
    <3> QED
      BY <3>1, <3>2, <3>3 DEF Copy!Discard
  <2>6. ASSUME NEW w \in Worker, ClearImportTempFile(w) PROVE Copy!Forget \/ Invisible
    <3>1. ~file
      BY <2>6 DEF ClearImportTempFile, At, IInv, SourceInv, SourceOf
    <3>2. UNCHANGED <<rows, file>> /\ imp'.stagedAt = imp.stagedAt
      BY <2>1, <2>6 DEF ClearImportTempFile, TypeOK, ImportRow
    <3>3. imp'.token = FALSE \/ imp'.token = imp.token
      BY <2>1, <2>6 DEF ClearImportTempFile, TypeOK, ImportRow
    <3>4. imp.token = TRUE \/ imp.token = FALSE
      BY <2>1 DEF TypeOK, ImportRow
    <3> QED
      BY <3>1, <3>2, <3>3, <3>4 DEF Copy!Forget
  <2>7. ASSUME NEW w \in Worker, ClaimNextImport(w) \/ StartImportStaging(w)
        PROVE  Invisible
    BY <2>1, <2>7 DEF ClaimNextImport, StartImportStaging, TypeOK, ImportRow
  <2>8. ASSUME NEW w \in Worker,
               \/ RetryStage(w) \/ VerifySource(w) \/ LoadStagingSheets(w)
               \/ OpenSource(w) \/ ParseRow(w) \/ ParseEOF(w)
               \/ CompleteSheet(w) \/ Interrupt(w)
        PROVE  Invisible
    BY <2>8 DEF RetryStage, VerifySource, LoadStagingSheets, OpenSource, ParseRow,
       ParseEOF, CompleteSheet, Interrupt
  <2>9. ASSUME Tick \/ SourceExpires PROVE Invisible
    BY <2>1, <2>9 DEF Tick, SourceExpires, TypeOK, ImportRow
  <2>10. ASSUME UNCHANGED vars PROVE Invisible
    BY <2>10 DEF vars
  <2> HIDE DEF Invisible
  <2> QED
    BY <2>2, <2>3, <2>4, <2>5, <2>6, <2>7, <2>8, <2>9, <2>10 DEF Next, WorkerStep
<1> QED
  BY <1>1, <1>2, Invariance, PTL DEF Spec, ImplementsStagedCopy, Copy!Spec

============================================================================
