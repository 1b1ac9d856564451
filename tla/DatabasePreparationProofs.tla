--------------------- MODULE DatabasePreparationProofs ---------------------
(***************************************************************************)
(* Proofs about module DatabasePreparation, for any set of processes, any  *)
(* builds and any number of faults and interventions: a server only ever   *)
(* has a database of its own version, an upgrade is covered by a complete  *)
(* backup, refused files are left alone, manual backups stay, a start that *)
(* was interrupted can be repeated, and what was served last can be got    *)
(* back until other automatic backups fill the whole retention.            *)
(*                                                                         *)
(* The last part is about module ServerLifecycle: a server that stops lets *)
(* go of the database only when no handler runs, for any finite set of     *)
(* requests.                                                               *)
(***************************************************************************)
EXTENDS DatabasePreparation, ServerLifecycle, FiniteSetTheorems, TLAPS

\* The first migration stamps the application id, so an application database
\* has a version and nothing else has one.
Sound(f) == f.kind = "app" <=> f.version > 0

Covered(p) == \E b \in backups : b.seq = proc[p].backup /\ b.content = proc[p].begun

\* What holds for a process that is past the lock.
ProcessInv(p) ==
    /\ proc[p].step \notin {"idle", "lock"} => owner = p
    /\ proc[p].step \notin {"idle", "lock", "open"} =>
         /\ file.kind # "foreign"
         /\ file.kind = "app" => file.version <= Target[p]
    /\ At(p, "configure") => proc[p].begun = file /\ proc[p].from = file.version
    /\ proc[p].step \in {"reserve", "vacuum", "verify"} /\ MayCreate(p) =>
         proc[p].begun = file
    /\ At(p, "vacuum") => \E b \in backups : b.seq = proc[p].backup
    /\ At(p, "verify") /\ MayCreate(p) => Covered(p)
    /\ At(p, "prune") => Covered(p)
    /\ (At(p, "up") \/ At(p, "recheck")) /\ proc[p].begun.kind = "app" => Covered(p)
    /\ At(p, "serving") => CurrentSchema(file, p)

\* The inductive invariant.
IInv ==
    /\ TypeOK
    /\ Sound(file)
    /\ \A b \in backups : Sound(b.content)
    /\ \A p \in Process : ProcessInv(p)

----------------------------------------------------------------------------
(* Types *)

\* A file that does not exist is one of the contents.
LEMMA MissingType == Missing \in Content
BY DEF Missing, Bare, Content

\* A process without a command has the type of a process.
LEMMA IdleType == Idle \in Proc
BY MissingType DEF Idle, Proc

\* A process without a command is past no lock.
LEMMA IdleStep == Idle.step = "idle"
BY DEF Idle

\* Types hold at first.
LEMMA TypeInit == Init => TypeOK
<1> SUFFICES ASSUME Init PROVE TypeOK
  OBVIOUS
<1>1. file \in Content
  BY TargetAssumption DEF Init, Content, Bare
<1> QED
  BY <1>1, MissingType, IdleType, BoundAssumption DEF Init, TypeOK

\* Leaving withOwnedDatabase keeps the types of lock and commands.
LEMMA ExitType ==
    ASSUME TypeOK, NEW p \in Process, Exit(p)
    PROVE  /\ owner' \in Process \cup {NoOwner}
           /\ proc' \in [Process -> Proc]
BY IdleType DEF TypeOK, Exit

\* What a process is doing keeps its type when only the step changes.
LEMMA GotoType ==
    ASSUME TypeOK, NEW p \in Process, NEW s, Goto(p, s),
           s \in {"idle", "lock", "open", "inspect", "configure", "check", "reserve",
                  "vacuum", "verify", "prune", "up", "recheck", "serving"}
    PROVE  proc' \in [Process -> Proc]
BY DEF TypeOK, Goto, Proc

\* Types of the databases the steps write.
LEMMA BareType ==
    ASSUME NEW k \in {"missing", "empty", "bare", "bootstrap", "app", "foreign"}
    PROVE  Bare(k) \in Content
BY DEF Bare, Content

\* Locals after the inspection under the lock.
LEMMA OpenedType ==
    ASSUME NEW r \in Proc
    PROVE  [r EXCEPT !.saw = "no database", !.step = "inspect"] \in Proc
BY DEF Proc

\* Locals after the inspection of a maintenance command and of Prepare.
LEMMA InspectedType ==
    ASSUME NEW r \in Proc, NEW n \in Nat, NEW f \in Content, NEW s \in {"reserve", "check"}
    PROVE  /\ [r EXCEPT !.from = n, !.step = s] \in Proc
           /\ [r EXCEPT !.from = n, !.begun = f, !.step = "configure"] \in Proc
BY DEF Proc

\* Locals after the reservation of a backup.
LEMMA ReservedType ==
    ASSUME NEW r \in Proc, NEW n \in Nat
    PROVE  [r EXCEPT !.backup = n, !.step = "vacuum"] \in Proc
BY DEF Proc

\* A database after one more migration.
LEMMA MigratedType ==
    ASSUME NEW f \in Content, NEW n \in Nat
    PROVE  [f EXCEPT !.kind = "app", !.version = n] \in Content
BY DEF Content

\* A database after a request.
LEMMA WrittenType ==
    ASSUME NEW f \in Content
    PROVE  [f EXCEPT !.data = @ + 1] \in Content
BY DEF Content

\* Every step keeps the types.
LEMMA TypeStep == TypeOK /\ [Next]_vars => TypeOK'
<1> SUFFICES ASSUME TypeOK, [Next]_vars PROVE TypeOK'
  OBVIOUS
<1> USE MissingType, IdleType, BoundAssumption
<1>0. CASE UNCHANGED vars
  BY <1>0 DEF TypeOK, vars
<1>1. ASSUME NEW p \in Process, NEW command \in {"serve", "migrate", "verify", "backup"},
             Start(p, command)
      PROVE  TypeOK'
  <2>1. [Idle EXCEPT !.command = command, !.step = "lock",
                     !.saw = IF command \in {"serve", "migrate"} /\ IsSQLite(file)
                               THEN "SQLite" ELSE "no database"]
          \in Proc
    BY DEF Idle, Proc, IsSQLite
  <2> QED
    BY <1>1, <2>1 DEF TypeOK, Start
<1>2. ASSUME NEW p \in Process, AcquireOwnerLock(p) PROVE TypeOK'
  <2>1. proc' \in [Process -> Proc]
    BY <1>2, GotoType DEF AcquireOwnerLock, TypeOK
  <2> QED
    BY <1>2, <2>1 DEF TypeOK, AcquireOwnerLock
<1>3. ASSUME NEW p \in Process, OpenForPreparation(p) PROVE TypeOK'
  <2>1. file' \in Content
    BY <1>3, BareType DEF TypeOK, OpenForPreparation
  <2>2. proc' \in [Process -> Proc] /\ owner' \in Process \cup {NoOwner}
    <3>1. CASE Exit(p)
      BY <3>1, ExitType
    <3>2. CASE ~Exit(p)
      <4>1. [proc[p] EXCEPT !.saw = "no database", !.step = "inspect"] \in Proc
        BY OpenedType DEF TypeOK
      <4> QED
        BY <3>2, <1>3, <4>1 DEF TypeOK, OpenForPreparation
    <3> QED
      BY <3>1, <3>2
  <2> QED
    BY <1>3, <2>1, <2>2 DEF TypeOK, OpenForPreparation
<1>4. ASSUME NEW p \in Process, OpenExistingForMaintenance(p) PROVE TypeOK'
  <2>1. proc' \in [Process -> Proc] /\ owner' \in Process \cup {NoOwner}
    <3>1. CASE Exit(p)
      BY <3>1, ExitType
    <3>2. CASE ~Exit(p)
      <4>1. file.version \in Nat
        BY DEF TypeOK, Content
      <4>2. [proc[p] EXCEPT !.from = file.version,
                            !.step = MaintenanceStep(p)] \in Proc
        BY <4>1, InspectedType DEF TypeOK, MaintenanceStep
      <4> QED
        BY <3>2, <1>4, <4>2 DEF TypeOK, OpenExistingForMaintenance
    <3> QED
      BY <3>1, <3>2
  <2> QED
    BY <1>4, <2>1 DEF TypeOK, OpenExistingForMaintenance
<1>5. ASSUME NEW p \in Process, InspectPreparation(p) PROVE TypeOK'
  <2>1. proc' \in [Process -> Proc] /\ owner' \in Process \cup {NoOwner}
    <3>1. CASE Exit(p)
      BY <3>1, ExitType
    <3>2. CASE ~Exit(p)
      <4>1. file.version \in Nat
        BY DEF TypeOK, Content
      <4>2. [proc[p] EXCEPT !.from = file.version, !.begun = file, !.step = "configure"]
              \in Proc
        BY <4>1, InspectedType DEF TypeOK
      <4> QED
        BY <3>2, <1>5, <4>2 DEF TypeOK, InspectPreparation
    <3> QED
      BY <3>1, <3>2
  <2> QED
    BY <1>5, <2>1 DEF TypeOK, InspectPreparation
<1>6. ASSUME NEW p \in Process, Configure(p) PROVE TypeOK'
  <2>1. file' \in Content
    BY <1>6, BareType DEF TypeOK, Configure
  <2>2. proc' \in [Process -> Proc]
    BY <1>6, GotoType DEF Configure
  <2> QED
    BY <1>6, <2>1, <2>2 DEF TypeOK, Configure
<1>7. ASSUME NEW p \in Process, CheckCurrent(p) \/ CheckPrepared(p) PROVE TypeOK'
  <2>1. [Idle EXCEPT !.command = "serve", !.step = "serving"] \in Proc
    BY DEF Idle, Proc
  <2>2. /\ proc' \in [Process -> Proc] /\ owner' \in Process \cup {NoOwner}
        /\ lastServed' \in Content
    <3>1. CASE Exit(p)
      BY <3>1, <1>7, ExitType DEF TypeOK, CheckCurrent, CheckPrepared, Prepared
    <3>2. CASE ~Exit(p)
      BY <3>2, <1>7, <2>1 DEF TypeOK, CheckCurrent, CheckPrepared, Prepared
    <3> QED
      BY <3>1, <3>2
  <2> QED
    BY <1>7, <2>2 DEF TypeOK, CheckCurrent, CheckPrepared
<1>8. ASSUME NEW p \in Process, ReserveBackup(p) PROVE TypeOK'
  <2>1. CASE Exit(p) /\ UNCHANGED backups
    BY <2>1, <1>8, ExitType DEF TypeOK, ReserveBackup
  <2>2. CASE ~(Exit(p) /\ UNCHANGED backups)
    <3>1. PICK n \in 1 .. MaxSequence :
            /\ backups' = backups \cup
                 {[seq |-> n, version |-> proc[p].from, content |-> Missing,
                   kind |-> IF MayCreate(p) THEN "pre-migration" ELSE "manual"]}
            /\ proc' = [proc EXCEPT ![p].backup = n, ![p].step = "vacuum"]
      BY <2>2, <1>8 DEF ReserveBackup
    <3>2. n \in Nat \ {0}
      OBVIOUS
    <3>3. proc[p].from \in Nat
      BY DEF TypeOK, Proc
    <3>4. backups' \subseteq Backup
      BY <3>1, <3>2, <3>3 DEF TypeOK, Backup
    <3>5. proc' \in [Process -> Proc]
      <4>1. [proc[p] EXCEPT !.backup = n, !.step = "vacuum"] \in Proc
        BY <3>2, ReservedType DEF TypeOK
      <4> QED
        BY <3>1, <4>1 DEF TypeOK
    <3> QED
      BY <2>2, <1>8, <3>4, <3>5 DEF TypeOK, ReserveBackup
  <2> QED
    BY <2>1, <2>2
<1>9. ASSUME NEW p \in Process, VacuumInto(p) PROVE TypeOK'
  <2>1. backups' \subseteq Backup
    BY <1>9 DEF TypeOK, VacuumInto, Backup
  <2>2. proc' \in [Process -> Proc]
    BY <1>9, GotoType DEF VacuumInto
  <2> QED
    BY <1>9, <2>1, <2>2 DEF TypeOK, VacuumInto
<1>10. ASSUME NEW p \in Process, VerifyBackup(p) PROVE TypeOK'
  <2>1. backups' \subseteq Backup
    BY <1>10 DEF TypeOK, VerifyBackup
  <2>2. proc' \in [Process -> Proc] /\ owner' \in Process \cup {NoOwner}
    BY <1>10, GotoType, ExitType DEF VerifyBackup, TypeOK
  <2> QED
    BY <1>10, <2>1, <2>2 DEF TypeOK, VerifyBackup
<1>11. ASSUME NEW p \in Process, PruneAutomatic(p) PROVE TypeOK'
  <2>1. proc' \in [Process -> Proc]
    BY <1>11, GotoType DEF PruneAutomatic, TypeOK
  <2> QED
    BY <1>11, <2>1 DEF TypeOK, PruneAutomatic
<1>12. ASSUME NEW p \in Process, EnsureVersionTable(p) PROVE TypeOK'
  BY <1>12, BareType DEF TypeOK, EnsureVersionTable
<1>13. ASSUME NEW p \in Process, ApplyMigration(p) PROVE TypeOK'
  <2>1. file' \in Content
    <3>1. file.version + 1 \in Nat
      BY DEF TypeOK, Content
    <3> QED
      BY <1>13, <3>1, MigratedType DEF TypeOK, ApplyMigration
  <2>2. proc' \in [Process -> Proc]
    BY <1>13, GotoType DEF ApplyMigration, TypeOK
  <2> QED
    BY <1>13, <2>1, <2>2 DEF TypeOK, ApplyMigration
<1>14. ASSUME NEW p \in Process, Write(p) PROVE TypeOK'
  <2>1. file' \in Content
    BY <1>14, WrittenType DEF TypeOK, Write
  <2> QED
    BY <1>14, <2>1 DEF TypeOK, Write
<1>15. ASSUME NEW p \in Process, Shutdown(p) PROVE TypeOK'
  BY <1>15, ExitType DEF TypeOK, Shutdown
<1>16. ASSUME NEW p \in Process, Fail(p) \/ Crash(p) PROVE TypeOK'
  <2>1. faults' \in 0 .. MaxFaults
    BY <1>16 DEF TypeOK, Fail, Crash
  <2>2. backups' \subseteq Backup
    BY <1>16 DEF TypeOK, Fail, Crash
  <2> QED
    BY <1>16, <2>1, <2>2, ExitType DEF TypeOK, Fail, Crash
<1>17. ASSUME RemoveFile \/ Restore PROVE TypeOK'
  <2>1. interventions' \in 0 .. MaxInterventions
    BY <1>17 DEF TypeOK, RemoveFile, Restore
  <2>2. file' \in Content
    BY <1>17 DEF TypeOK, RemoveFile, Restore, Backup
  <2> QED
    BY <1>17, <2>1, <2>2 DEF TypeOK, RemoveFile, Restore
<1> QED
  BY <1>0, <1>1, <1>2, <1>3, <1>4, <1>5, <1>6, <1>7, <1>8, <1>9, <1>10, <1>11, <1>12,
     <1>13, <1>14, <1>15, <1>16, <1>17
  DEF Next, Step

\* The file, the backup directory, the lock and the commands keep their types.
THEOREM TypeCorrect == Spec => []TypeOK
<1> QED
  BY TypeInit, TypeStep, PTL DEF Spec

----------------------------------------------------------------------------
(* The parts of the invariant *)

\* Nothing is claimed of a process that is not past the lock.
LEMMA QuietNext ==
    ASSUME NEW q \in Process, proc'[q].step \in {"idle", "lock"}
    PROVE  ProcessInv(q)'
BY DEF ProcessInv, At

\* While p holds the lock the others are not past it, and stay so.
LEMMA OthersNext ==
    ASSUME IInv, NEW p \in Process, owner = p,
           NEW q \in Process, q # p, proc'[q] = proc[q]
    PROVE  ProcessInv(q)'
<1>1. proc[q].step \in {"idle", "lock"}
  BY ProcessAssumption DEF IInv, ProcessInv
<1> QED
  BY <1>1, QuietNext

\* After the return of the holder nothing is claimed of anybody.
LEMMA ExitNext ==
    ASSUME IInv, NEW p \in Process, owner = p, Exit(p)
    PROVE  \A q \in Process : ProcessInv(q)'
<1> SUFFICES ASSUME NEW q \in Process PROVE ProcessInv(q)'
  OBVIOUS
<1>1. CASE q = p
  <2>1. proc'[q] = Idle
    BY <1>1 DEF IInv, TypeOK, Exit
  <2>2. proc'[q].step = "idle"
    BY <2>1, IdleStep
  <2> QED
    BY <2>2, QuietNext
<1>2. CASE q # p
  <2>1. proc'[q] = proc[q]
    BY <1>2 DEF IInv, TypeOK, Exit
  <2> QED
    BY <1>2, <2>1, OthersNext
<1> QED
  BY <1>1, <1>2

\* Sound describes Missing and every database without a version.
LEMMA BareSound ==
    ASSUME NEW k, k # "app"
    PROVE  Sound(Bare(k))
BY DEF Sound, Bare

\* No step makes a version without an application id or the converse.
LEMMA SoundStep ==
    ASSUME IInv, Next
    PROVE  Sound(file)' /\ \A b \in backups' : Sound(b.content)
<1> USE DEF IInv
<1>1. CASE UNCHANGED <<file, backups>>
  BY <1>1
<1>2. ASSUME NEW p \in Process, OpenForPreparation(p) \/ Configure(p) \/ EnsureVersionTable(p)
      PROVE  Sound(file)' /\ UNCHANGED backups
  BY <1>2, BareSound DEF OpenForPreparation, Configure, EnsureVersionTable
<1>3. ASSUME NEW p \in Process, ReserveBackup(p)
      PROVE  UNCHANGED file /\ \A b \in backups' : Sound(b.content)
  <2>1. \A b \in backups' : b \in backups \/ b.content = Missing
    <3>1. CASE backups' = backups
      BY <3>1
    <3>2. CASE backups' # backups
      <4>1. PICK n \in 1 .. MaxSequence :
              backups' = backups \cup
                {[seq |-> n, version |-> proc[p].from, content |-> Missing,
                  kind |-> IF MayCreate(p) THEN "pre-migration" ELSE "manual"]}
        BY <1>3, <3>2 DEF ReserveBackup
      <4> QED
        BY <4>1
    <3> QED
      BY <3>1, <3>2
  <2>2. Sound(Missing)
    BY BareSound DEF Missing
  <2> QED
    BY <1>3, <2>1, <2>2 DEF ReserveBackup
<1>4. ASSUME NEW p \in Process, VacuumInto(p)
      PROVE  UNCHANGED file /\ \A b \in backups' : Sound(b.content)
  <2>1. \A b \in backups' : b \in backups \/ b.content = file
    BY <1>4 DEF VacuumInto, TypeOK, Backup
  <2> QED
    BY <1>4, <2>1 DEF VacuumInto
<1>5. ASSUME NEW p \in Process,
             VerifyBackup(p) \/ PruneAutomatic(p) \/ Fail(p) \/ Crash(p)
      PROVE  UNCHANGED file /\ backups' \subseteq backups
  BY <1>5 DEF VerifyBackup, PruneAutomatic, Fail, Crash
<1>6. ASSUME NEW p \in Process, ApplyMigration(p)
      PROVE  Sound(file)' /\ UNCHANGED backups
  <2>1. CASE file' = file
    BY <1>6, <2>1 DEF ApplyMigration
  <2>2. CASE file' = [file EXCEPT !.kind = "app", !.version = @ + 1]
    <3>1. file'.kind = "app" /\ file'.version = file.version + 1 /\ file.version \in Nat
      BY <2>2 DEF TypeOK, Content
    <3>2. file'.version > 0
      BY <3>1
    <3> QED
      BY <1>6, <3>1, <3>2 DEF ApplyMigration, Sound
  <2> QED
    BY <1>6, <2>1, <2>2 DEF ApplyMigration
<1>7. ASSUME NEW p \in Process, Write(p)
      PROVE  Sound(file)' /\ UNCHANGED backups
  BY <1>7 DEF Write, Sound, TypeOK, Content
<1>8. ASSUME RemoveFile \/ Restore
      PROVE  Sound(file)' /\ UNCHANGED backups
  BY <1>8, BareSound DEF RemoveFile, Restore, Missing
<1> QED
  BY <1>1, <1>2, <1>3, <1>4, <1>5, <1>6, <1>7, <1>8
  DEF Next, Step, Start, AcquireOwnerLock, OpenExistingForMaintenance, InspectPreparation,
      CheckCurrent, CheckPrepared, Shutdown

\* A step that moves only the holder p keeps what is claimed of all, if it keeps
\* what is claimed of p.
LEMMA HolderStep ==
    ASSUME IInv, NEW p \in Process, owner = p,
           \A q \in Process : q # p => proc'[q] = proc[q], ProcessInv(p)'
    PROVE  \A q \in Process : ProcessInv(q)'
BY OthersNext

\* A process that is past the lock holds it.
LEMMA HoldsLock ==
    ASSUME IInv, NEW p \in Process, proc[p].step \notin {"idle", "lock"}
    PROVE  owner = p
BY DEF IInv, ProcessInv

\* Every step keeps what is claimed of the processes.
LEMMA ProcessStep ==
    ASSUME IInv, Next
    PROVE  \A q \in Process : ProcessInv(q)'
<1>0. proc \in [Process -> Proc] /\ file \in Content
  BY DEF IInv, TypeOK
<1>a. \A p \in Process : ProcessInv(p)
  BY DEF IInv
<1>1. ASSUME NEW p \in Process, NEW command, Start(p, command)
      PROVE  \A q \in Process : ProcessInv(q)'
  <2> SUFFICES ASSUME NEW q \in Process PROVE ProcessInv(q)'
    OBVIOUS
  <2>1. CASE q = p
    <3>1. proc'[q].step = "lock"
      BY <1>0, <1>1, <2>1 DEF Start, Idle
    <3> QED
      BY <3>1, QuietNext
  <2>2. CASE q # p
    <3>1. proc'[q] = proc[q]
      BY <1>0, <1>1, <2>2 DEF Start
    <3> QED
      BY <1>a, <1>1, <3>1 DEF Start, ProcessInv, At, MayCreate, Covered, CurrentSchema
  <2> QED
    BY <2>1, <2>2
<1>2. ASSUME NEW p \in Process, AcquireOwnerLock(p)
      PROVE  \A q \in Process : ProcessInv(q)'
  <2> SUFFICES ASSUME NEW q \in Process PROVE ProcessInv(q)'
    OBVIOUS
  <2>1. CASE owner = NoOwner
    <3>1. proc[q].step \in {"idle", "lock"}
      BY <2>1, <1>a, ProcessAssumption DEF ProcessInv
    <3>2. CASE q = p
      <4>1. proc'[q].step = "open" /\ owner' = q
        BY <1>0, <1>2, <2>1, <3>2 DEF AcquireOwnerLock, Goto, Proc
      <4> QED
        BY <4>1 DEF ProcessInv, At
    <3>3. CASE q # p
      <4>1. proc'[q] = proc[q]
        BY <1>0, <1>2, <2>1, <3>3 DEF AcquireOwnerLock, Goto
      <4> QED
        BY <3>1, <4>1, QuietNext
    <3> QED
      BY <3>2, <3>3
  <2>2. CASE owner # NoOwner
    <3>1. CASE q = p
      <4>1. proc'[q] = Idle
        BY <1>0, <1>2, <2>2, <3>1 DEF AcquireOwnerLock
      <4>2. proc'[q].step = "idle"
        BY <4>1, IdleStep
      <4> QED
        BY <4>2, QuietNext
    <3>2. CASE q # p
      <4>1. proc'[q] = proc[q]
        BY <1>0, <1>2, <2>2, <3>2 DEF AcquireOwnerLock
      <4>2. UNCHANGED <<owner, file, backups>>
        BY <1>2, <2>2 DEF AcquireOwnerLock
      <4> QED
        BY <1>a, <4>1, <4>2 DEF ProcessInv, At, MayCreate, Covered, CurrentSchema
    <3> QED
      BY <3>1, <3>2
  <2> QED
    BY <2>1, <2>2
<1>3. ASSUME NEW p \in Process, OpenForPreparation(p)
      PROVE  \A q \in Process : ProcessInv(q)'
  <2>1. owner = p
    BY <1>3, HoldsLock DEF OpenForPreparation, At
  <2>2. CASE Exit(p)
    BY <2>1, <2>2, ExitNext
  <2>3. CASE ~Exit(p)
    <3>1. /\ proc' = [proc EXCEPT ![p].saw = "no database", ![p].step = "inspect"]
          /\ UNCHANGED <<owner, backups>>
          /\ file' = IF file = Missing THEN Bare("empty") ELSE file
          /\ IsSQLite(file) => PreparableExisting(file, p)
      BY <1>3, <2>3 DEF OpenForPreparation
    <3>2. proc'[p].step = "inspect"
      BY <1>0, <3>1 DEF Proc
    <3>3. file'.kind # "foreign" /\ (file'.kind = "app" => file'.version <= Target[p])
      BY <3>1 DEF IsSQLite, PreparableExisting, Preparable, Fresh, Retryable, Recognised,
                  Bare
    <3>4. ProcessInv(p)'
      BY <2>1, <3>1, <3>2, <3>3 DEF ProcessInv, At
    <3>5. \A q \in Process : q # p => proc'[q] = proc[q]
      BY <1>0, <3>1
    <3> QED
      BY <2>1, <3>4, <3>5, HolderStep
  <2> QED
    BY <2>2, <2>3
<1>4. ASSUME NEW p \in Process, OpenExistingForMaintenance(p)
      PROVE  \A q \in Process : ProcessInv(q)'
  <2>1. owner = p
    BY <1>4, HoldsLock DEF OpenExistingForMaintenance, At
  <2>2. CASE Exit(p)
    BY <2>1, <2>2, ExitNext
  <2>3. CASE ~Exit(p)
    <3>1. /\ proc' = [proc EXCEPT ![p].from = file.version,
                                  ![p].step = MaintenanceStep(p)]
          /\ UNCHANGED <<owner, backups, file>>
          /\ Maintainable(file, p)
          /\ ~MayCreate(p)
      BY <1>4, <2>3 DEF OpenExistingForMaintenance
    <3>2. proc'[p].step \in {"reserve", "check"} /\ proc'[p].command = proc[p].command
      BY <1>0, <3>1 DEF Proc, MaintenanceStep
    <3>3. file'.kind # "foreign" /\ (file'.kind = "app" => file'.version <= Target[p])
      BY <3>1 DEF Maintainable, PreparableExisting, Preparable, Fresh, Retryable, Recognised
    <3>4. ProcessInv(p)'
      BY <2>1, <3>1, <3>2, <3>3 DEF ProcessInv, At, MayCreate
    <3>5. \A q \in Process : q # p => proc'[q] = proc[q]
      BY <1>0, <3>1
    <3> QED
      BY <2>1, <3>4, <3>5, HolderStep
  <2> QED
    BY <2>2, <2>3
<1>5. ASSUME NEW p \in Process, InspectPreparation(p)
      PROVE  \A q \in Process : ProcessInv(q)'
  <2>1. owner = p
    BY <1>5, HoldsLock DEF InspectPreparation, At
  <2>2. CASE Exit(p)
    BY <2>1, <2>2, ExitNext
  <2>3. CASE ~Exit(p)
    <3>1. /\ proc' = [proc EXCEPT ![p].from = file.version, ![p].begun = file,
                                  ![p].step = "configure"]
          /\ UNCHANGED <<owner, backups, file>>
          /\ At(p, "inspect")
      BY <1>5, <2>3 DEF InspectPreparation
    <3>2. /\ proc'[p].step = "configure" /\ proc'[p].begun = file
          /\ proc'[p].from = file.version
      BY <1>0, <3>1 DEF Proc
    <3>3. ProcessInv(p)'
      BY <1>a, <2>1, <3>1, <3>2 DEF ProcessInv, At
    <3>4. \A q \in Process : q # p => proc'[q] = proc[q]
      BY <1>0, <3>1
    <3> QED
      BY <2>1, <3>3, <3>4, HolderStep
  <2> QED
    BY <2>2, <2>3
<1>6. ASSUME NEW p \in Process, Configure(p)
      PROVE  \A q \in Process : ProcessInv(q)'
  <2>1. owner = p
    BY <1>6, HoldsLock DEF Configure, At
  <2>2. proc[p].begun = file /\ proc[p].from = file.version
    BY <1>6, <1>a DEF Configure, ProcessInv, At
  <2>3. file.version > 0 <=> file.kind = "app"
    BY DEF IInv, Sound
  <2>4. Target[p] > 0 /\ file.version \in Nat
    BY <1>0, TargetAssumption DEF Content
  <2>5. /\ proc'[p].begun = proc[p].begun
        /\ proc'[p].step = IF proc[p].from = Target[p] THEN "check"
                           ELSE IF NeedsBackup(p) THEN "reserve" ELSE "up"
    BY <1>0, <1>6 DEF Configure, Goto, Proc
  <2>6. file'.kind # "foreign" /\ (file'.kind = "app" => file'.version <= Target[p])
    BY <1>6, <1>a DEF Configure, ProcessInv, At, Bare
  <2>7. proc'[p].step = "reserve" => file' = file
    BY <1>6, <2>2, <2>3, <2>4, <2>5 DEF Configure, NeedsBackup
  <2>8. proc'[p].step = "up" => proc'[p].begun.kind # "app"
    BY <2>2, <2>3, <2>4, <2>5 DEF NeedsBackup
  <2>9. ProcessInv(p)'
    BY <1>6, <2>1, <2>2, <2>5, <2>6, <2>7, <2>8 DEF Configure, ProcessInv, At
  <2>10. \A q \in Process : q # p => proc'[q] = proc[q]
    BY <1>0, <1>6 DEF Configure, Goto
  <2> QED
    BY <2>1, <2>9, <2>10, HolderStep
<1>7. ASSUME NEW p \in Process, CheckCurrent(p) \/ CheckPrepared(p)
      PROVE  \A q \in Process : ProcessInv(q)'
  <2>1. owner = p
    BY <1>7, HoldsLock DEF CheckCurrent, CheckPrepared, At
  <2>2. CASE Exit(p)
    BY <2>1, <2>2, ExitNext
  <2>3. CASE ~Exit(p)
    <3>1. /\ proc' = [proc EXCEPT ![p] =
                        [Idle EXCEPT !.command = "serve", !.step = "serving"]]
          /\ UNCHANGED <<owner, backups, file>>
          /\ CurrentSchema(file, p)
      BY <1>7, <2>3 DEF CheckCurrent, CheckPrepared, Prepared
    <3>2. proc'[p].step = "serving"
      BY <1>0, <3>1 DEF Idle
    <3>3. Target[p] <= Target[p]
      BY TargetAssumption
    <3>4. ProcessInv(p)'
      BY <2>1, <3>1, <3>2, <3>3 DEF ProcessInv, At, CurrentSchema
    <3>5. \A q \in Process : q # p => proc'[q] = proc[q]
      BY <1>0, <3>1
    <3> QED
      BY <2>1, <3>4, <3>5, HolderStep
  <2> QED
    BY <2>2, <2>3
<1>8. ASSUME NEW p \in Process, ReserveBackup(p)
      PROVE  \A q \in Process : ProcessInv(q)'
  <2>1. owner = p
    BY <1>8, HoldsLock DEF ReserveBackup, At
  <2>2. CASE Exit(p)
    BY <2>1, <2>2, ExitNext
  <2>3. CASE ~Exit(p)
    <3>1. PICK n \in 1 .. MaxSequence :
            /\ backups' = backups \cup
                 {[seq |-> n, version |-> proc[p].from, content |-> Missing,
                   kind |-> IF MayCreate(p) THEN "pre-migration" ELSE "manual"]}
            /\ proc' = [proc EXCEPT ![p].backup = n, ![p].step = "vacuum"]
      BY <1>8, <2>3 DEF ReserveBackup
    <3>2. At(p, "reserve") /\ UNCHANGED <<owner, file>>
      BY <1>8, <2>3 DEF ReserveBackup
    <3>3. /\ proc'[p].step = "vacuum" /\ proc'[p].backup = n
          /\ proc'[p].begun = proc[p].begun /\ proc'[p].command = proc[p].command
      BY <1>0, <3>1 DEF Proc
    <3>4. \E b \in backups' : b.seq = n
      <4> DEFINE r == [seq |-> n, version |-> proc[p].from, content |-> Missing,
                       kind |-> IF MayCreate(p) THEN "pre-migration" ELSE "manual"]
      <4>1. r \in backups' /\ r.seq = n
        BY <3>1
      <4> QED
        BY <4>1
    <3>5. ProcessInv(p)'
      BY <1>a, <2>1, <3>2, <3>3, <3>4 DEF ProcessInv, At, MayCreate
    <3>6. \A q \in Process : q # p => proc'[q] = proc[q]
      BY <1>0, <3>1
    <3> QED
      BY <2>1, <3>5, <3>6, HolderStep
  <2> QED
    BY <2>2, <2>3
<1>9. ASSUME NEW p \in Process, VacuumInto(p)
      PROVE  \A q \in Process : ProcessInv(q)'
  <2>1. owner = p
    BY <1>9, HoldsLock DEF VacuumInto, At
  <2>2. /\ proc'[p].step = "verify" /\ proc'[p].backup = proc[p].backup
        /\ proc'[p].begun = proc[p].begun /\ proc'[p].command = proc[p].command
    BY <1>0, <1>9 DEF VacuumInto, Goto, Proc
  <2>3. PICK b \in backups : b.seq = proc[p].backup
    BY <1>9, <1>a DEF VacuumInto, ProcessInv, At
  <2>4. [b EXCEPT !.content = file] \in backups'
    BY <1>9, <2>3 DEF VacuumInto
  <2>5. b \in Backup
    BY DEF IInv, TypeOK
  <2>6. /\ [b EXCEPT !.content = file].seq = proc[p].backup
        /\ [b EXCEPT !.content = file].content = file
    BY <2>3, <2>5 DEF Backup
  <2>7. MayCreate(p) => Covered(p)'
    BY <1>9, <1>a, <2>2, <2>4, <2>6 DEF Covered, VacuumInto, ProcessInv, At
  <2>8. ProcessInv(p)'
    BY <1>9, <1>a, <2>1, <2>2, <2>7 DEF VacuumInto, ProcessInv, At, MayCreate
  <2>9. \A q \in Process : q # p => proc'[q] = proc[q]
    BY <1>0, <1>9 DEF VacuumInto, Goto
  <2> QED
    BY <2>1, <2>8, <2>9, HolderStep
<1>10. ASSUME NEW p \in Process, VerifyBackup(p)
       PROVE  \A q \in Process : ProcessInv(q)'
  <2>1. owner = p
    BY <1>10, HoldsLock DEF VerifyBackup, At
  <2>2. CASE Exit(p)
    BY <2>1, <2>2, ExitNext
  <2>3. CASE ~Exit(p)
    <3>1. /\ At(p, "verify") /\ MayCreate(p) /\ Goto(p, "prune")
          /\ UNCHANGED <<owner, file, backups>>
      BY <1>10, <2>3 DEF VerifyBackup
    <3>2. /\ proc'[p].step = "prune" /\ proc'[p].backup = proc[p].backup
          /\ proc'[p].begun = proc[p].begun
      BY <1>0, <3>1 DEF Goto, Proc
    <3>3. ProcessInv(p)'
      BY <1>a, <2>1, <3>1, <3>2 DEF ProcessInv, At, Covered
    <3>4. \A q \in Process : q # p => proc'[q] = proc[q]
      BY <1>0, <3>1 DEF Goto
    <3> QED
      BY <2>1, <3>3, <3>4, HolderStep
  <2> QED
    BY <2>2, <2>3
<1>11. ASSUME NEW p \in Process, PruneAutomatic(p)
       PROVE  \A q \in Process : ProcessInv(q)'
  <2>1. owner = p
    BY <1>11, HoldsLock DEF PruneAutomatic, At
  <2>2. PICK b \in backups : b.seq = proc[p].backup /\ b.content = proc[p].begun
    BY <1>11, <1>a DEF PruneAutomatic, ProcessInv, At, Covered
  <2>3. b \in backups'
    BY <1>11, <2>2 DEF PruneAutomatic, Expired, Reserved
  <2>4. /\ proc'[p].step \in {"prune", "up"} /\ proc'[p].backup = proc[p].backup
        /\ proc'[p].begun = proc[p].begun
    BY <1>0, <1>11 DEF PruneAutomatic, Goto, Proc, At
  <2>5. ProcessInv(p)'
    BY <1>11, <1>a, <2>1, <2>2, <2>3, <2>4 DEF PruneAutomatic, ProcessInv, At, Covered
  <2>6. \A q \in Process : q # p => proc'[q] = proc[q]
    BY <1>0, <1>11 DEF PruneAutomatic, Goto
  <2> QED
    BY <2>1, <2>5, <2>6, HolderStep
<1>12. ASSUME NEW p \in Process, EnsureVersionTable(p)
       PROVE  \A q \in Process : ProcessInv(q)'
  <2>1. owner = p
    BY <1>12, HoldsLock DEF EnsureVersionTable, At
  <2>2. file'.kind = "bootstrap"
    BY <1>12 DEF EnsureVersionTable, Bare
  <2>3. ProcessInv(p)'
    BY <1>12, <1>a, <2>1, <2>2 DEF EnsureVersionTable, ProcessInv, At, Covered
  <2> QED
    BY <1>12, <2>1, <2>3, HolderStep DEF EnsureVersionTable
<1>13. ASSUME NEW p \in Process, ApplyMigration(p)
       PROVE  \A q \in Process : ProcessInv(q)'
  <2>1. owner = p
    BY <1>13, HoldsLock DEF ApplyMigration, At
  <2>2. /\ proc'[p].step \in {"up", "recheck"} /\ proc'[p].backup = proc[p].backup
        /\ proc'[p].begun = proc[p].begun
    BY <1>0, <1>13 DEF ApplyMigration, Goto, Proc, At
  <2>3. file'.kind # "foreign" /\ (file'.kind = "app" => file'.version <= Target[p])
    <3>1. CASE file' = file
      BY <1>13, <1>a, <3>1 DEF ApplyMigration, ProcessInv, At
    <3>2. CASE file' # file
      <4>1. /\ file' = [file EXCEPT !.kind = "app", !.version = @ + 1]
            /\ file.version < Target[p]
        BY <1>13, <3>2 DEF ApplyMigration
      <4>2. file'.kind = "app" /\ file'.version = file.version + 1
        BY <1>0, <4>1 DEF Content
      <4>3. file.version \in Nat /\ Target[p] \in Nat
        BY <1>0, TargetAssumption DEF Content
      <4> QED
        BY <4>1, <4>2, <4>3
    <3> QED
      BY <3>1, <3>2
  <2>4. ProcessInv(p)'
    BY <1>13, <1>a, <2>1, <2>2, <2>3 DEF ApplyMigration, ProcessInv, At, Covered
  <2>5. \A q \in Process : q # p => proc'[q] = proc[q]
    BY <1>0, <1>13 DEF ApplyMigration, Goto
  <2> QED
    BY <2>1, <2>4, <2>5, HolderStep
<1>14. ASSUME NEW p \in Process, Write(p)
       PROVE  \A q \in Process : ProcessInv(q)'
  <2>1. owner = p
    BY <1>14, HoldsLock DEF Write, At
  <2>2. file'.kind = file.kind /\ file'.version = file.version
    BY <1>0, <1>14 DEF Write, Content
  <2>3. ProcessInv(p)'
    BY <1>14, <1>a, <2>1, <2>2 DEF Write, ProcessInv, At, CurrentSchema
  <2> QED
    BY <1>14, <2>1, <2>3, HolderStep DEF Write
<1>15. ASSUME NEW p \in Process, Shutdown(p) \/ Fail(p) \/ Crash(p)
       PROVE  \A q \in Process : ProcessInv(q)'
  <2>1. owner = p
    BY <1>15, HoldsLock DEF Shutdown, Fail, Crash, At
  <2> QED
    BY <1>15, <2>1, ExitNext DEF Shutdown, Fail, Crash
<1>16. ASSUME RemoveFile \/ Restore
       PROVE  \A q \in Process : ProcessInv(q)'
  <2> SUFFICES ASSUME NEW q \in Process PROVE ProcessInv(q)'
    OBVIOUS
  <2>1. owner = NoOwner /\ proc' = proc
    BY <1>16 DEF RemoveFile, Restore
  <2>2. proc[q].step \in {"idle", "lock"}
    BY <2>1, <1>a, ProcessAssumption DEF ProcessInv
  <2> QED
    BY <2>1, <2>2, QuietNext
<1> QED
  BY <1>1, <1>2, <1>3, <1>4, <1>5, <1>6, <1>7, <1>8, <1>9, <1>10, <1>11, <1>12, <1>13,
     <1>14, <1>15, <1>16
  DEF Next, Step

----------------------------------------------------------------------------
(* Theorems *)

\* The inductive invariant holds at first.
LEMMA InvInit == Init => IInv
<1> SUFFICES ASSUME Init PROVE IInv
  OBVIOUS
<1>1. TypeOK
  BY TypeInit
<1>2. Sound(file)
  BY TargetAssumption DEF Init, Sound, Bare
<1>3. \A p \in Process : proc[p].step = "idle"
  BY IdleStep DEF Init
<1>4. \A p \in Process : ProcessInv(p)
  BY <1>3 DEF ProcessInv, At
<1> QED
  BY <1>1, <1>2, <1>4 DEF IInv, Init

\* Every step keeps it.
LEMMA InvStep == IInv /\ [Next]_vars => IInv'
<1> SUFFICES ASSUME IInv, [Next]_vars PROVE IInv'
  OBVIOUS
<1>1. TypeOK'
  BY TypeStep DEF IInv
<1>2. CASE Next
  BY <1>1, <1>2, SoundStep, ProcessStep DEF IInv
<1>3. CASE UNCHANGED vars
  BY <1>1, <1>3 DEF IInv, vars, ProcessInv, At, MayCreate, Covered, CurrentSchema, Sound
<1> QED
  BY <1>2, <1>3

\* Database, backups, lock and the locals of every command fit together in every
\* reachable state, for any builds and any number of processes and faults.
THEOREM Invariance == Spec => []IInv
<1> QED
  BY InvInit, InvStep, PTL DEF Spec

\* A running server's database is at the version of its binary.
THEOREM ServingSafety == Spec => []ServesItsOwnSchema
<1>1. IInv => ServesItsOwnSchema
  BY DEF IInv, ProcessInv, ServesItsOwnSchema
<1> QED
  BY <1>1, Invariance, PTL

\* A released database is migrated only under a complete backup of it.
THEOREM MigrationSafety == Spec => []MigrationIsProtected
<1>1. IInv => MigrationIsProtected
  BY DEF IInv, ProcessInv, MigrationIsProtected, Covered
<1> QED
  BY <1>1, Invariance, PTL

\* A file that a process must refuse is not changed and not backed up by it.
THEOREM RefusalSafety == Spec => RefusedIsUntouched
<1>1. ASSUME IInv, [Next]_vars, NEW p \in Process, owner = p,
             file.kind = "foreign" \/ (file.kind = "app" /\ file.version > Target[p])
      PROVE  UNCHANGED <<file, backups>>
  <2>1. proc[p].step \in {"idle", "lock", "open"}
    <3>1. file.version \in Nat /\ Target[p] \in Nat
      BY <1>1, TargetAssumption DEF IInv, TypeOK, Content
    <3> QED
      BY <1>1, <3>1 DEF IInv, ProcessInv
  <2>2. \A q \in Process : q # p => proc[q].step \in {"idle", "lock"}
    BY <1>1 DEF IInv, ProcessInv
  <2>3. file # Missing
    BY <1>1 DEF Missing, Bare
  <2>4. ASSUME NEW q \in Process, Step(q)
        PROVE  UNCHANGED <<file, backups>>
    <3>1. proc[q].step \in {"idle", "lock", "open"}
      BY <2>1, <2>2
    <3>2. CASE OpenForPreparation(q)
      BY <2>3, <3>2 DEF OpenForPreparation
    <3>3. CASE Fail(q)
      BY <3>1, <3>3 DEF Fail
    <3> QED
      BY <2>4, <3>1, <3>2, <3>3
      DEF Step, Start, AcquireOwnerLock, OpenExistingForMaintenance, InspectPreparation,
          Configure, CheckCurrent, ReserveBackup, VacuumInto, VerifyBackup, PruneAutomatic,
          EnsureVersionTable, ApplyMigration, CheckPrepared, Write, Shutdown, Crash, At
  <2>5. ~RemoveFile /\ ~Restore
    BY <1>1, ProcessAssumption DEF RemoveFile, Restore
  <2> QED
    BY <1>1, <2>4, <2>5 DEF Next, vars
<1>2. IInv /\ [Next]_vars =>
        [\A p \in Process :
           /\ owner = p
           /\ file.kind = "foreign" \/ (file.kind = "app" /\ file.version > Target[p])
           => UNCHANGED <<file, backups>>]_vars
  BY <1>1
<1> QED
  BY <1>2, Invariance, PTL DEF Spec, RefusedIsUntouched

\* No step removes or changes a finished manual backup.
THEOREM ManualSafety == Spec => ManualBackupsStay
<1>1. ASSUME IInv, [Next]_vars, NEW b \in backups, b.kind = "manual",
             \A p \in Process : proc[p].backup # b.seq
      PROVE  b \in backups'
  <2>1. CASE backups \subseteq backups'
    BY <2>1
  <2>2. ASSUME NEW p \in Process, VacuumInto(p) PROVE b \in backups'
    BY <1>1, <2>2 DEF VacuumInto
  <2>3. ASSUME NEW p \in Process, VerifyBackup(p) \/ Fail(p) PROVE b \in backups'
    BY <1>1, <2>3 DEF VerifyBackup, Fail, Reserved
  <2>4. ASSUME NEW p \in Process, PruneAutomatic(p) PROVE b \in backups'
    BY <1>1, <2>4 DEF PruneAutomatic, Expired, Automatic
  <2>5. ASSUME NEW p \in Process, ReserveBackup(p) PROVE b \in backups'
    BY <1>1, <2>5 DEF ReserveBackup
  <2> QED
    BY <1>1, <2>1, <2>2, <2>3, <2>4, <2>5
    DEF Next, vars, Step, Start, AcquireOwnerLock, OpenForPreparation,
        OpenExistingForMaintenance, InspectPreparation, Configure, CheckCurrent,
        EnsureVersionTable, ApplyMigration, CheckPrepared, Write, Shutdown, Crash,
        RemoveFile, Restore
<1>2. IInv /\ [Next]_vars =>
        [\A b \in backups :
           /\ b.kind = "manual"
           /\ \A p \in Process : proc[p].backup # b.seq
           => b \in backups']_vars
  BY <1>1
<1> QED
  BY <1>2, Invariance, PTL DEF Spec, ManualBackupsStay

----------------------------------------------------------------------------
(* An interrupted start can be retried *)

\* Some build can read f.
Known(f) == f.kind = "app" => \E p \in Process : f.version <= Target[p]

\* The database and every backup that could be put in its place have a version
\* that some build has.
KnownInv == Known(file) /\ \A b \in backups : Known(b.content)

\* No step makes a version that no build has: a migration stops at the target of
\* the process that applies it, and an administrator restores what was there.
LEMMA KnownStep ==
    ASSUME IInv, KnownInv, Next
    PROVE  KnownInv'
<1> USE DEF KnownInv
<1>1. CASE UNCHANGED <<file, backups>>
  BY <1>1 DEF Known
<1>2. \A k \in {"missing", "empty", "bare", "bootstrap"} : Known(Bare(k))
  BY DEF Known, Bare
<1>3. ASSUME NEW p \in Process, OpenForPreparation(p) \/ Configure(p) \/ EnsureVersionTable(p)
      PROVE  Known(file)' /\ UNCHANGED backups
  BY <1>2, <1>3 DEF OpenForPreparation, Configure, EnsureVersionTable, Known
<1>4. ASSUME NEW p \in Process, ReserveBackup(p)
      PROVE  UNCHANGED file /\ \A b \in backups' : Known(b.content)
  <2>1. \A b \in backups' : b \in backups \/ b.content = Missing
    <3>1. CASE backups' = backups
      BY <3>1
    <3>2. CASE backups' # backups
      <4>1. PICK n \in 1 .. MaxSequence :
              backups' = backups \cup
                {[seq |-> n, version |-> proc[p].from, content |-> Missing,
                  kind |-> IF MayCreate(p) THEN "pre-migration" ELSE "manual"]}
        BY <1>4, <3>2 DEF ReserveBackup
      <4> QED
        BY <4>1
    <3> QED
      BY <3>1, <3>2
  <2> QED
    BY <1>2, <1>4, <2>1 DEF ReserveBackup, Missing
<1>5. ASSUME NEW p \in Process, VacuumInto(p)
      PROVE  UNCHANGED file /\ \A b \in backups' : Known(b.content)
  <2>1. \A b \in backups' : b \in backups \/ b.content = file
    BY <1>5 DEF VacuumInto, IInv, TypeOK, Backup
  <2> QED
    BY <1>5, <2>1 DEF VacuumInto
<1>6. ASSUME NEW p \in Process,
             VerifyBackup(p) \/ PruneAutomatic(p) \/ Fail(p) \/ Crash(p)
      PROVE  UNCHANGED file /\ backups' \subseteq backups
  BY <1>6 DEF VerifyBackup, PruneAutomatic, Fail, Crash
<1>7. ASSUME NEW p \in Process, ApplyMigration(p)
      PROVE  Known(file)' /\ UNCHANGED backups
  <2>1. CASE file' = file
    BY <1>7, <2>1 DEF ApplyMigration, Known
  <2>2. CASE file' # file
    <3>1. /\ file' = [file EXCEPT !.kind = "app", !.version = @ + 1]
          /\ file.version < Target[p] /\ UNCHANGED backups
      BY <1>7, <2>2 DEF ApplyMigration
    <3>2. file'.version = file.version + 1 /\ file.version \in Nat /\ Target[p] \in Nat
      BY <3>1, TargetAssumption DEF IInv, TypeOK, Content
    <3> QED
      BY <3>1, <3>2 DEF Known
  <2> QED
    BY <2>1, <2>2
<1>8. ASSUME NEW p \in Process, Write(p)
      PROVE  Known(file)' /\ UNCHANGED backups
  <2>1. file'.kind = file.kind /\ file'.version = file.version
    BY <1>8 DEF Write, IInv, TypeOK, Content
  <2> QED
    BY <1>8, <2>1 DEF Write, Known
<1>9. ASSUME RemoveFile \/ Restore
      PROVE  Known(file)' /\ UNCHANGED backups
  BY <1>2, <1>9 DEF RemoveFile, Restore, Missing, Known
<1> QED
  BY <1>1, <1>3, <1>4, <1>5, <1>6, <1>7, <1>8, <1>9
  DEF Next, Step, Start, AcquireOwnerLock, OpenExistingForMaintenance, InspectPreparation,
      CheckCurrent, CheckPrepared, Shutdown, Known

\* Wherever a start was interrupted, some build can take the file up again, unless
\* it is somebody else's or was left without any object.
THEOREM RetrySafety == Spec => []InterruptedStartCanBeRetried
<1>1. Init => KnownInv
  <2> SUFFICES ASSUME Init PROVE KnownInv
    OBVIOUS
  <2>1. CASE \E k \in {"missing", "empty", "foreign"} : file = Bare(k)
    BY <2>1 DEF Init, KnownInv, Known, Bare
  <2>2. ASSUME NEW p \in Process, file = [kind |-> "app", version |-> Target[p], data |-> 0]
        PROVE  KnownInv
    BY <2>2, TargetAssumption DEF Init, KnownInv, Known
  <2> QED
    BY <2>1, <2>2 DEF Init
<1>2. IInv /\ KnownInv /\ [Next]_vars => KnownInv'
  <2>1. ASSUME KnownInv, UNCHANGED vars PROVE KnownInv'
    BY <2>1 DEF KnownInv, Known, vars
  <2> QED
    BY <2>1, KnownStep
<1>3. IInv /\ KnownInv => InterruptedStartCanBeRetried
  <2> SUFFICES ASSUME IInv, Known(file), file.kind \notin {"foreign", "bare"}
               PROVE  \E p \in Process : ~IsSQLite(file) \/ PreparableExisting(file, p)
    BY DEF KnownInv, InterruptedStartCanBeRetried
  <2>1. file.kind \in {"missing", "empty", "bootstrap", "app"}
    BY DEF IInv, TypeOK, Content
  <2>2. CASE file.kind = "app"
    BY <2>2 DEF Known, PreparableExisting, Preparable, Recognised, Fresh
  <2>3. CASE file.kind # "app"
    BY <2>1, <2>3, ProcessAssumption
    DEF IsSQLite, PreparableExisting, Preparable, Retryable, Fresh
  <2> QED
    BY <2>2, <2>3
<1> QED
  BY <1>1, <1>2, <1>3, Invariance, PTL DEF Spec

----------------------------------------------------------------------------
(* What a server last had can be got back: the backup directory *)

\* Backups that cleanup would still remove.
Pending ==
    {proc[p].backup : p \in {q \in Process : proc[q].step \in {"vacuum", "verify"}}}

Reserving == {"vacuum", "verify", "prune"}

\* What holds of the reservation of process p, from reserveBackup to the end of
\* pruneAutomatic.
ReservationInv(p) ==
    /\ proc[p].step \in Reserving => \A b \in backups : b.seq <= proc[p].backup
    /\ At(p, "vacuum") => \A b \in Reserved(p) : b.content = Missing
    /\ At(p, "prune") => proc[p].begun = file

\* The directory is finite, no two backups share a sequence number, and the
\* reservation of whoever holds the lock is the newest backup.
DirectoryInv ==
    /\ IsFiniteSet(backups)
    /\ \A b, c \in backups : b.seq = c.seq => b = c
    /\ \A p \in Process : ReservationInv(p)

\* A set of backups is as large as the set of its sequence numbers.
LEMMA SequenceCount ==
    ASSUME DirectoryInv, NEW S \in SUBSET backups
    PROVE  /\ IsFiniteSet(S) /\ IsFiniteSet({b.seq : b \in S})
           /\ Cardinality({b.seq : b \in S}) = Cardinality(S)
           /\ Cardinality(S) \in Nat
<1> DEFINE f == [b \in S |-> b.seq]
           T == {b.seq : b \in S}
<1>1. IsFiniteSet(S)
  BY FS_Subset DEF DirectoryInv
<1>2. f \in Surjection(S, T)
  BY DEF Surjection
<1>3. f \in Injection(S, T)
  BY DEF Injection, IsInjective, DirectoryInv
<1> HIDE DEF f, T
<1>4. IsFiniteSet(T) /\ Cardinality(T) = Cardinality(S)
  BY <1>1, <1>2, <1>3, FS_Surjection
<1> QED
  BY <1>1, <1>4, FS_CardinalityType DEF T

\* Next to the holder of the lock nobody is past it.
LEMMA OthersWait ==
    ASSUME IInv, NEW p \in Process, owner = p, NEW q \in Process, q # p
    PROVE  proc[q].step \in {"idle", "lock"}
BY DEF IInv, ProcessInv

\* Only these steps have to do with a reservation; every other one leaves nobody
\* in the middle of one.
LEMMA NoReservation ==
    ASSUME IInv, Next,
           \A p \in Process : ~ReserveBackup(p) /\ ~VacuumInto(p) /\ ~VerifyBackup(p)
                              /\ ~PruneAutomatic(p)
    PROVE  /\ \A q \in Process : \/ proc'[q] = proc[q] /\ file' = file
                                 \/ proc'[q].step \notin Reserving \cup {"up"}
                                 \/ /\ proc'[q].step = "up"
                                    /\ Configure(q) \/ EnsureVersionTable(q)
                                       \/ ApplyMigration(q)
           /\ backups' \subseteq backups
<1> USE DEF Reserving
<1>0. proc \in [Process -> Proc] /\ file \in Content
  BY DEF IInv, TypeOK
<1> DEFINE Quiet(q) == \/ proc'[q] = proc[q] /\ file' = file
                       \/ proc'[q].step \notin Reserving \cup {"up"}
                       \/ /\ proc'[q].step = "up"
                          /\ Configure(q) \/ EnsureVersionTable(q) \/ ApplyMigration(q)
<1>1. ASSUME NEW p \in Process, owner = p, \A q \in Process : q # p => proc'[q] = proc[q],
             Quiet(p)
      PROVE  \A q \in Process : Quiet(q)
  BY <1>1, OthersWait
<1>2. ASSUME NEW p \in Process, owner = p, Exit(p)
      PROVE  \A q \in Process : Quiet(q)
  <2>1. proc'[p].step = "idle"
    BY <1>0, <1>2, IdleStep DEF Exit
  <2>2. \A q \in Process : q # p => proc'[q] = proc[q]
    BY <1>0, <1>2 DEF Exit
  <2> QED
    BY <1>1, <1>2, <2>1, <2>2
<1>3. ASSUME NEW p \in Process, NEW command, Start(p, command)
      PROVE  (\A q \in Process : Quiet(q)) /\ backups' = backups
  <2>1. proc'[p].step = "lock"
    BY <1>0, <1>3 DEF Start, Idle
  <2>2. \A q \in Process : q # p => proc'[q] = proc[q]
    BY <1>0, <1>3 DEF Start
  <2> QED
    BY <1>3, <2>1, <2>2 DEF Start
<1>4. ASSUME NEW p \in Process, AcquireOwnerLock(p)
      PROVE  (\A q \in Process : Quiet(q)) /\ backups' = backups
  <2>1. proc'[p].step \in {"open", "idle"}
    BY <1>0, <1>4, IdleStep DEF AcquireOwnerLock, Goto, Proc
  <2>2. \A q \in Process : q # p => proc'[q] = proc[q]
    BY <1>0, <1>4 DEF AcquireOwnerLock, Goto
  <2> QED
    BY <1>4, <2>1, <2>2 DEF AcquireOwnerLock
<1>5. ASSUME NEW p \in Process,
             OpenForPreparation(p) \/ OpenExistingForMaintenance(p) \/ InspectPreparation(p)
             \/ CheckCurrent(p) \/ CheckPrepared(p)
      PROVE  (\A q \in Process : Quiet(q)) /\ backups' = backups
  <2>1. owner = p
    BY <1>5, HoldsLock DEF OpenForPreparation, OpenExistingForMaintenance,
                           InspectPreparation, CheckCurrent, CheckPrepared, At
  <2>2. backups' = backups
    BY <1>5 DEF OpenForPreparation, OpenExistingForMaintenance,
                InspectPreparation, CheckCurrent, CheckPrepared
  <2>3. CASE Exit(p)
    BY <1>2, <2>1, <2>2, <2>3
  <2>4. CASE ~Exit(p)
    <3>1. \A q \in Process : q # p => proc'[q] = proc[q]
      BY <1>0, <1>5, <2>4
      DEF OpenForPreparation, OpenExistingForMaintenance, InspectPreparation, CheckCurrent,
          CheckPrepared, Prepared
    <3>2. proc'[p].step \in {"inspect", "reserve", "check", "configure", "serving"}
      <4>1. CASE OpenForPreparation(p)
        BY <1>0, <2>4, <4>1 DEF OpenForPreparation, Proc
      <4>2. CASE OpenExistingForMaintenance(p)
        BY <1>0, <2>4, <4>2 DEF OpenExistingForMaintenance, MaintenanceStep, Proc
      <4>3. CASE InspectPreparation(p)
        BY <1>0, <2>4, <4>3 DEF InspectPreparation, Proc
      <4>4. CASE CheckCurrent(p) \/ CheckPrepared(p)
        <5>1. proc' = [proc EXCEPT ![p] =
                         [Idle EXCEPT !.command = "serve", !.step = "serving"]]
          BY <2>4, <4>4 DEF CheckCurrent, CheckPrepared, Prepared
        <5> QED
          BY <1>0, <5>1 DEF Idle
      <4> QED
        BY <1>5, <4>1, <4>2, <4>3, <4>4
    <3> QED
      BY <1>1, <2>1, <2>2, <3>1, <3>2
  <2> QED
    BY <2>3, <2>4
<1>6. ASSUME NEW p \in Process, Configure(p) \/ EnsureVersionTable(p) \/ ApplyMigration(p)
      PROVE  (\A q \in Process : Quiet(q)) /\ backups' = backups
  <2>1. owner = p
    BY <1>6, HoldsLock DEF Configure, EnsureVersionTable, ApplyMigration, At
  <2>2. backups' = backups
    BY <1>6 DEF Configure, EnsureVersionTable, ApplyMigration
  <2>3. \A q \in Process : q # p => proc'[q] = proc[q]
    BY <1>0, <1>6 DEF Configure, EnsureVersionTable, ApplyMigration, Goto
  <2>4. proc'[p].step \in {"check", "reserve", "up", "recheck"}
    BY <1>0, <1>6 DEF Configure, EnsureVersionTable, ApplyMigration, Goto, Proc, At
  <2> QED
    BY <1>1, <1>6, <2>1, <2>2, <2>3, <2>4
<1>7. ASSUME NEW p \in Process, Write(p)
      PROVE  (\A q \in Process : Quiet(q)) /\ backups' = backups
  <2>1. owner = p
    BY <1>7, HoldsLock DEF Write, At
  <2> QED
    BY <1>1, <1>7, <2>1 DEF Write, At
<1>8. ASSUME NEW p \in Process, Shutdown(p) \/ Fail(p) \/ Crash(p)
      PROVE  (\A q \in Process : Quiet(q)) /\ backups' \subseteq backups
  <2>1. owner = p
    BY <1>8, HoldsLock DEF Shutdown, Fail, Crash, At
  <2> QED
    BY <1>2, <1>8, <2>1 DEF Shutdown, Fail, Crash
<1>9. ASSUME RemoveFile \/ Restore
      PROVE  (\A q \in Process : Quiet(q)) /\ backups' = backups
  <2>1. \A q \in Process : proc[q].step \in {"idle", "lock"}
    BY <1>9, ProcessAssumption DEF RemoveFile, Restore, IInv, ProcessInv
  <2> QED
    BY <1>9, <2>1 DEF RemoveFile, Restore
<1> QED
  BY <1>3, <1>4, <1>5, <1>6, <1>7, <1>8, <1>9 DEF Next, Step

\* Backups only go, and nobody is in the middle of a reservation or he stays there.
LEMMA DirectoryShrinks ==
    ASSUME DirectoryInv, backups' \subseteq backups,
           \A q \in Process : \/ proc'[q] = proc[q] /\ file' = file
                              \/ proc'[q].step \notin Reserving
    PROVE  DirectoryInv'
<1>1. IsFiniteSet(backups')
  BY FS_Subset DEF DirectoryInv
<1>2. \A b, c \in backups' : b.seq = c.seq => b = c
  BY DEF DirectoryInv
<1>3. ASSUME NEW q \in Process PROVE ReservationInv(q)'
  BY DEF DirectoryInv, ReservationInv, Reserving, At, Reserved
<1> QED
  BY <1>1, <1>2, <1>3 DEF DirectoryInv

\* reserveBackup adds the newest backup, without content.
LEMMA Reserves ==
    ASSUME IInv, NEW p \in Process, ReserveBackup(p), ~Exit(p)
    PROVE  \E r \in Backup :
             /\ backups' = backups \cup {r}
             /\ r.content = Missing
             /\ \A b \in backups : b.seq < r.seq
             /\ proc'[p].backup = r.seq /\ proc'[p].step = "vacuum"
             /\ \A q \in Process : q # p => proc'[q] = proc[q]
             /\ file' = file
<1>0. proc \in [Process -> Proc]
  BY DEF IInv, TypeOK
<1>1. PICK n \in 1 .. MaxSequence :
        /\ IsNextSequence(n)
        /\ backups' = backups \cup
             {[seq |-> n, version |-> proc[p].from, content |-> Missing,
               kind |-> IF MayCreate(p) THEN "pre-migration" ELSE "manual"]}
        /\ proc' = [proc EXCEPT ![p].backup = n, ![p].step = "vacuum"]
  BY DEF ReserveBackup
<1>2. PICK r : r = [seq |-> n, version |-> proc[p].from, content |-> Missing,
                    kind |-> IF MayCreate(p) THEN "pre-migration" ELSE "manual"]
  OBVIOUS
<1>3. /\ r.seq = n /\ r.content = Missing
      /\ backups' = backups \cup {r}
  BY <1>1, <1>2
<1>4. r \in Backup
  <2>1. n \in Nat \ {0}
    BY BoundAssumption
  <2>2. proc[p].from \in Nat
    BY <1>0 DEF Proc
  <2> QED
    BY <1>2, <2>1, <2>2, MissingType DEF Backup
<1>5. proc'[p].backup = n /\ proc'[p].step = "vacuum"
  BY <1>0, <1>1 DEF Proc
<1>6. \A q \in Process : q # p => proc'[q] = proc[q]
  BY <1>0, <1>1
<1>7. file' = file /\ \A b \in backups : b.seq < n
  BY <1>1 DEF ReserveBackup, IsNextSequence
<1> QED
  BY <1>3, <1>4, <1>5, <1>6, <1>7

\* VACUUM INTO changes the content of one backup.
LEMMA Vacuums ==
    ASSUME IInv, DirectoryInv, NEW p \in Process, VacuumInto(p)
    PROVE  /\ IsFiniteSet(backups')
           /\ \A b, c \in backups' : b.seq = c.seq => b = c
           /\ \A c \in backups' : \E b \in backups :
                /\ c.seq = b.seq /\ c.kind = b.kind
                /\ c = b \/ (b.seq = proc[p].backup /\ c.content = file)
           /\ \A b \in backups : b.seq # proc[p].backup => b \in backups'
           /\ proc'[p].backup = proc[p].backup /\ proc'[p].step = "verify"
           /\ \A q \in Process : q # p => proc'[q] = proc[q]
           /\ file' = file
<1> DEFINE v == [b \in backups |-> IF b.seq = proc[p].backup
                                     THEN [b EXCEPT !.content = file] ELSE b]
<1>0. proc \in [Process -> Proc] /\ backups \subseteq Backup
  BY DEF IInv, TypeOK
<1>1. backups' = {v[b] : b \in backups}
  BY DEF VacuumInto
<1>2. \A b \in backups : /\ v[b].seq = b.seq /\ v[b].kind = b.kind
                         /\ b.seq = proc[p].backup => v[b].content = file
                         /\ b.seq # proc[p].backup => v[b] = b
  BY <1>0 DEF Backup
<1>3. v \in Surjection(backups, backups')
  BY <1>1 DEF Surjection
<1> HIDE DEF v
<1>4. IsFiniteSet(backups')
  BY <1>3, FS_Surjection DEF DirectoryInv
<1>5. \A b, c \in backups' : b.seq = c.seq => b = c
  BY <1>1, <1>2 DEF DirectoryInv
<1>6. proc'[p].backup = proc[p].backup /\ proc'[p].step = "verify" /\ file' = file
  BY <1>0 DEF VacuumInto, Goto, Proc
<1>7. \A q \in Process : q # p => proc'[q] = proc[q]
  BY <1>0 DEF VacuumInto, Goto
<1>8. ASSUME NEW c \in backups'
      PROVE  \E b \in backups :
                /\ c.seq = b.seq /\ c.kind = b.kind
                /\ c = b \/ (b.seq = proc[p].backup /\ c.content = file)
  BY <1>1, <1>2
<1>9. \A b \in backups : b.seq # proc[p].backup => b \in backups'
  BY <1>1, <1>2
<1> QED
  BY <1>4, <1>5, <1>6, <1>7, <1>8, <1>9

\* The holder of the lock returns.
LEMMA Exits ==
    ASSUME IInv, NEW p \in Process, owner = p, Exit(p)
    PROVE  \A q \in Process : proc'[q].step \in {"idle", "lock"}
<1>0. proc \in [Process -> Proc]
  BY DEF IInv, TypeOK
<1>1. proc'[p].step = "idle"
  BY <1>0, IdleStep DEF Exit
<1>2. \A q \in Process : q # p => proc'[q] = proc[q]
  BY <1>0 DEF Exit
<1> QED
  BY <1>1, <1>2, OthersWait

\* Every step keeps the directory in order.
LEMMA DirectoryStep ==
    ASSUME IInv, DirectoryInv, Next
    PROVE  DirectoryInv'
<1> USE DEF Reserving
<1>0. proc \in [Process -> Proc] /\ backups \subseteq Backup
  BY DEF IInv, TypeOK
<1>1. ASSUME NEW p \in Process, owner = p, Exit(p), backups' \subseteq backups
      PROVE  DirectoryInv'
  BY <1>1, Exits, DirectoryShrinks
<1>2. ASSUME NEW p \in Process, ReserveBackup(p), ~Exit(p)
      PROVE  DirectoryInv'
  <2>1. PICK r \in Backup :
             /\ backups' = backups \cup {r}
             /\ r.content = Missing
             /\ \A b \in backups : b.seq < r.seq
             /\ proc'[p].backup = r.seq /\ proc'[p].step = "vacuum"
             /\ \A q \in Process : q # p => proc'[q] = proc[q]
             /\ file' = file
    BY <1>2, Reserves
  <2>2. IsFiniteSet(backups')
    BY <2>1, FS_AddElement DEF DirectoryInv
  <2>3. \A b \in backups' : b.seq \in Nat
    BY <1>0, <2>1 DEF Backup
  <2>4. \A b, c \in backups' : b.seq = c.seq => b = c
    BY <1>0, <2>1, <2>3 DEF DirectoryInv
  <2>5. \A b \in backups' : b.seq <= r.seq /\ (b.seq = r.seq => b = r)
    BY <2>1, <2>3, <2>4
  <2>6. ReservationInv(p)'
    BY <2>1, <2>5 DEF ReservationInv, Reserved, At
  <2>7. owner = p
    BY <1>2, HoldsLock DEF ReserveBackup, At
  <2>8. ASSUME NEW q \in Process, q # p PROVE ReservationInv(q)'
    BY <2>1, <2>7, <2>8, OthersWait DEF ReservationInv, At
  <2> QED
    BY <2>2, <2>4, <2>6, <2>8 DEF DirectoryInv
<1>3. ASSUME NEW p \in Process, VacuumInto(p)
      PROVE  DirectoryInv'
  <2>1. owner = p
    BY <1>3, HoldsLock DEF VacuumInto, At
  <2>2. \A b \in backups : b.seq <= proc[p].backup
    BY <1>3 DEF VacuumInto, At, DirectoryInv, ReservationInv
  <2>3. /\ IsFiniteSet(backups') /\ \A b, c \in backups' : b.seq = c.seq => b = c
        /\ \A c \in backups' : \E b \in backups : c.seq = b.seq
        /\ proc'[p].backup = proc[p].backup /\ proc'[p].step = "verify"
        /\ \A q \in Process : q # p => proc'[q] = proc[q]
    BY <1>3, Vacuums
  <2>4. ReservationInv(p)'
    BY <2>2, <2>3 DEF ReservationInv, At
  <2>5. ASSUME NEW q \in Process, q # p PROVE ReservationInv(q)'
    BY <2>1, <2>3, <2>5, OthersWait DEF ReservationInv, At
  <2> QED
    BY <2>3, <2>4, <2>5 DEF DirectoryInv
<1>4. ASSUME NEW p \in Process, VerifyBackup(p), ~Exit(p)
      PROVE  DirectoryInv'
  <2>1. owner = p
    BY <1>4, HoldsLock DEF VerifyBackup, At
  <2>2. At(p, "verify") /\ MayCreate(p) /\ Goto(p, "prune") /\ UNCHANGED <<file, backups>>
    BY <1>4 DEF VerifyBackup
  <2>3. /\ proc'[p].step = "prune" /\ proc'[p].backup = proc[p].backup
        /\ proc'[p].begun = proc[p].begun
        /\ \A q \in Process : q # p => proc'[q] = proc[q]
    BY <1>0, <2>2 DEF Goto, Proc
  <2>4. proc[p].begun = file
    BY <2>2 DEF IInv, ProcessInv, At
  <2>5. ReservationInv(p)'
    BY <2>2, <2>3, <2>4 DEF ReservationInv, At, DirectoryInv
  <2>6. ASSUME NEW q \in Process, q # p PROVE ReservationInv(q)'
    BY <2>1, <2>3, <2>6, OthersWait DEF ReservationInv, At
  <2> QED
    BY <2>2, <2>5, <2>6 DEF DirectoryInv
<1>5. ASSUME NEW p \in Process, PruneAutomatic(p)
      PROVE  DirectoryInv'
  <2>1. file' = file /\ backups' \subseteq backups
    BY <1>5 DEF PruneAutomatic
  <2>2. \A q \in Process : proc'[q] = proc[q] \/ proc'[q].step = "up"
    BY <1>0, <1>5 DEF PruneAutomatic, Goto, Proc
  <2> QED
    BY <2>1, <2>2, DirectoryShrinks
<1>6. ASSUME NEW p \in Process, ReserveBackup(p) \/ VerifyBackup(p), Exit(p)
      PROVE  DirectoryInv'
  <2>1. owner = p
    BY <1>6, HoldsLock DEF ReserveBackup, VerifyBackup, At
  <2>2. backups' \subseteq backups
    <3>1. CASE VerifyBackup(p)
      BY <3>1 DEF VerifyBackup
    <3>2. CASE ReserveBackup(p)
      <4>1. proc'[p].step = "idle"
        BY <1>0, <1>6, IdleStep DEF Exit
      <4>2. ASSUME NEW n, proc' = [proc EXCEPT ![p].backup = n, ![p].step = "vacuum"]
            PROVE  FALSE
        BY <1>0, <4>1, <4>2 DEF Proc
      <4> QED
        BY <3>2, <4>2 DEF ReserveBackup
    <3> QED
      BY <1>6, <3>1, <3>2
  <2> QED
    BY <1>1, <1>6, <2>1, <2>2
<1>7. CASE \A p \in Process : ~ReserveBackup(p) /\ ~VacuumInto(p) /\ ~VerifyBackup(p)
                              /\ ~PruneAutomatic(p)
  BY <1>7, NoReservation, DirectoryShrinks
<1> QED
  BY <1>2, <1>3, <1>4, <1>5, <1>6, <1>7

----------------------------------------------------------------------------
(* What a server last had can be got back: the newest backups *)

\* f is what the server had, or something that an attempt to upgrade it left.
NotOlder(f) == f = lastServed \/ f = Missing \/ f.version > lastServed.version

Recent(n) == {b.seq : b \in {c \in Automatic : c.seq >= n}} \ Pending

\* From sequence number n on there is nothing older than what the server had, and
\* either a copy of it or so many automatic backups that it could be pruned.
Kept(n) ==
    /\ \A b \in Automatic : b.seq >= n => NotOlder(b.content)
    /\ \/ \E b \in backups : b.seq >= n /\ b.seq \notin Pending /\ b.content = lastServed
       \/ Retention <= Cardinality(Recent(n))

\* The file is no longer what the server had, or is about to be changed.
Exposed == file # lastServed \/ \E p \in Process : At(p, "up")

ServedInv ==
    lastServed # Missing =>
        /\ lastServed.kind = "app"
        /\ file # lastServed => file.kind = "app" /\ file.version > lastServed.version
        /\ Exposed => \E n \in Nat : Kept(n)

\* What is recent stays so when only older and unfinished backups change.
LEMMA KeptStays ==
    ASSUME NEW n \in Nat, Kept(n), IsFiniteSet(backups'), lastServed' = lastServed,
           \A b \in Automatic' : b.seq >= n => NotOlder(b.content),
           \A b \in backups : b.seq >= n /\ b.seq \notin Pending =>
               b \in backups' /\ b.seq \notin Pending'
    PROVE  Kept(n)'
<1>1. \A b \in Automatic' : b.seq >= n => NotOlder(b.content)'
  BY DEF NotOlder
<1>2. CASE \E b \in backups : b.seq >= n /\ b.seq \notin Pending /\ b.content = lastServed
  BY <1>1, <1>2 DEF Kept
<1>3. CASE Retention <= Cardinality(Recent(n))
  <2>1. Recent(n) \subseteq Recent(n)'
    BY DEF Recent, Automatic
  <2>2. IsFiniteSet(Recent(n)')
    <3> DEFINE A == {c \in Automatic' : c.seq >= n}
               f == [b \in A |-> b.seq]
               T == {b.seq : b \in A}
    <3>1. IsFiniteSet(A)
      BY FS_Subset DEF Automatic
    <3>2. f \in Surjection(A, T)
      BY DEF Surjection
    <3>3. Recent(n)' \subseteq T
      BY DEF Recent
    <3> HIDE DEF A, f, T
    <3>4. IsFiniteSet(T)
      BY <3>1, <3>2, FS_Surjection
    <3> QED
      BY <3>3, <3>4, FS_Subset
  <2>3. /\ Cardinality(Recent(n)) <= Cardinality(Recent(n)')
        /\ Cardinality(Recent(n)) \in Nat /\ Cardinality(Recent(n)') \in Nat
    BY <2>1, <2>2, FS_Subset, FS_CardinalityType
  <2>4. Retention <= Cardinality(Recent(n)')
    BY <1>3, <2>3, RetentionAssumption
  <2> QED
    BY <1>1, <2>4 DEF Kept
<1> QED
  BY <1>2, <1>3 DEF Kept

\* Nobody is in the middle of a reservation.
LEMMA NonePending ==
    ASSUME IInv, NEW p \in Process, owner = p, proc[p].step \notin {"vacuum", "verify"}
    PROVE  Pending = {}
BY OthersWait DEF Pending

\* Only the holder of the lock has a reservation.
LEMMA HolderPending ==
    ASSUME IInv, NEW p \in Process, owner = p, proc[p].step \in {"vacuum", "verify"}
    PROVE  Pending = {proc[p].backup}
BY OthersWait DEF Pending

\* The backup that pruning takes is older than what is kept, or as many automatic
\* backups as the retention asks for are left.
LEMMA PruneKeeps ==
    ASSUME IInv, DirectoryInv, NEW p \in Process, At(p, "prune"), TooMany,
           backups' = backups \ Expired(p), UNCHANGED <<proc, lastServed>>,
           IsFiniteSet(backups'), NEW n \in Nat, Kept(n)
    PROVE  Kept(n)'
<1>0. backups \subseteq Backup
  BY DEF IInv, TypeOK
<1>1. owner = p
  BY HoldsLock DEF At
<1>2. Pending = {} /\ Pending' = {}
  <2>1. Pending = {}
    BY <1>1, NonePending DEF At
  <2> QED
    BY <2>1 DEF Pending
<1>3. \A b \in Automatic' : b \in Automatic
  BY DEF Automatic
<1>4. \A b \in Automatic' : b.seq >= n => NotOlder(b.content)
  BY <1>3 DEF Kept
<1>5. CASE \A e \in Expired(p) : e.seq < n
  <2>1. \A b \in backups : b.seq >= n => b \in backups'
    BY <1>0, <1>5 DEF Backup
  <2> QED
    BY <1>2, <1>4, <2>1, KeptStays
<1>6. ASSUME NEW e \in Expired(p), ~(e.seq < n)
      PROVE  Kept(n)'
  <2>1. /\ e \in Automatic /\ e \in backups
        /\ \A c \in Automatic \ Reserved(p) : e.seq <= c.seq
    BY DEF Expired, Automatic
  <2>2. Expired(p) = {e}
    <3>1. \A d \in Expired(p) : d \in backups /\ d.seq <= e.seq /\ e.seq <= d.seq
      BY <2>1 DEF Expired, Automatic
    <3>2. \A d \in Expired(p) : d.seq = e.seq
      BY <1>0, <2>1, <3>1 DEF Backup
    <3> QED
      BY <2>1, <3>1, <3>2 DEF DirectoryInv
  <2>3. Automatic' = Automatic \ {e}
    BY <2>2 DEF Automatic
  <2>4. \A c \in Automatic : c.seq >= n
    <3> SUFFICES ASSUME NEW c \in Automatic PROVE c.seq >= n
      OBVIOUS
    <3>1. c \in backups /\ c.seq \in Nat /\ e.seq \in Nat
      BY <1>0, <2>1 DEF Automatic, Backup
    <3>2. CASE c \notin Reserved(p)
      BY <1>6, <2>1, <3>1, <3>2
    <3>3. CASE c \in Reserved(p)
      <4>1. c.seq = proc[p].backup
        BY <3>3 DEF Reserved
      <4>2. e.seq <= proc[p].backup
        BY <2>1 DEF DirectoryInv, ReservationInv, Reserving, At
      <4> QED
        BY <1>6, <3>1, <4>1, <4>2
    <3> QED
      BY <3>2, <3>3
  <2>5. Recent(n)' = {b.seq : b \in Automatic \ {e}}
    BY <1>2, <2>3, <2>4 DEF Recent
  <2>6. /\ Cardinality({b.seq : b \in Automatic \ {e}}) = Cardinality(Automatic \ {e})
        /\ IsFiniteSet(Automatic) /\ Cardinality(Automatic) \in Nat
    BY SequenceCount DEF Automatic
  <2>7. Cardinality(Automatic \ {e}) = Cardinality(Automatic) - 1
    BY <2>1, <2>6, FS_RemoveElement
  <2>8. Retention <= Cardinality(Recent(n)')
    BY <2>5, <2>6, <2>7, RetentionAssumption DEF TooMany
  <2>9. \A b \in Automatic' : b.seq >= n => NotOlder(b.content)'
    BY <1>4 DEF NotOlder
  <2> QED
    BY <2>8, <2>9 DEF Kept
<1> QED
  BY <1>5, <1>6

\* Once pruning is done, the backup just taken is a copy of the file.
LEMMA PrunedKeeps ==
    ASSUME IInv, DirectoryInv, NEW p \in Process, At(p, "prune"), Goto(p, "up"),
           UNCHANGED <<backups, lastServed>>, file = lastServed
    PROVE  \E n \in Nat : Kept(n)'
<1>0. backups \subseteq Backup /\ proc \in [Process -> Proc]
  BY DEF IInv, TypeOK
<1>1. PICK r \in backups : r.seq = proc[p].backup /\ r.content = proc[p].begun
  BY DEF IInv, ProcessInv, At, Covered
<1>2. r.content = lastServed
  BY <1>1 DEF DirectoryInv, ReservationInv, At
<1>3. \A b \in backups : b.seq \in Nat
  BY <1>0 DEF Backup
<1>4. \A b \in backups : b.seq >= r.seq => b = r
  BY <1>1, <1>3 DEF DirectoryInv, ReservationInv, Reserving, At
<1>5. Pending' = {}
  <2>1. owner = p
    BY HoldsLock DEF At
  <2>2. \A q \in Process : proc'[q].step \in {"idle", "lock", "up"}
    BY <1>0, <2>1, OthersWait DEF Goto, Proc
  <2> QED
    BY <2>2 DEF Pending
<1>6. \A b \in Automatic' : b.seq >= r.seq => NotOlder(b.content)'
  BY <1>2, <1>4 DEF Automatic, NotOlder
<1>7. r \in backups' /\ r.seq >= r.seq /\ r.seq \notin Pending' /\ r.content = lastServed'
  BY <1>2, <1>3, <1>5
<1>8. Kept(r.seq)'
  BY <1>6, <1>7 DEF Kept
<1> QED
  BY <1>3, <1>8

\* Every step keeps what the server last had within reach.
LEMMA ServedStep ==
    ASSUME IInv, DirectoryInv, ServedInv, DirectoryInv', Next
    PROVE  ServedInv'
<1> USE DEF Reserving
<1>0. /\ proc \in [Process -> Proc] /\ backups \subseteq Backup
      /\ file \in Content /\ lastServed \in Content
  BY DEF IInv, TypeOK
<1>1. IsFiniteSet(backups')
  BY DEF DirectoryInv
<1>2. CASE lastServed' = Missing
  BY <1>2 DEF ServedInv
\* A server has just got the file or changed it.
<1>3. ASSUME NEW p \in Process, owner = p, lastServed' = file', file'.kind = "app",
             proc'[p].step = "serving", \A q \in Process : q # p => proc'[q] = proc[q]
      PROVE  ServedInv'
  <2>1. \A q \in Process : proc'[q].step # "up"
    BY <1>3, OthersWait
  <2> QED
    BY <1>3, <2>1 DEF ServedInv, Exposed, At
\* The file stays, and with it what is kept.
<1>4. ASSUME UNCHANGED <<lastServed, file>>, lastServed # Missing,
             \A q \in Process : proc'[q].step = "up" => proc[q].step = "up",
             \A n \in Nat : Kept(n) => Kept(n)'
      PROVE  ServedInv'
  <2>1. Exposed' => Exposed
    BY <1>4 DEF Exposed, At
  <2> QED
    BY <1>4, <2>1 DEF ServedInv
\* Only unfinished backups go.
<1>5. ASSUME lastServed' = lastServed, backups' \subseteq backups, Pending' \subseteq Pending,
             \A b \in backups : b.seq \notin Pending => b \in backups'
      PROVE  \A n \in Nat : Kept(n) => Kept(n)'
  <2> SUFFICES ASSUME NEW n \in Nat, Kept(n) PROVE Kept(n)'
    OBVIOUS
  <2>1. \A b \in Automatic' : b.seq >= n => NotOlder(b.content)
    BY <1>5 DEF Kept, Automatic
  <2>2. \A b \in backups : b.seq >= n /\ b.seq \notin Pending =>
            b \in backups' /\ b.seq \notin Pending'
    BY <1>5
  <2> QED
    BY <1>1, <1>5, <2>1, <2>2, KeptStays
<1>6. ASSUME lastServed # Missing
      PROVE  /\ file.kind = "app" /\ file # Missing /\ NotOlder(file)
             /\ file.version > 0
  <2>1. file.kind = "app" /\ NotOlder(file)
    BY <1>6 DEF ServedInv, NotOlder
  <2>2. file # Missing
    BY <2>1 DEF Missing, Bare
  <2>3. file.version > 0
    BY <2>1 DEF IInv, Sound
  <2> QED
    BY <2>1, <2>2, <2>3
\* The holder returns.
<1>7. ASSUME NEW p \in Process, owner = p, Exit(p), UNCHANGED <<lastServed, file>>,
             lastServed # Missing, backups' \subseteq backups,
             \A b \in backups : b.seq \notin Pending => b \in backups'
      PROVE  ServedInv'
  <2>1. \A q \in Process : proc'[q].step \in {"idle", "lock"}
    BY <1>7, Exits
  <2>2. Pending' = {}
    BY <2>1 DEF Pending
  <2>3. \A n \in Nat : Kept(n) => Kept(n)'
    BY <1>5, <1>7, <2>2
  <2> QED
    BY <1>4, <1>7, <2>1, <2>3
\* No backup changes, and nobody enters or leaves a reservation.
<1>8. ASSUME UNCHANGED <<lastServed, file, backups>>, lastServed # Missing,
             \A q \in Process : \/ proc'[q] = proc[q]
                                \/ proc'[q].step \notin {"vacuum", "verify", "up"}
      PROVE  ServedInv'
  <2>1. Pending' \subseteq Pending
    BY <1>8 DEF Pending
  <2>2. \A n \in Nat : Kept(n) => Kept(n)'
    BY <1>5, <1>8, <2>1
  <2>3. \A q \in Process : proc'[q].step = "up" => proc[q].step = "up"
    BY <1>8
  <2> QED
    BY <1>4, <1>8, <2>2, <2>3
<1>9. ASSUME NEW p \in Process, ReserveBackup(p), lastServed # Missing
      PROVE  ServedInv'
  <2>1. owner = p /\ UNCHANGED <<lastServed, file>> /\ At(p, "reserve")
    BY <1>9, HoldsLock DEF ReserveBackup, At
  <2>2. CASE Exit(p)
    <3>1. backups' = backups
      <4>1. proc'[p].step = "idle"
        BY <1>0, <2>2, IdleStep DEF Exit
      <4>2. ASSUME NEW n, proc' = [proc EXCEPT ![p].backup = n, ![p].step = "vacuum"]
            PROVE  FALSE
        BY <1>0, <4>1, <4>2 DEF Proc
      <4> QED
        BY <1>9, <4>2 DEF ReserveBackup
    <3> QED
      BY <1>7, <1>9, <2>1, <2>2, <3>1
  <2>3. CASE ~Exit(p)
    <3>1. PICK r \in Backup :
             /\ backups' = backups \cup {r}
             /\ r.content = Missing
             /\ \A b \in backups : b.seq < r.seq
             /\ proc'[p].backup = r.seq /\ proc'[p].step = "vacuum"
             /\ \A q \in Process : q # p => proc'[q] = proc[q]
             /\ file' = file
      BY <1>9, <2>3, Reserves
    <3>2. Pending' = {r.seq}
      BY <2>1, <3>1, OthersWait DEF Pending
    <3>3. \A b \in backups : b \in backups' /\ b.seq \notin Pending'
      BY <1>0, <3>1, <3>2 DEF Backup
    <3>4. ASSUME NEW n \in Nat, Kept(n) PROVE Kept(n)'
      <4>1. \A b \in Automatic' : b.seq >= n => NotOlder(b.content)
        BY <3>1, <3>4 DEF Automatic, Kept, NotOlder
      <4> QED
        BY <1>1, <2>1, <3>3, <3>4, <4>1, KeptStays
    <3>5. \A q \in Process : proc'[q].step = "up" => proc[q].step = "up"
      BY <3>1
    <3> QED
      BY <1>4, <1>9, <2>1, <3>4, <3>5
  <2> QED
    BY <2>2, <2>3
<1>10. ASSUME NEW p \in Process, VacuumInto(p), lastServed # Missing
       PROVE  ServedInv'
  <2>1. owner = p /\ UNCHANGED <<lastServed, file>> /\ At(p, "vacuum")
    BY <1>10, HoldsLock DEF VacuumInto, At
  <2>2. /\ \A c \in backups' : \E b \in backups :
             /\ c.seq = b.seq /\ c.kind = b.kind
             /\ c = b \/ (b.seq = proc[p].backup /\ c.content = file)
        /\ \A b \in backups : b.seq # proc[p].backup => b \in backups'
        /\ proc'[p].backup = proc[p].backup /\ proc'[p].step = "verify"
        /\ \A q \in Process : q # p => proc'[q] = proc[q]
    BY <1>10, Vacuums
  <2>3. Pending = {proc[p].backup}
    BY <2>1, HolderPending DEF At
  <2>4. Pending' = {proc[p].backup}
    BY <2>1, <2>2, OthersWait DEF Pending
  <2>5. ASSUME NEW n \in Nat, Kept(n) PROVE Kept(n)'
    <3>1. ASSUME NEW c \in Automatic', c.seq >= n PROVE NotOlder(c.content)
      <4>1. PICK b \in backups :
              /\ c.seq = b.seq /\ c.kind = b.kind
              /\ c = b \/ (b.seq = proc[p].backup /\ c.content = file)
        BY <2>2, <3>1 DEF Automatic
      <4>2. CASE c = b
        BY <2>5, <3>1, <4>2 DEF Automatic, Kept
      <4>3. CASE c.content = file
        BY <1>6, <1>10, <4>3
      <4> QED
        BY <4>1, <4>2, <4>3
    <3>2. \A b \in backups : b.seq >= n /\ b.seq \notin Pending =>
              b \in backups' /\ b.seq \notin Pending'
      BY <2>2, <2>3, <2>4
    <3> QED
      BY <1>1, <2>1, <2>5, <3>1, <3>2, KeptStays
  <2>6. \A q \in Process : proc'[q].step = "up" => proc[q].step = "up"
    BY <2>2
  <2> QED
    BY <1>4, <1>10, <2>1, <2>5, <2>6
<1>11. ASSUME NEW p \in Process, VerifyBackup(p) \/ Fail(p) \/ Crash(p) \/ Shutdown(p),
              lastServed # Missing
       PROVE  ServedInv'
  <2>1. owner = p /\ UNCHANGED <<lastServed, file>> /\ backups' \subseteq backups
    BY <1>11, HoldsLock DEF VerifyBackup, Fail, Crash, Shutdown, At
  <2>2. ASSUME NEW b \in backups, b.seq \notin Pending PROVE b \in backups'
    <3>1. proc[p].step \in {"vacuum", "verify"} => b \notin Reserved(p)
      BY <2>1, <2>2, HolderPending DEF Reserved
    <3> QED
      BY <1>11, <3>1 DEF VerifyBackup, Fail, Crash, Shutdown, At
  <2>3. CASE Exit(p)
    BY <1>7, <1>11, <2>1, <2>2, <2>3
  <2>4. CASE ~Exit(p)
    <3>1. Goto(p, "prune") /\ backups' = backups
      BY <1>11, <2>4 DEF VerifyBackup, Fail, Crash, Shutdown
    <3>2. \A q \in Process : proc'[q] = proc[q] \/ proc'[q].step = "prune"
      BY <1>0, <3>1 DEF Goto, Proc
    <3> QED
      BY <1>8, <1>11, <2>1, <3>1, <3>2
  <2> QED
    BY <2>3, <2>4
<1>12. ASSUME NEW p \in Process, PruneAutomatic(p), lastServed # Missing
       PROVE  ServedInv'
  <2>1. At(p, "prune") /\ UNCHANGED <<lastServed, file>>
    BY <1>12 DEF PruneAutomatic
  <2>2. CASE TooMany
    <3>1. backups' = backups \ Expired(p) /\ proc' = proc
      BY <1>12, <2>2 DEF PruneAutomatic
    <3>2. \A n \in Nat : Kept(n) => Kept(n)'
      BY <1>1, <2>1, <2>2, <3>1, PruneKeeps
    <3> QED
      BY <1>4, <1>12, <2>1, <3>1, <3>2
  <2>3. CASE ~TooMany
    <3>1. Goto(p, "up") /\ backups' = backups
      BY <1>12, <2>3 DEF PruneAutomatic
    <3>2. \E n \in Nat : Kept(n)'
      <4>1. CASE file = lastServed
        BY <2>1, <3>1, <4>1, PrunedKeeps
      <4>2. CASE file # lastServed
        <5>1. PICK n \in Nat : Kept(n)
          BY <1>12, <4>2 DEF ServedInv, Exposed
        <5>2. \A q \in Process : proc'[q] = proc[q] \/ proc'[q].step = "up"
          BY <1>0, <3>1 DEF Goto, Proc
        <5>3. Pending' \subseteq Pending
          BY <5>2 DEF Pending
        <5> QED
          BY <1>5, <2>1, <3>1, <5>1, <5>3
      <4> QED
        BY <4>1, <4>2
    <3> QED
      BY <1>12, <2>1, <3>2 DEF ServedInv
  <2> QED
    BY <2>2, <2>3
<1>13. ASSUME NEW p \in Process, ApplyMigration(p), lastServed # Missing
       PROVE  ServedInv'
  <2>1. At(p, "up") /\ UNCHANGED <<lastServed, backups>>
    BY <1>13 DEF ApplyMigration
  <2>2. PICK n \in Nat : Kept(n)
    BY <1>13, <2>1 DEF ServedInv, Exposed
  <2>3. \A q \in Process : proc'[q] = proc[q] \/ proc'[q].step = "recheck"
    BY <1>0, <1>13 DEF ApplyMigration, Goto, Proc
  <2>4. Pending' \subseteq Pending
    BY <2>3 DEF Pending
  <2>5. Kept(n)'
    BY <1>5, <2>1, <2>2, <2>4
  <2>6. file' # lastServed => file'.kind = "app" /\ file'.version > lastServed.version
    <3>1. CASE file' = file
      BY <1>13, <3>1 DEF ServedInv
    <3>2. CASE file' # file
      <4>1. file' = [file EXCEPT !.kind = "app", !.version = @ + 1]
        BY <1>13, <3>2 DEF ApplyMigration
      <4>2. file'.kind = "app" /\ file'.version = file.version + 1
        BY <1>0, <4>1 DEF Content
      <4>3. file.version \in Nat /\ lastServed.version \in Nat
        BY <1>0 DEF Content
      <4>4. file.version >= lastServed.version
        BY <1>13, <4>3 DEF ServedInv
      <4> QED
        BY <4>2, <4>3, <4>4
    <3> QED
      BY <3>1, <3>2
  <2> QED
    BY <1>13, <2>1, <2>5, <2>6 DEF ServedInv
<1>14. ASSUME NEW p \in Process, Configure(p), lastServed # Missing
       PROVE  ServedInv'
  <2>1. UNCHANGED <<lastServed, file, backups>>
    BY <1>6, <1>14 DEF Configure
  <2>2. NeedsBackup(p)
    BY <1>6, <1>14 DEF Configure, IInv, ProcessInv, At, NeedsBackup
  <2>3. \A q \in Process : proc'[q] = proc[q] \/ proc'[q].step \in {"check", "reserve"}
    BY <1>0, <1>14, <2>2 DEF Configure, Goto, Proc
  <2> QED
    BY <1>8, <1>14, <2>1, <2>3
<1>15. ASSUME NEW p \in Process, EnsureVersionTable(p) PROVE lastServed = Missing
  BY <1>6, <1>15 DEF EnsureVersionTable, Fresh
<1>16. ASSUME NEW p \in Process, Write(p) PROVE ServedInv'
  <2>1. owner = p /\ At(p, "serving")
    BY <1>16, HoldsLock DEF Write, At
  <2>2. file.kind = "app"
    BY <2>1 DEF IInv, ProcessInv, CurrentSchema
  <2>3. file'.kind = "app"
    BY <1>0, <1>16, <2>2 DEF Write, Content
  <2> QED
    BY <1>3, <1>16, <2>1, <2>3 DEF Write, At
<1>17. ASSUME NEW p \in Process, CheckCurrent(p) \/ CheckPrepared(p), lastServed' # Missing
       PROVE  ServedInv'
  <2>1. owner = p /\ UNCHANGED <<file, backups>>
    BY <1>17, HoldsLock DEF CheckCurrent, CheckPrepared, At
  <2>2. CASE lastServed' = lastServed /\ Exit(p)
    BY <1>7, <1>17, <2>1, <2>2
  <2>3. CASE ~(lastServed' = lastServed /\ Exit(p))
    <3>1. /\ proc' = [proc EXCEPT ![p] =
                        [Idle EXCEPT !.command = "serve", !.step = "serving"]]
          /\ lastServed' = file /\ CurrentSchema(file, p)
      BY <1>17, <2>3 DEF CheckCurrent, CheckPrepared, Prepared
    <3>2. proc'[p].step = "serving" /\ \A q \in Process : q # p => proc'[q] = proc[q]
      BY <1>0, <3>1 DEF Idle
    <3> QED
      BY <1>3, <2>1, <3>1, <3>2 DEF CurrentSchema
  <2> QED
    BY <2>2, <2>3
<1>18. ASSUME NEW p \in Process,
              \/ \E command \in {"serve", "migrate", "verify", "backup"} : Start(p, command)
              \/ AcquireOwnerLock(p) \/ OpenForPreparation(p)
              \/ OpenExistingForMaintenance(p) \/ InspectPreparation(p),
              lastServed # Missing
       PROVE  ServedInv'
  <2>1. UNCHANGED <<lastServed, file, backups>>
    BY <1>6, <1>18 DEF Start, AcquireOwnerLock, OpenForPreparation,
                       OpenExistingForMaintenance, InspectPreparation
  <2>2. \A q \in Process : q # p => proc'[q] = proc[q]
    BY <1>0, <1>18 DEF Start, AcquireOwnerLock, OpenForPreparation,
                       OpenExistingForMaintenance, InspectPreparation, Goto, Exit
  <2>3. proc'[p].step \notin {"vacuum", "verify", "up"}
    <3>1. ASSUME NEW command, Start(p, command) PROVE proc'[p].step = "lock"
      BY <1>0, <3>1 DEF Start, Idle
    <3>2. CASE AcquireOwnerLock(p)
      BY <1>0, <3>2, IdleStep DEF AcquireOwnerLock, Goto, Proc
    <3>3. CASE Exit(p)
      BY <1>0, <3>3, IdleStep DEF Exit
    <3>4. CASE OpenForPreparation(p) /\ ~Exit(p)
      BY <1>0, <3>4 DEF OpenForPreparation, Proc
    <3>5. CASE OpenExistingForMaintenance(p) /\ ~Exit(p)
      <4>1. proc'[p].step \in {"reserve", "check"}
        BY <1>0, <3>5 DEF OpenExistingForMaintenance, MaintenanceStep, Proc
      <4> QED
        BY <4>1
    <3>6. CASE InspectPreparation(p) /\ ~Exit(p)
      <4>1. proc'[p].step = "configure"
        BY <1>0, <3>6 DEF InspectPreparation, Proc
      <4> QED
        BY <4>1
    <3> QED
      BY <1>18, <3>1, <3>2, <3>3, <3>4, <3>5, <3>6
  <2> QED
    BY <1>8, <1>18, <2>1, <2>2, <2>3
<1>19. ASSUME RemoveFile \/ Restore PROVE lastServed' = Missing
  BY <1>19 DEF RemoveFile, Restore
<1>20. ASSUME NEW p \in Process, Step(p), lastServed = Missing, lastServed' # Missing
       PROVE  ServedInv'
  BY <1>16, <1>17, <1>20
  DEF Step, Start, AcquireOwnerLock, OpenForPreparation, OpenExistingForMaintenance,
      InspectPreparation, Configure, ReserveBackup, VacuumInto, VerifyBackup, PruneAutomatic,
      EnsureVersionTable, ApplyMigration, Shutdown, Fail, Crash
<1> QED
  BY <1>2, <1>9, <1>10, <1>11, <1>12, <1>13, <1>14, <1>15, <1>16, <1>17, <1>18, <1>19, <1>20
  DEF Next, Step

\* The database as a server last had it is the file, or in a backup, or at least as
\* many later automatic backups as the retention asks for are there.
THEOREM RecoverySafety == Spec => []LastServedIsRecoverable
<1> DEFINE RInv == DirectoryInv /\ ServedInv
<1>1. Init => RInv
  <2> SUFFICES ASSUME Init PROVE RInv
    OBVIOUS
  <2>1. \A p \in Process : proc[p].step = "idle"
    BY IdleStep DEF Init
  <2> QED
    BY <2>1, FS_EmptySet DEF Init, DirectoryInv, ServedInv, ReservationInv, Reserving, At
<1>2. IInv /\ RInv /\ [Next]_vars => RInv'
  <2> SUFFICES ASSUME IInv, RInv, [Next]_vars PROVE RInv'
    OBVIOUS
  <2>1. CASE Next
    BY <2>1, DirectoryStep, ServedStep
  <2>2. CASE UNCHANGED vars
    <3>1. DirectoryInv'
      BY <2>2 DEF DirectoryInv, vars, ReservationInv, At, Reserved
    <3>2. ServedInv'
      BY <2>2 DEF ServedInv, vars, Exposed, At, Kept, NotOlder, Recent, Automatic, Pending
    <3> QED
      BY <3>1, <3>2
  <2> QED
    BY <2>1, <2>2
<1>3. IInv /\ RInv => LastServedIsRecoverable
  <2> SUFFICES ASSUME IInv, RInv, lastServed # Missing, file # lastServed,
                      ~\E b \in backups : b.content = lastServed
               PROVE  Retention <= Cardinality(
                        {b \in Automatic : \/ b.content = Missing
                                           \/ b.content.version > lastServed.version})
    BY DEF LastServedIsRecoverable
  <2> DEFINE W == {b \in Automatic : \/ b.content = Missing
                                     \/ b.content.version > lastServed.version}
  <2>1. PICK n \in Nat : Kept(n)
    BY DEF ServedInv, Exposed
  <2>2. Retention <= Cardinality(Recent(n))
    BY <2>1 DEF Kept
  <2>3. \A c \in Automatic : c.seq >= n => c \in W
    BY <2>1 DEF Kept, NotOlder, Automatic
  <2>4. Recent(n) \subseteq {b.seq : b \in W}
    BY <2>3 DEF Recent
  <2>5. /\ IsFiniteSet({b.seq : b \in W}) /\ Cardinality(W) \in Nat
        /\ Cardinality({b.seq : b \in W}) = Cardinality(W)
    <3>1. W \in SUBSET backups
      BY DEF Automatic
    <3> QED
      BY <3>1, SequenceCount
  <2> HIDE DEF W
  <2>6. /\ Cardinality(Recent(n)) <= Cardinality({b.seq : b \in W})
        /\ Cardinality(Recent(n)) \in Nat
    BY <2>4, <2>5, FS_Subset, FS_CardinalityType
  <2>7. Retention <= Cardinality(W)
    BY <2>2, <2>5, <2>6, RetentionAssumption
  <2> QED
    BY <2>7 DEF W
<1> QED
  BY <1>1, <1>2, <1>3, Invariance, PTL DEF Spec

----------------------------------------------------------------------------
(* The shutdown of the server.  The heart is that the counter is the number of   *)
(* handlers that run and that the channel drained is closed exactly when the     *)
(* server is closing and the counter is zero.                                    *)

Admitted == {r \in Request : request[r] = "admitted"}

\* The counter counts the handlers.
CountIsExact == active = Cardinality(Admitted)

\* drained is closed iff nobody runs and nobody can start.
DrainedMeansIdle == closes = IF closing /\ active = 0 THEN 1 ELSE 0

\* What runServe has established at the statement it is at.
StoppedAt ==
    main \in {"http.Shutdown", "wait http", "wait drained", "http.Close",
              "wait Close", "wait serverErr", "returned"} => closing
DrainedAt == main \in {"wait serverErr", "returned"} => closes > 0
ForcedAt == main \in {"Close", "http.Close"} => expired \/ serverErr = "taken"
OwnedUntilReturn == owned \/ main = "returned"

LInv ==
    /\ LifecycleTypeOK /\ CountIsExact /\ DrainedMeansIdle
    /\ StoppedAt /\ DrainedAt /\ ForcedAt /\ OwnedUntilReturn

USE RequestAssumption

----------------------------------------------------------------------------
\* A step that admits nobody and ends nobody keeps the count.
LEMMA AdmittedFinite == IsFiniteSet(Admitted)
<1>1. Admitted \subseteq Request
  BY DEF Admitted
<1> QED BY <1>1, FS_Subset

\* An admitted request is one more in the count.
LEMMA AdmitCounts ==
    ASSUME LifecycleTypeOK, CountIsExact, NEW r \in Request, request[r] # "admitted",
           request' = [request EXCEPT ![r] = "admitted"], active' = active + 1
    PROVE  CountIsExact'
<1>1. Admitted' = Admitted \cup {r} /\ r \notin Admitted
  BY DEF Admitted, LifecycleTypeOK
<1>2. Cardinality(Admitted \cup {r}) = Cardinality(Admitted) + 1
  BY <1>1, AdmittedFinite, FS_AddElement
<1> QED BY <1>1, <1>2 DEF CountIsExact

\* A finished handler is one less in the count.
LEMMA DoneCounts ==
    ASSUME LifecycleTypeOK, CountIsExact, NEW r \in Request, request[r] = "admitted",
           request' = [request EXCEPT ![r] = "finished"], active' = active - 1
    PROVE  CountIsExact' /\ active > 0
<1>1. Admitted' = Admitted \ {r} /\ r \in Admitted
  BY DEF Admitted, LifecycleTypeOK
<1>2. Cardinality(Admitted \ {r}) = Cardinality(Admitted) - 1
  BY <1>1, AdmittedFinite, FS_RemoveElement
<1>3. Cardinality(Admitted) # 0
  BY <1>1, AdmittedFinite, FS_EmptySet
<1>4. Cardinality(Admitted) \in Nat
  BY AdmittedFinite, FS_CardinalityType
<1> QED BY <1>1, <1>2, <1>3, <1>4 DEF CountIsExact

\* A request that stays outside changes no count.
LEMMA OtherCounts ==
    ASSUME LifecycleTypeOK, CountIsExact, UNCHANGED active,
           \/ UNCHANGED request
           \/ \E r \in Request, s \in {"accepted", "finished"} :
                request[r] # "admitted" /\ request' = [request EXCEPT ![r] = s]
    PROVE  CountIsExact'
<1>1. Admitted' = Admitted
  BY DEF Admitted, LifecycleTypeOK
<1> QED BY <1>1 DEF CountIsExact

\* A count of zero means that no handler runs.
LEMMA NobodyAdmitted ==
    ASSUME CountIsExact, active = 0
    PROVE  \A r \in Request : request[r] # "admitted"
<1>1. Admitted = {}
  BY AdmittedFinite, FS_EmptySet DEF CountIsExact
<1> QED BY <1>1 DEF Admitted

----------------------------------------------------------------------------
\* The invariant holds at the start.
LEMMA InitLInv == LifecycleInit => LInv
<1> SUFFICES ASSUME LifecycleInit PROVE LInv
  OBVIOUS
<1>1. LifecycleTypeOK
  BY DEF LifecycleInit, LifecycleTypeOK
<1>2. Admitted = {}
  BY DEF LifecycleInit, Admitted
<1>3. CountIsExact
  BY <1>2, FS_EmptySet DEF LifecycleInit, CountIsExact
<1> QED
  BY <1>1, <1>3 DEF LifecycleInit, LInv, DrainedMeansIdle, StoppedAt, DrainedAt, ForcedAt, OwnedUntilReturn

\* The actions of a request.
LEMMA RequestStep ==
    ASSUME LInv, NEW r \in Request, Accept(r) \/ ServeHTTP(r) \/ Done(r)
    PROVE  LInv'
<1> USE DEF LInv
<1>1. CASE Accept(r)
  <2>1. LifecycleTypeOK'
    BY <1>1 DEF Accept, LifecycleTypeOK
  <2>2. CountIsExact'
    BY <1>1, OtherCounts DEF Accept
  <2> QED
    BY <1>1, <2>1, <2>2 DEF Accept, DrainedMeansIdle, StoppedAt, DrainedAt, ForcedAt, OwnedUntilReturn
<1>2. CASE ServeHTTP(r)
  <2>0. /\ request' \in [Request -> {"idle", "accepted", "admitted", "finished"}]
        /\ active' \in Nat
    <3>1. request' = [request EXCEPT ![r] = "finished"] \/ request' = [request EXCEPT ![r] = "admitted"]
      BY <1>2, Zenon DEF ServeHTTP
    <3>2. active' = active \/ active' = active + 1
      BY <1>2, Zenon DEF ServeHTTP
    <3>3. /\ request \in [Request -> {"idle", "accepted", "admitted", "finished"}]
          /\ active \in Nat
      BY Zenon DEF LifecycleTypeOK
    <3> QED BY <3>1, <3>2, <3>3
  <2>1. LifecycleTypeOK'
    BY <1>2, <2>0, Zenon DEF ServeHTTP, LifecycleTypeOK
  <2>2. CountIsExact'
    BY <1>2, OtherCounts, AdmitCounts DEF ServeHTTP
  <2>3. DrainedMeansIdle'
    BY <1>2 DEF ServeHTTP, DrainedMeansIdle, LifecycleTypeOK
  <2> QED
    BY <1>2, <2>1, <2>2, <2>3 DEF ServeHTTP, StoppedAt, DrainedAt, ForcedAt, OwnedUntilReturn
<1>3. CASE Done(r)
  <2>1. CountIsExact' /\ active > 0
    BY <1>3, DoneCounts DEF Done
  <2>0. /\ request' \in [Request -> {"idle", "accepted", "admitted", "finished"}]
        /\ active' \in Nat /\ active' = active - 1 /\ active \in Nat
    <3>1. request' = [request EXCEPT ![r] = "finished"] /\ active' = active - 1
      BY <1>3, Zenon DEF Done
    <3>2. /\ request \in [Request -> {"idle", "accepted", "admitted", "finished"}]
          /\ active \in Nat
      BY Zenon DEF LifecycleTypeOK
    <3> QED BY <2>1, <3>1, <3>2
  <2>c. closes' \in Nat /\ closes' >= closes /\ DrainedMeansIdle'
    <3>1. CASE closing
      <4>1. closing'
        BY <1>3, <3>1, Zenon DEF Done
      <4>2. closes' = closes + (IF active = 1 THEN 1 ELSE 0)
        BY <1>3, <3>1, Zenon DEF Done
      <4>3. closes = 0
        BY <2>0, <2>1, <3>1 DEF DrainedMeansIdle
      <4>4. closes' = IF active' = 0 THEN 1 ELSE 0
        BY <2>0, <4>2, <4>3
      <4> QED BY <4>1, <4>3, <4>4 DEF DrainedMeansIdle
    <3>2. CASE ~closing
      <4>1. ~closing' /\ closes' = closes + 0
        BY <1>3, <3>2, Zenon DEF Done
      <4>2. closes = 0
        BY <3>2 DEF DrainedMeansIdle
      <4> QED BY <4>1, <4>2 DEF DrainedMeansIdle
    <3> QED BY <3>1, <3>2
  <2>2. LifecycleTypeOK'
    BY <1>3, <2>0, <2>c, Zenon DEF Done, LifecycleTypeOK
  <2>3. DrainedMeansIdle'
    BY <2>c
  <2>4. DrainedAt'
    <3>1. main' = main /\ closes \in Nat
      BY <1>3, Zenon DEF Done, LifecycleTypeOK
    <3>2. closes > 0 => closes' > 0
      BY <2>c, <3>1
    <3> QED BY <3>1, <3>2, Zenon DEF DrainedAt
  <2> QED
    BY <1>3, <2>1, <2>2, <2>3, <2>4 DEF Done, StoppedAt, ForcedAt, OwnedUntilReturn
<1> QED BY <1>1, <1>2, <1>3

\* stop, whether it is the first or the second one.
LEMMA StopDrains ==
    ASSUME LifecycleTypeOK, DrainedMeansIdle, Stop, UNCHANGED active
    PROVE  DrainedMeansIdle' /\ closing' /\ closes' \in Nat /\ closes' >= closes
<1>1. closing' /\ closes \in Nat /\ active \in Nat /\ active' = active
  BY Zenon DEF Stop, LifecycleTypeOK
<1>2. CASE closing
  <2>1. closes' = closes + 0
    BY <1>2, Zenon DEF Stop
  <2>2. closes = IF active = 0 THEN 1 ELSE 0
    BY <1>2, Zenon DEF DrainedMeansIdle
  <2> QED BY <1>1, <2>1, <2>2 DEF DrainedMeansIdle
<1>3. CASE ~closing
  <2>1. closes' = closes + (IF active = 0 THEN 1 ELSE 0)
    BY <1>3, Zenon DEF Stop
  <2>2. closes = 0
    BY <1>3, Zenon DEF DrainedMeansIdle
  <2> QED BY <1>1, <2>1, <2>2 DEF DrainedMeansIdle
<1> QED BY <1>2, <1>3

\* The actions of the http.Server and of runServe: none of them touches the
\* requests or their count.
LEMMA RunnerStep ==
    ASSUME LInv, ListenAndServe \/ Select \/ Deadline \/ Runner
    PROVE  LInv'
<1> USE DEF LInv, Advance, CloseListener
<1>0. UNCHANGED <<active, request>>
  BY DEF ListenAndServe, Select, Deadline, Runner, ShutdownStop, ShutdownHTTP, ShutdownReturns,
         ShutdownDrained, CloseStop, CloseHTTP, CloseReturns, AwaitServer
<1>c. CountIsExact'
  BY <1>0, OtherCounts
<1>1. CASE ListenAndServe
  BY <1>1, <1>c DEF ListenAndServe, LifecycleTypeOK, DrainedMeansIdle, StoppedAt, DrainedAt, ForcedAt, OwnedUntilReturn
<1>2. CASE Select
  BY <1>2, <1>c DEF Select, LifecycleTypeOK, DrainedMeansIdle, StoppedAt, DrainedAt, ForcedAt, OwnedUntilReturn
<1>3. CASE Deadline
  BY <1>3, <1>c DEF Deadline, LifecycleTypeOK, DrainedMeansIdle, StoppedAt, DrainedAt, ForcedAt, OwnedUntilReturn
<1>4. CASE ShutdownStop
  <2>1. DrainedMeansIdle' /\ closing' /\ closes' \in Nat
    BY <1>4, StopDrains DEF ShutdownStop
  <2> QED
    BY <1>4, <1>c, <2>1 DEF ShutdownStop, LifecycleTypeOK, StoppedAt, DrainedAt, ForcedAt, OwnedUntilReturn
<1>5. CASE ShutdownHTTP
  BY <1>5, <1>c DEF ShutdownHTTP, LifecycleTypeOK, DrainedMeansIdle, StoppedAt, DrainedAt, ForcedAt, OwnedUntilReturn
<1>6. CASE ShutdownReturns
  BY <1>6, <1>c DEF ShutdownReturns, LifecycleTypeOK, DrainedMeansIdle, StoppedAt, DrainedAt, ForcedAt, OwnedUntilReturn
<1>7. CASE ShutdownDrained
  BY <1>7, <1>c DEF ShutdownDrained, LifecycleTypeOK, DrainedMeansIdle, StoppedAt, DrainedAt, ForcedAt, OwnedUntilReturn
<1>8. CASE CloseStop
  <2>1. DrainedMeansIdle' /\ closing' /\ closes' \in Nat
    BY <1>8, StopDrains DEF CloseStop
  <2> QED
    BY <1>8, <1>c, <2>1 DEF CloseStop, LifecycleTypeOK, StoppedAt, DrainedAt, ForcedAt, OwnedUntilReturn
<1>9. CASE CloseHTTP
  BY <1>9, <1>c DEF CloseHTTP, LifecycleTypeOK, DrainedMeansIdle, StoppedAt, DrainedAt, ForcedAt, OwnedUntilReturn
<1>10. CASE CloseReturns
  BY <1>10, <1>c DEF CloseReturns, Return, LifecycleTypeOK, DrainedMeansIdle, StoppedAt, DrainedAt, ForcedAt, OwnedUntilReturn
<1>11. CASE AwaitServer
  BY <1>11, <1>c DEF AwaitServer, Return, LifecycleTypeOK, DrainedMeansIdle, StoppedAt, DrainedAt, ForcedAt, OwnedUntilReturn
<1> QED
  BY <1>1, <1>2, <1>3, <1>4, <1>5, <1>6, <1>7, <1>8, <1>9, <1>10, <1>11 DEF Runner

\* Every step keeps the invariant.
LEMMA NextLInv == LInv /\ [LifecycleNext]_lifecycleVars => LInv'
<1> SUFFICES ASSUME LInv, [LifecycleNext]_lifecycleVars PROVE LInv'
  OBVIOUS
<1>1. CASE UNCHANGED lifecycleVars
  <2>1. CountIsExact'
    BY <1>1, OtherCounts DEF lifecycleVars, LInv
  <2> QED
    BY <1>1, <2>1 DEF lifecycleVars, LInv, LifecycleTypeOK, DrainedMeansIdle, StoppedAt, DrainedAt, ForcedAt, OwnedUntilReturn
<1>2. CASE LifecycleNext
  BY <1>1, <1>2, RequestStep, RunnerStep DEF LifecycleNext, Finished
<1> QED BY <1>1, <1>2

\* The inductive invariant of the shutdown: the counter of handlerLifecycle is
\* exact, drained is closed iff the server is idle for good, and runServe knows
\* it at every statement that relies on it.
THEOREM LifecycleInvariance == LifecycleSpec => []LInv
BY InitLInv, NextLInv, PTL DEF LifecycleSpec

\* The counter, the channel and the statements of runServe keep their types.
THEOREM LifecycleTypes == LifecycleSpec => []LifecycleTypeOK
<1>1. LInv => LifecycleTypeOK
  BY DEF LInv
<1> QED BY <1>1, LifecycleInvariance, PTL

\* The database is never released under a running handler or one that can still
\* start, for any number of requests.
THEOREM OwnershipSafety == LifecycleSpec => []OwnershipOutlivesHandlers
<1>1. LInv => OwnershipOutlivesHandlers
  <2> SUFFICES ASSUME LInv, ~owned PROVE closing /\ \A r \in Request : request[r] # "admitted"
    BY DEF OwnershipOutlivesHandlers
  <2>0. closing /\ closes > 0
    BY Zenon DEF LInv, OwnedUntilReturn, StoppedAt, DrainedAt
  <2>1. closing /\ active = 0
    BY <2>0 DEF LInv, DrainedMeansIdle
  <2> QED BY <2>1, NobodyAdmitted DEF LInv
<1> QED BY <1>1, LifecycleInvariance, PTL

\* stop and done together close the channel drained at most once.
THEOREM DrainedSafety == LifecycleSpec => []DrainedClosesOnce
<1>1. LInv => DrainedClosesOnce
  BY DEF LInv, DrainedMeansIdle, DrainedClosesOnce
<1> QED BY <1>1, LifecycleInvariance, PTL

\* The server drains exactly once, before the database is released.
THEOREM DrainSafety == LifecycleSpec => []DrainsBeforeRelease
BY DrainedSafety, OwnershipSafety, PTL DEF DrainsBeforeRelease

\* No running handler is cut off before the deadline unless the listener failed.
THEOREM CutSafety == LifecycleSpec => CutOnlyAfterDeadline
<1>1. LInv /\ [LifecycleNext]_lifecycleVars =>
        [~forced /\ forced' /\ (\E r \in Request : request[r] = "admitted")
           => expired \/ serverErr = "taken"]_lifecycleVars
  <2> SUFFICES ASSUME LInv, LifecycleNext, ~forced, forced'
               PROVE  expired \/ serverErr = "taken"
    OBVIOUS
  <2>1. CloseHTTP
    BY DEF LifecycleNext, Runner, Accept, ServeHTTP, Done, ListenAndServe, Select, Deadline, ShutdownStop,
           ShutdownHTTP, ShutdownReturns, ShutdownDrained, CloseStop, CloseReturns, AwaitServer,
           Finished, lifecycleVars
  <2> QED BY <2>1 DEF CloseHTTP, Advance, LInv, ForcedAt
<1> QED BY <1>1, LifecycleInvariance, PTL DEF LifecycleSpec, CutOnlyAfterDeadline
=============================================================================
