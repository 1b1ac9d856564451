------------------------ MODULE DatabasePreparation ------------------------
(***************************************************************************)
(* The SQLite file and its owners: server processes that inspect, lock,    *)
(* back up, migrate and then serve one database, and the commands `db      *)
(* migrate`, `db verify` and `db backup` (backend/internal/runner,         *)
(* backend/storage).  Processes may be different builds, hence have        *)
(* different newest migrations.  A process can fail or be killed between   *)
(* any two steps; what it did to the disk stays.                           *)
(***************************************************************************)
EXTENDS Integers, FiniteSets

CONSTANTS
    Process,
    NoOwner,
    Target,       \* Target[p]: newest migration embedded in the binary of p
    Retention,    \* automatic backups to keep; 3 in the code
    MaxData,      \* bound: changes of the stored data
    MaxFaults,    \* bound: errors, cancellations and kills
    MaxSequence,  \* bound: sequence numbers of backups
    MaxInterventions  \* bound: times the administrator moves the file

ASSUME ProcessAssumption == Process # {} /\ NoOwner \notin Process
ASSUME TargetAssumption == Target \in [Process -> Nat \ {0}]
ASSUME RetentionAssumption == Retention \in Nat \ {0}
ASSUME BoundAssumption ==
    {MaxData, MaxFaults, MaxSequence, MaxInterventions} \subseteq Nat

VARIABLES
    file,           \* what is at the database path
    backups,        \* the backup directory
    owner,          \* holder of the lock on <path>.lock
    proc,           \* proc[p]: the command process p runs
    lastServed,     \* history: the database as a server last had it
    faults,         \* faults so far
    interventions   \* interventions so far

vars == <<file, backups, owner, proc, lastServed, faults, interventions>>

\* "bare" is a SQLite file without any object, "bootstrap" one that holds only
\* Goose's version table with its row of version 0, "app" one with the
\* application id.  "foreign" is everything else, SQLite or not.
Content ==
    [kind: {"missing", "empty", "bare", "bootstrap", "app", "foreign"},
     version: Nat, data: Nat]

Bare(kind) == [kind |-> kind, version |-> 0, data |-> 0]
Missing == Bare("missing")

\* content is Missing while the file is only reserved or half written.
Backup ==
    [seq: Nat \ {0}, kind: {"pre-migration", "manual"}, version: Nat, content: Content]

\* saw is preOwnershipState; from is status.Current and begun the file
\* when Prepare inspected it; backup is the sequence of the reservation.
Proc ==
    [command: {"none", "serve", "migrate", "verify", "backup"},
     step: {"idle", "lock", "open", "inspect", "configure", "check", "reserve",
            "vacuum", "verify", "prune", "up", "recheck", "serving"},
     saw: {"no database", "SQLite"}, from: Nat, begun: Content, backup: Nat]

Idle ==
    [command |-> "none", step |-> "idle", saw |-> "no database", from |-> 0,
     begun |-> Missing, backup |-> 0]

\* Nothing yet, an empty file, somebody else's file, or a database of any age.
Init ==
    /\ file \in {Bare("missing"), Bare("empty"), Bare("foreign")}
                \cup {[kind |-> "app", version |-> Target[p], data |-> 0]
                        : p \in Process}
    /\ backups = {}
    /\ owner = NoOwner
    /\ proc = [p \in Process |-> Idle]
    /\ lastServed = Missing
    /\ faults = 0
    /\ interventions = 0

At(p, step) == proc[p].step = step
Goto(p, step) == proc' = [proc EXCEPT ![p].step = step]
MayCreate(p) == proc[p].command \in {"serve", "migrate"}

\* The deferred owner.Close of withOwnedDatabase, on every return.
Exit(p) ==
    /\ owner' = NoOwner
    /\ proc' = [proc EXCEPT ![p] = Idle]

----------------------------------------------------------------------------
(* Inspection *)

\* databaseFileSQLite
IsSQLite(f) == f.kind \notin {"missing", "empty"}

\* Mutant: any file with a version table counts as Goose's bootstrap.
AnyRetryable(f) == f.kind \in {"bootstrap", "foreign"}

\* Mutant: Goose's bootstrap is refused like any file without application id.
NeverRetryable(f) == FALSE

\* inspectRetryableGooseBootstrap
Retryable(f) == f.kind = "bootstrap"

\* Recognised and not newer than the binary (inspectPreparation); 001 creates
\* tables, history and application id at once.
Recognised(f, p) == f.kind = "app" /\ f.version <= Target[p]

\* InspectDatabaseIdentity: Fresh
Fresh(f) == f.kind \in {"empty", "bare"}

\* inspectPreparation accepts the file.
Preparable(f, p) == Fresh(f) \/ Retryable(f) \/ Recognised(f, p)

\* InspectExistingEmbeddedPreparation accepts the file.
PreparableExisting(f, p) == Preparable(f, p) /\ ~Fresh(f)

\* What it demands of verify and backup in addition: the application id.
Maintainable(f, p) == PreparableExisting(f, p) /\ f.kind = "app"

CurrentSchema(f, p) == f.kind = "app" /\ f.version = Target[p]

----------------------------------------------------------------------------
(* withOwnedDatabase *)

\* The inspection before the lock.  verify and backup are refused here,
\* without a trace, unless the database is theirs.
Start(p, command) ==
    /\ At(p, "idle")
    /\ LET mayCreate == command \in {"serve", "migrate"}
       IN  /\ mayCreate \/ Maintainable(file, p)
           /\ proc' = [proc EXCEPT ![p] =
                         [Idle EXCEPT !.command = command, !.step = "lock",
                                      !.saw = IF mayCreate /\ IsSQLite(file)
                                                THEN "SQLite" ELSE "no database"]]
    /\ UNCHANGED <<file, backups, owner, lastServed, faults, interventions>>

\* Mutant: the lock is shared.
AcquireSharedLock(p) ==
    /\ At(p, "lock")
    /\ owner' = p
    /\ Goto(p, "open")
    /\ UNCHANGED <<file, backups, lastServed, faults, interventions>>

\* TryLock; ErrDatabaseInUse otherwise.
AcquireOwnerLock(p) ==
    /\ At(p, "lock")
    /\ \/ /\ owner = NoOwner
          /\ owner' = p
          /\ Goto(p, "open")
       \/ /\ owner # NoOwner
          /\ proc' = [proc EXCEPT ![p] = Idle]
          /\ UNCHANGED owner
    /\ UNCHANGED <<file, backups, lastServed, faults, interventions>>

\* The inspection under the lock, then OpenForPreparation, which creates a
\* missing file.
OpenForPreparation(p) ==
    /\ At(p, "open")
    /\ MayCreate(p)
    /\ LET refused == \/ proc[p].saw = "SQLite" /\ ~IsSQLite(file)
                      \/ IsSQLite(file) /\ ~PreparableExisting(file, p)
       IN  \/ /\ refused
              /\ Exit(p)
              /\ UNCHANGED file
           \/ /\ ~refused
              /\ file' = IF file = Missing THEN Bare("empty") ELSE file
              /\ proc' = [proc EXCEPT ![p].saw = "no database", ![p].step = "inspect"]
              /\ UNCHANGED owner
    /\ UNCHANGED <<backups, lastServed, faults, interventions>>

\* runDatabaseCommand: where verify and backup go from here.
MaintenanceStep(p) == IF proc[p].command = "backup" THEN "reserve" ELSE "check"

\* OpenExistingForMaintenance creates nothing; then runDatabaseCommand reads
\* identity and status again.
OpenExistingForMaintenance(p) ==
    /\ At(p, "open")
    /\ ~MayCreate(p)
    /\ \/ /\ Maintainable(file, p)
          /\ proc' = [proc EXCEPT ![p].from = file.version,
                                  ![p].step = MaintenanceStep(p)]
          /\ UNCHANGED owner
       \/ /\ ~Maintainable(file, p)
          /\ Exit(p)
    /\ UNCHANGED <<file, backups, lastServed, faults, interventions>>

----------------------------------------------------------------------------
(* Initializer.Prepare *)

InspectPreparation(p) ==
    /\ At(p, "inspect")
    /\ \/ /\ Preparable(file, p)
          /\ proc' = [proc EXCEPT ![p].from = file.version, ![p].begun = file,
                                  ![p].step = "configure"]
          /\ UNCHANGED owner
       \/ /\ ~Preparable(file, p)
          /\ Exit(p)
    /\ UNCHANGED <<file, backups, lastServed, faults, interventions>>

\* Mutant: the first released schema goes without a backup.
NeedsLateBackup(p) == proc[p].from > 1

NeedsBackup(p) == proc[p].from > 0

\* PRAGMA journal_mode = WAL writes the header of an empty file.
Configure(p) ==
    /\ At(p, "configure")
    /\ file' = IF file.kind = "empty" THEN Bare("bare") ELSE file
    /\ Goto(p, IF proc[p].from = Target[p] THEN "check"
               ELSE IF NeedsBackup(p) THEN "reserve" ELSE "up")
    /\ UNCHANGED <<backups, owner, lastServed, faults, interventions>>

\* What runs after Prepare: runServe goes on to serve and has no more use for
\* the result, a command returns.
Prepared(p) ==
    \/ /\ proc[p].command = "serve"
       /\ proc' = [proc EXCEPT ![p] =
                     [Idle EXCEPT !.command = "serve", !.step = "serving"]]
       /\ lastServed' = file
       /\ UNCHANGED owner
    \/ /\ proc[p].command # "serve"
       /\ Exit(p)
       /\ UNCHANGED lastServed

\* Nothing is pending: the checks of a restart, and of `db verify`.
CheckCurrent(p) ==
    /\ At(p, "check")
    /\ \/ CurrentSchema(file, p) /\ Prepared(p)
       \/ ~CurrentSchema(file, p) /\ Exit(p) /\ UNCHANGED lastServed
    /\ UNCHANGED <<file, backups, faults, interventions>>

----------------------------------------------------------------------------
(* BackupManager.create *)

Automatic == {b \in backups : b.kind = "pre-migration"}

\* reserveBackup: one more than every sequence in the directory.
IsNextSequence(n) ==
    /\ \A b \in backups : b.seq < n
    /\ n = 1 \/ \E b \in backups : b.seq = n - 1

\* QuickCheck, validateSource and reserveBackup, which leaves an empty file.
ReserveBackup(p) ==
    /\ At(p, "reserve")
    /\ \/ /\ file.kind = "app" /\ file.version = proc[p].from
          /\ \E n \in 1 .. MaxSequence :
               /\ IsNextSequence(n)
               /\ backups' = backups \cup
                    {[seq |-> n, version |-> proc[p].from, content |-> Missing,
                      kind |-> IF MayCreate(p) THEN "pre-migration" ELSE "manual"]}
               /\ proc' = [proc EXCEPT ![p].backup = n, ![p].step = "vacuum"]
          /\ UNCHANGED owner
       \/ /\ ~(file.kind = "app" /\ file.version = proc[p].from)
          /\ Exit(p)
          /\ UNCHANGED backups
    /\ UNCHANGED <<file, lastServed, faults, interventions>>

\* VACUUM INTO the reserved file.
VacuumInto(p) ==
    /\ At(p, "vacuum")
    /\ backups' = {IF b.seq = proc[p].backup THEN [b EXCEPT !.content = file] ELSE b
                     : b \in backups}
    /\ Goto(p, "verify")
    /\ UNCHANGED <<file, owner, lastServed, faults, interventions>>

Reserved(p) == {b \in backups : b.seq = proc[p].backup}

\* verifyDatabaseFile; a file that fails is removed.  A manual backup is done.
VerifyBackup(p) ==
    /\ At(p, "verify")
    /\ LET sound == \A b \in Reserved(p) :
                        b.content.kind = "app" /\ b.content.version = proc[p].from
       IN  \/ sound /\ MayCreate(p) /\ Goto(p, "prune") /\ UNCHANGED <<owner, backups>>
           \/ sound /\ ~MayCreate(p) /\ Exit(p) /\ UNCHANGED backups
           \/ ~sound /\ Exit(p) /\ backups' = backups \ Reserved(p)
    /\ UNCHANGED <<file, lastServed, faults, interventions>>

\* removeCount > 0
TooMany == Cardinality(Automatic) > Retention

\* Mutant: the newest automatic backup is expired, the one just taken included.
ExpiredNewest(p) ==
    {b \in Automatic : \A c \in Automatic : c.seq <= b.seq}

\* The oldest automatic backup other than the one just taken.
Expired(p) ==
    {b \in Automatic \ Reserved(p) : \A c \in Automatic \ Reserved(p) : b.seq <= c.seq}

\* One round of pruneAutomatic.
PruneAutomatic(p) ==
    /\ At(p, "prune")
    /\ \/ TooMany /\ backups' = backups \ Expired(p) /\ UNCHANGED proc
       \/ ~TooMany /\ Goto(p, "up") /\ UNCHANGED backups
    /\ UNCHANGED <<file, owner, lastServed, faults, interventions>>

----------------------------------------------------------------------------
(* Migrator.Up *)

\* Status and Up create Goose's version table first, in a transaction.
EnsureVersionTable(p) ==
    /\ At(p, "up")
    /\ Fresh(file)
    /\ file' = Bare("bootstrap")
    /\ UNCHANGED <<backups, owner, proc, lastServed, faults, interventions>>

\* One pending migration in its own transaction; the first one stamps the
\* application id.
ApplyMigration(p) ==
    /\ At(p, "up")
    /\ ~Fresh(file)
    /\ \/ /\ file.version < Target[p]
          /\ file' = [file EXCEPT !.kind = "app", !.version = @ + 1]
          /\ UNCHANGED proc
       \/ /\ file.version >= Target[p]
          /\ Goto(p, "recheck")
          /\ UNCHANGED file
    /\ UNCHANGED <<backups, owner, lastServed, faults, interventions>>

\* The checks after the migration, on a status read afresh.
CheckPrepared(p) ==
    /\ At(p, "recheck")
    /\ \/ CurrentSchema(file, p) /\ Prepared(p)
       \/ ~CurrentSchema(file, p) /\ Exit(p) /\ UNCHANGED lastServed
    /\ UNCHANGED <<file, backups, faults, interventions>>

----------------------------------------------------------------------------
(* The running server, faults, and the administrator *)

\* A request of the running server changes the data.
Write(p) ==
    /\ At(p, "serving")
    /\ file.data < MaxData
    /\ file' = [file EXCEPT !.data = @ + 1]
    /\ lastServed' = file'
    /\ UNCHANGED <<backups, owner, proc, faults, interventions>>

\* The listener ends, or a signal: shutdownServer waits for it, the lock goes last.
Shutdown(p) ==
    /\ At(p, "serving")
    /\ Exit(p)
    /\ UNCHANGED <<file, backups, lastServed, faults, interventions>>

\* An error or a cancelled context.  A reservation that is not verified yet is
\* removed by cleanup.
Fail(p) ==
    /\ owner = p
    /\ ~At(p, "serving")
    /\ faults < MaxFaults
    /\ faults' = faults + 1
    /\ backups' = IF proc[p].step \in {"vacuum", "verify"}
                    THEN backups \ Reserved(p) ELSE backups
    /\ Exit(p)
    /\ UNCHANGED <<file, lastServed, interventions>>

\* The process is killed: the operating system drops the lock, nothing is
\* cleaned up.
Crash(p) ==
    /\ owner = p
    /\ faults < MaxFaults
    /\ faults' = faults + 1
    /\ Exit(p)
    /\ UNCHANGED <<file, backups, lastServed, interventions>>

\* The administrator, while nobody owns the database, moves it away ...
RemoveFile ==
    /\ owner = NoOwner
    /\ file.kind # "foreign"
    /\ interventions < MaxInterventions
    /\ interventions' = interventions + 1
    /\ file' = Missing
    /\ lastServed' = Missing
    /\ UNCHANGED <<backups, owner, proc, faults>>

\* ... or puts a backup in its place.
Restore ==
    /\ owner = NoOwner
    /\ file.kind # "foreign"
    /\ interventions < MaxInterventions
    /\ interventions' = interventions + 1
    /\ \E b \in backups : b.content # Missing /\ file' = b.content
    /\ lastServed' = Missing
    /\ UNCHANGED <<backups, owner, proc, faults>>

----------------------------------------------------------------------------
Step(p) ==
    \/ \E command \in {"serve", "migrate", "verify", "backup"} : Start(p, command)
    \/ AcquireOwnerLock(p)
    \/ OpenForPreparation(p)
    \/ OpenExistingForMaintenance(p)
    \/ InspectPreparation(p)
    \/ Configure(p)
    \/ CheckCurrent(p)
    \/ ReserveBackup(p)
    \/ VacuumInto(p)
    \/ VerifyBackup(p)
    \/ PruneAutomatic(p)
    \/ EnsureVersionTable(p)
    \/ ApplyMigration(p)
    \/ CheckPrepared(p)
    \/ Write(p)
    \/ Shutdown(p)
    \/ Fail(p)
    \/ Crash(p)

Next == (\E p \in Process : Step(p)) \/ RemoveFile \/ Restore

Spec == Init /\ [][Next]_vars

----------------------------------------------------------------------------
(* Properties *)

\* Types of the file, the backup directory, the lock and the commands.
TypeOK ==
    /\ file \in Content
    /\ backups \subseteq Backup
    /\ owner \in Process \cup {NoOwner}
    /\ proc \in [Process -> Proc]
    /\ lastServed \in Content
    /\ faults \in 0 .. MaxFaults
    /\ interventions \in 0 .. MaxInterventions

\* For as long as a server runs, its database is exactly at the version of its
\* binary: no other build migrates it underneath, nobody replaces it, and
\* runServe never gets past Prepare with a partly migrated file.
ServesItsOwnSchema ==
    \A p \in Process : At(p, "serving") => CurrentSchema(file, p)

\* From the first migration of a released database to the end of the upgrade
\* there is a complete backup of the database Prepare found, pruning and the
\* faults of earlier attempts included (initializer.go: Create before Up).
MigrationIsProtected ==
    \A p \in Process :
        /\ At(p, "up") \/ At(p, "recheck")
        /\ proc[p].begun.kind = "app"
        => \E b \in backups : b.seq = proc[p].backup /\ b.content = proc[p].begun

\* The database as a server last had it can be got back: it is the file, or
\* in a backup, or at least Retention automatic backups were taken after it,
\* by attempts to upgrade it (backup.go: pruneAutomatic).
LastServedIsRecoverable ==
    \/ lastServed = Missing
    \/ file = lastServed
    \/ \E b \in backups : b.content = lastServed
    \/ Retention <= Cardinality(
         {b \in Automatic : b.content = Missing \/ b.content.version > lastServed.version})

\* A process leaves a file it must refuse alone, somebody else's or one of a
\* newer build: not changed, not backed up, from lock to return.
RefusedIsUntouched ==
    [][\A p \in Process :
         /\ owner = p
         /\ file.kind = "foreign" \/ (file.kind = "app" /\ file.version > Target[p])
         => UNCHANGED <<file, backups>>]_vars

\* Pruning never takes what an administrator asked for: a manual backup stays
\* once `db backup` has verified it.
ManualBackupsStay ==
    [][\A b \in backups :
         /\ b.kind = "manual"
         /\ \A p \in Process : proc[p].backup # b.seq
         => b \in backups']_vars

\* What an interrupted start leaves behind is taken up again by a later start of
\* some build, wherever between the lock, the version table and the last
\* migration it stopped.  The one exception is a SQLite file that configure made
\* and in which Goose created nothing (withOwnedDatabase, inspectPreparation).
InterruptedStartCanBeRetried ==
    owner = NoOwner /\ file.kind \notin {"foreign", "bare"} =>
        \E p \in Process : ~IsSQLite(file) \/ PreparableExisting(file, p)

============================================================================
