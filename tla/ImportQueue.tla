---------------------------- MODULE ImportQueue ----------------------------
(***************************************************************************)
(* The upload queue of legacy workbooks: Service.EnqueueLegacy             *)
(* (backend/imports/service.go), the file store it writes to, and the      *)
(* queries a worker uses to take an import from the queue and to end it.   *)
(*                                                                         *)
(* Concurrent HTTP requests run EnqueueLegacy.  They share the process     *)
(* mutex queueMu and the single SQLite connection; an open transaction     *)
(* keeps the connection, and every other statement waits for it.           *)
(***************************************************************************)
EXTENDS Integers, Sequences, FiniteSets

CONSTANTS
    Client,            \* concurrent upload requests
    Key,               \* idempotency keys
    NoKey,             \* the request carries no key
    Sha,               \* workbook contents, named by their digest
    GoodSha,           \* contents that pass legacy.Preflight
    Nobody,            \* mutex or connection is free
    ActiveQueueLimit,  \* Config.ActiveQueueLimit
    MaxUploads,        \* bound: uploads stored in a behaviour
    MaxCrashes         \* bound: process crashes in a behaviour

ASSUME KeyAssumption == NoKey \notin Key
ASSUME ShaAssumption == GoodSha \subseteq Sha
ASSUME NobodyAssumption == Nobody \notin Client
ASSUME LimitAssumption == ActiveQueueLimit \in Nat \ {0}
ASSUME BoundAssumption == MaxUploads \in Nat /\ MaxCrashes \in Nat

VARIABLES
    imports,   \* table imports; the id of a row is its position
    files,     \* tokens present in the file store
    uploads,   \* tokens drawn so far (randomHexToken never repeats one)
    call,      \* call[c]: the EnqueueLegacy call of client c
    queueMu,   \* holder of the mutex
    conn,      \* holder of the connection, while a transaction is open
    answers,   \* successful answers ever sent, as <<key, import id>>
    stranded,  \* tokens of discarded uploads whose file could not be removed, or
               \* was not because the process crashed
    crashes

vars == <<imports, files, uploads, call, queueMu, conn, answers, stranded, crashes>>
dbVars == <<imports, answers, stranded, crashes>>

Active == {"queued", "processing"}
Completed == {"completed"}  \* and completed_with_issues
Ended == {"completed", "failed"}  \* failed stands for cancelled too

NoToken == 0
NoReply == [kind |-> "none", id |-> 0, position |-> 0]
Reply(kind, id, position) == [kind |-> kind, id |-> id, position |-> position]

\* token: temp_file_token of the row; lease: whether lease_expires_at is set and
\* whether it has passed; staged: staged_at is set.
ImportRow ==
    [key: Key \cup {NoKey}, sha: Sha, status: Active \cup Ended,
     token: Nat, lease: {"none", "live", "lapsed"}, staged: BOOLEAN]

ReplyKinds == {"none", "created", "reused", "duplicate_file", "queue_full",
               "rejected", "error"}

\* reuse is the import found by its key, snapStatus its status when it was read.
Call ==
    [step: {"idle", "key", "save", "preflight", "lock", "begin", "insert",
            "position", "cleanup"},
     key: Key \cup {NoKey}, sha: Sha \cup {NoKey}, token: Nat, reuse: Nat,
     snapStatus: Active \cup Ended \cup {"none"}, keepFile: BOOLEAN,
     reply: [kind: ReplyKinds, id: Nat, position: Nat]]

\* The reply is known from the moment the result is until it is sent.
IdleCall ==
    [step |-> "idle", key |-> NoKey, sha |-> NoKey, token |-> NoToken, reuse |-> 0,
     snapStatus |-> "none", keepFile |-> FALSE, reply |-> NoReply]

Init ==
    /\ imports = << >>
    /\ files = {}
    /\ uploads = 0
    /\ call = [c \in Client |-> IdleCall]
    /\ queueMu = Nobody
    /\ conn = Nobody
    /\ answers = {}
    /\ stranded = {}
    /\ crashes = 0

----------------------------------------------------------------------------
(* Queries *)

Ids == DOMAIN imports
\* Mutant: only a running import is found by its key.
WithKeyActive(k) == {i \in Ids : /\ imports[i].key = k /\ k # NoKey
                                /\ imports[i].status \in Active}

WithKey(k) == {i \in Ids : imports[i].key = k /\ k # NoKey}
\* FindExistingLegacyImportBySHA256, and ux_imports_active_legacy_sha256.
WithSha(h) == {i \in Ids : imports[i].sha = h /\ imports[i].status \in Active \cup Completed}
Newest(S) == CHOOSE i \in S : \A j \in S : j <= i
Oldest(S) == CHOOSE i \in S : \A j \in S : i <= j
ActiveIds == {i \in Ids : imports[i].status \in Active}
QueueFull == Cardinality(ActiveIds) >= ActiveQueueLimit

CountImportsAhead(i) == Cardinality({j \in ActiveIds : j < i})

At(c, step) == call[c].step = step
Become(c, r) == call' = [call EXCEPT ![c] = r]

----------------------------------------------------------------------------
(* EnqueueLegacy *)

\* A request arrives with a validated key and body.
StartUpload(c, k, h) ==
    /\ At(c, "idle")
    /\ uploads + Cardinality({d \in Client : ~At(d, "idle")}) < MaxUploads
    /\ Become(c, [IdleCall EXCEPT !.key = k, !.sha = h,
                    !.step = IF k = NoKey THEN "save" ELSE "key"])
    /\ UNCHANGED <<dbVars, files, uploads, queueMu, conn>>

\* The lookup before anything is stored; a hit goes on to reuseResult.
CheckIdempotencyKey(c) ==
    /\ At(c, "key")
    /\ conn = Nobody
    /\ \/ /\ WithKey(call[c].key) = {}
          /\ Become(c, [call[c] EXCEPT !.step = "save"])
       \/ \E i \in WithKey(call[c].key) :
            Become(c, [call[c] EXCEPT !.step = "position", !.reuse = i,
                         !.snapStatus = imports[i].status])
    /\ UNCHANGED <<dbVars, files, uploads, queueMu, conn>>

\* FileStore.Save: a fresh token, the body written and hashed.
SaveFile(c) ==
    /\ At(c, "save")
    /\ uploads' = uploads + 1
    /\ files' = files \cup {uploads + 1}
    /\ Become(c, [call[c] EXCEPT !.step = "preflight", !.token = uploads + 1])
    /\ UNCHANGED <<dbVars, queueMu, conn>>

\* Save fails after it created the file and cannot remove it: the error of its
\* deferred os.Remove is ignored, and the request has no token to delete.  (A Save
\* that leaves nothing behind is Fail.)
SaveFails(c) ==
    /\ At(c, "save")
    /\ uploads' = uploads + 1
    /\ files' = files \cup {uploads + 1}
    /\ stranded' = stranded \cup {uploads + 1}
    /\ Become(c, [call[c] EXCEPT !.step = "cleanup", !.reply = Reply("error", 0, 0)])
    /\ UNCHANGED <<imports, queueMu, conn, answers, crashes>>

Preflight(c) ==
    /\ At(c, "preflight")
    /\ \/ /\ call[c].sha \in GoodSha
          /\ Become(c, [call[c] EXCEPT !.step = "lock"])
       \/ /\ call[c].sha \notin GoodSha
          /\ Become(c, [call[c] EXCEPT !.step = "cleanup",
                          !.reply = Reply("rejected", 0, 0)])
    /\ UNCHANGED <<dbVars, files, uploads, queueMu, conn>>

LockQueue(c) ==
    /\ At(c, "lock")
    /\ queueMu = Nobody
    /\ queueMu' = c
    /\ Become(c, [call[c] EXCEPT !.step = "begin"])
    /\ UNCHANGED <<dbVars, files, uploads, conn>>

BeginTx(c) ==
    /\ At(c, "begin")
    /\ conn = Nobody
    /\ conn' = c
    /\ Become(c, [call[c] EXCEPT !.step = "insert"])
    /\ UNCHANGED <<dbVars, files, uploads, queueMu>>

\* The outcomes of the transaction of insertQueuedImport, in its order.
ReuseInTx(c) ==
    \E i \in WithKey(call[c].key) :
        /\ Become(c, [call[c] EXCEPT !.step = "position", !.reuse = i,
                        !.snapStatus = imports[i].status])
        /\ UNCHANGED <<imports, queueMu>>

RefuseInTx(c) ==
    /\ WithKey(call[c].key) = {}
    /\ \/ /\ WithSha(call[c].sha) # {}
          /\ Become(c, [call[c] EXCEPT !.step = "cleanup",
               !.reply = Reply("duplicate_file", Newest(WithSha(call[c].sha)), 0)])
       \/ /\ WithSha(call[c].sha) = {}
          /\ QueueFull
          /\ Become(c, [call[c] EXCEPT !.step = "cleanup",
               !.reply = Reply("queue_full", 0, 0)])
    /\ queueMu' = Nobody
    /\ UNCHANGED imports

CreateInTx(c) ==
    /\ WithKey(call[c].key) = {}
    /\ WithSha(call[c].sha) = {}
    /\ ~QueueFull
    /\ imports' = Append(imports,
         [key |-> call[c].key, sha |-> call[c].sha, status |-> "queued",
          token |-> call[c].token, lease |-> "none", staged |-> FALSE])
    /\ Become(c, [call[c] EXCEPT !.step = "cleanup", !.keepFile = TRUE,
         !.reply = Reply("created", Len(imports) + 1, Cardinality(ActiveIds) + 1)])
    /\ queueMu' = Nobody

\* Mutant: the transaction stays open while the reused import is looked up.
InsertWithoutRollback(c) ==
    /\ At(c, "insert")
    /\ conn = c
    /\ \/ ReuseInTx(c) /\ UNCHANGED conn
       \/ (RefuseInTx(c) \/ CreateInTx(c)) /\ conn' = Nobody
    /\ UNCHANGED <<files, uploads, answers, stranded, crashes>>

InsertQueuedImport(c) ==
    /\ At(c, "insert")
    /\ conn = c
    /\ ReuseInTx(c) \/ RefuseInTx(c) \/ CreateInTx(c)
    /\ conn' = Nobody
    /\ UNCHANGED <<files, uploads, answers, stranded, crashes>>

\* queuePosition: outside any transaction, and inside the mutex when the key was
\* found by the second lookup.
QueuePosition(c) ==
    /\ At(c, "position")
    /\ conn = Nobody
    /\ LET i == call[c].reuse
           p == IF call[c].snapStatus = "queued" THEN CountImportsAhead(i) + 1 ELSE 0
       IN  Become(c, [call[c] EXCEPT !.step = "cleanup",
                        !.reply = Reply("reused", i, p)])
    /\ queueMu' = IF queueMu = c THEN Nobody ELSE queueMu
    /\ UNCHANGED <<dbVars, files, uploads, conn>>

\* Mutant: the stored copy of a refused or repeated upload is kept.
AnswerKeepFile(c) ==
    /\ At(c, "cleanup")
    /\ Become(c, IdleCall)
    /\ UNCHANGED <<dbVars, files, uploads, queueMu, conn>>

\* The deferred Delete of the stored copy unless an import keeps it.  Its error is
\* ignored: the file may stay.
DeleteUpload(c) ==
    \/ /\ files' = IF call[c].keepFile THEN files ELSE files \ {call[c].token}
       /\ UNCHANGED stranded
    \/ /\ ~call[c].keepFile
       /\ call[c].token # NoToken
       /\ stranded' = stranded \cup {call[c].token}
       /\ UNCHANGED files

\* The deferred Delete, and the answer.
Answer(c) ==
    /\ At(c, "cleanup")
    /\ DeleteUpload(c)
    /\ answers' = IF call[c].reply.kind \in {"created", "reused"}
                    THEN answers \cup {<<call[c].key, call[c].reply.id>>}
                    ELSE answers
    /\ Become(c, IdleCall)
    /\ UNCHANGED <<imports, uploads, queueMu, conn, crashes>>

\* Cancellation or an I/O error before the commit: the transaction is rolled
\* back and the mutex released by the deferred calls; Answer has the Delete.
Fail(c) ==
    /\ call[c].step \notin {"idle", "cleanup"}
    /\ Become(c, [call[c] EXCEPT !.step = "cleanup", !.reply = Reply("error", 0, 0)])
    /\ queueMu' = IF queueMu = c THEN Nobody ELSE queueMu
    /\ conn' = IF conn = c THEN Nobody ELSE conn
    /\ UNCHANGED <<dbVars, files, uploads>>

\* The process dies: calls, mutex and open transaction are gone, rows and files
\* stay.
Crash ==
    /\ crashes < MaxCrashes
    /\ crashes' = crashes + 1
    /\ stranded' = stranded \cup {call[c].token : c \in
         {d \in Client : ~call[d].keepFile /\ call[d].token # NoToken}}
    /\ call' = [c \in Client |-> IdleCall]
    /\ queueMu' = Nobody
    /\ conn' = Nobody
    /\ UNCHANGED <<imports, files, uploads, answers>>

----------------------------------------------------------------------------
(* The worker side *)

SetImport(i, r) ==
    /\ conn = Nobody
    /\ imports' = [imports EXCEPT ![i] = r]
    /\ UNCHANGED <<uploads, call, queueMu, conn, answers, stranded, crashes>>

\* Mutant: an import whose lease lapsed is passed over.
ClaimableQueued == {i \in Ids : imports[i].status = "queued"}

Claimable == {i \in Ids : \/ imports[i].status = "queued"
                          \/ imports[i].status = "processing" /\ imports[i].lease # "live"}
LiveIds == {i \in Ids : imports[i].status = "processing" /\ imports[i].lease = "live"}

ClaimNextImport ==
    /\ Claimable # {}
    /\ LiveIds = {}
    /\ LET i == Oldest(Claimable)
       IN  SetImport(i, [imports[i] EXCEPT !.status = "processing", !.lease = "live"])
    /\ UNCHANGED files

LeaseExpires(i) ==
    /\ i \in LiveIds
    /\ SetImport(i, [imports[i] EXCEPT !.lease = "lapsed"])
    /\ UNCHANGED files

\* Stage in three durable steps (module ImportStaging has the whole of it).
CompleteStaging(i) ==
    /\ i \in LiveIds
    /\ ~imports[i].staged
    /\ SetImport(i, [imports[i] EXCEPT !.staged = TRUE])
    /\ UNCHANGED files

DeleteSource(i) ==
    /\ imports[i].staged
    /\ imports[i].token \in files
    /\ files' = files \ {imports[i].token}
    /\ UNCHANGED <<dbVars, uploads, call, queueMu, conn>>

ClearToken(i) ==
    /\ i \in LiveIds
    /\ imports[i].staged
    /\ imports[i].token # NoToken
    /\ imports[i].token \notin files
    /\ SetImport(i, [imports[i] EXCEPT !.token = NoToken])
    /\ UNCHANGED files

\* UpdateImportState, as the worker that holds an import will use it: completed
\* only when it is staged and its token cleared, failed at any time.
EndImport(i) ==
    /\ \/ /\ i \in LiveIds /\ imports[i].staged /\ imports[i].token = NoToken
          /\ SetImport(i, [imports[i] EXCEPT !.status = "completed", !.lease = "none"])
       \/ /\ i \in LiveIds
          /\ SetImport(i, [imports[i] EXCEPT !.status = "failed", !.lease = "none"])
    /\ UNCHANGED files

----------------------------------------------------------------------------
CallStep(c) ==
    \/ CheckIdempotencyKey(c)
    \/ SaveFile(c)
    \/ Preflight(c)
    \/ LockQueue(c)
    \/ BeginTx(c)
    \/ InsertQueuedImport(c)
    \/ QueuePosition(c)
    \/ Answer(c)

Next ==
    \/ \E c \in Client, k \in Key \cup {NoKey}, h \in Sha : StartUpload(c, k, h)
    \/ \E c \in Client : CallStep(c) \/ SaveFails(c) \/ Fail(c)
    \/ Crash
    \/ ClaimNextImport
    \/ \E i \in Ids : \/ LeaseExpires(i)
                      \/ CompleteStaging(i)
                      \/ DeleteSource(i)
                      \/ ClearToken(i)
                      \/ EndImport(i)

Spec == Init /\ [][Next]_vars
FairSpec == Spec /\ \A c \in Client : WF_vars(CallStep(c))

----------------------------------------------------------------------------
(* Properties *)

\* Every variable has the type of the row or Go value it models.
TypeOK ==
    /\ imports \in Seq(ImportRow)
    /\ files \subseteq 1 .. MaxUploads
    /\ uploads \in 0 .. MaxUploads
    /\ call \in [Client -> Call]
    /\ queueMu \in Client \cup {Nobody}
    /\ conn \in Client \cup {Nobody}
    /\ answers \subseteq (Key \cup {NoKey}) \X Nat
    /\ stranded \subseteq 1 .. MaxUploads
    /\ crashes \in 0 .. MaxCrashes

\* The queue never holds more than ActiveQueueLimit imports, whatever requests
\* are between the capacity check and the insert (insertQueuedImport).
QueueIsBounded == Cardinality(ActiveIds) <= ActiveQueueLimit

\* Of the imports of one workbook at most one is waiting, running or completed
\* (the digest check of insertQueuedImport).
OneImportPerWorkbook ==
    \A i, j \in {k \in Ids : imports[k].status \in Active \cup Completed} :
        imports[i].sha = imports[j].sha => i = j

\* All successful answers to one idempotency key name the same import, across
\* concurrent requests, retries after errors and crashes (EnqueueLegacy).
AnswersAgree ==
    \A a, b \in answers : a[1] = b[1] /\ a[1] # NoKey => a[2] = b[2]

\* A retry with the key of an existing import is never turned away as a
\* duplicate of that import: the key is looked up before the digest.
RetryIsNotDuplicate ==
    \A c \in Client :
        call[c].reply.kind = "duplicate_file" /\ call[c].key # NoKey
            => imports[call[c].reply.id].key # call[c].key

\* Uploading again changes nothing: one import per workbook, one import per key,
\* and the owner of the key is told of it (insertQueuedImport, reuseResult).
UploadsAreIdempotent == OneImportPerWorkbook /\ AnswersAgree /\ RetryIsNotDuplicate

\* An import that still has to be staged has its workbook in the file store:
\* no cleanup of another request, of a loser of a race or of a worker that was
\* replaced removes it (keepFile and the deferred Delete).
WaitingImportHasSource ==
    \A i \in Ids : imports[i].status \in Active /\ ~imports[i].staged
        => imports[i].token \in files

\* Every file in the store belongs to an import or to a request in flight, or was
\* stranded by a crash or by a removal that failed: no path of EnqueueLegacy
\* forgets the file it stored (its deferred Delete, and that of Save).
NoLeakedUpload ==
    files \subseteq {imports[i].token : i \in Ids}
                     \cup {call[c].token : c \in Client} \cup stranded

\* The file store and the table of imports agree, in both directions, although
\* no transaction spans them (EnqueueLegacy, the file store).
FilesMatchRows == WaitingImportHasSource /\ NoLeakedUpload

\* Workbooks are processed first in, first out and one at a time, also across
\* lapsed leases: an import leaves the queue only when all earlier ones ended
\* (ClaimNextImport).
StrictFIFO ==
    \A i \in Ids : imports[i].status # "queued" =>
        \A j \in 1 .. (i - 1) : imports[j].status \in Ended

\* The queue position in an answer is a possible one, although it is computed by
\* a query of its own after the import was read (queuePosition).
PositionIsPossible ==
    \A c \in Client : call[c].reply.kind \in {"created", "reused"} =>
        call[c].reply.position \in
            (IF call[c].reply.kind = "created" THEN 1 ELSE 0) .. ActiveQueueLimit

\* The queue is well typed, bounded, first in first out, and its answers place an
\* import within it (insertQueuedImport, ClaimNextImport, queuePosition).
QueueIsOrderly == TypeOK /\ QueueIsBounded /\ StrictFIFO /\ PositionIsPossible

\* Every request is answered: no request waits for the connection while it keeps
\* it, and none keeps the mutex (insertQueuedImport rolls back before it calls
\* reuseResult).
EveryUploadIsAnswered ==
    \A c \in Client : ~At(c, "idle") ~> At(c, "idle")

============================================================================
