------------------------- MODULE ImportQueueProofs -------------------------
(***************************************************************************)
(* Proofs about module ImportQueue, for any number of clients, keys,       *)
(* workbooks, uploads and crashes: the queue is bounded and first in first *)
(* out, uploading again changes nothing, and no file is lost or leaked.    *)
(***************************************************************************)
EXTENDS ImportQueue, FiniteSetTheorems, WellFoundedInduction, TLAPS

USE KeyAssumption, ShaAssumption, NobodyAssumption, LimitAssumption, BoundAssumption

\* Requests under way, and those that have not stored their file yet.
Busy == {c \in Client : call[c].step # "idle"}
Unsaved == {c \in Client : call[c].step \in {"key", "save"}}

\* A request that has yet to store its file has its place below the bound.
TypeInv ==
    /\ TypeOK
    /\ files \subseteq 1 .. uploads
    /\ IsFiniteSet(Busy)
    /\ uploads + Cardinality(Unsaved) <= MaxUploads

\* The columns that no worker changes, and the order of the rows.
KeysAreUnique ==
    \A i, j \in Ids : imports[i].key = imports[j].key /\ imports[i].key # NoKey => i = j

RowsInv == QueueIsBounded /\ StrictFIFO /\ OneImportPerWorkbook /\ KeysAreUnique

\* What a request holds at which step.
StepOK(j) ==
    /\ j.step # "idle" => j.sha \in Sha
    /\ j.step \in {"idle", "key", "save"} => j.token = NoToken
    /\ j.step \in {"preflight", "lock", "begin", "insert"} => j.token # NoToken
    /\ j.step # "cleanup" => ~j.keepFile /\ j.reply = NoReply

\* What a request tells its client is true of the table.
ReplyOK(j) ==
    /\ j.step = "position" => j.reuse \in Ids /\ imports[j.reuse].key = j.key
    /\ j.reply.kind \in {"created", "reused"} =>
         /\ j.reply.id \in Ids
         /\ imports[j.reply.id].key = j.key
         /\ j.reply.position \in
              (IF j.reply.kind = "created" THEN 1 ELSE 0) .. ActiveQueueLimit
    /\ j.reply.kind = "duplicate_file" =>
         /\ j.reply.id \in Ids
         /\ j.key # NoKey => imports[j.reply.id].key # j.key

CallsInv == \A c \in Client : StepOK(call[c]) /\ ReplyOK(call[c])

\* Token t is that of an import.
Owned(t) == \E i \in Ids : imports[i].token = t

\* The request will delete its file.
Discards(j) == j.token # NoToken /\ ~j.keepFile

\* A file that will be deleted is there and nobody else's; a file that is kept
\* is the import's.
TokenOK(j) ==
    /\ j.token <= uploads
    /\ Discards(j) => j.token \in files /\ ~Owned(j.token)
    /\ j.keepFile /\ j.token \in files => Owned(j.token)

TokensDiffer ==
    /\ \A c, d \in Client :
         /\ Discards(call[c]) /\ Discards(call[d])
         /\ call[c].token = call[d].token
         => c = d
    /\ \A i, j \in Ids :
         imports[i].token = imports[j].token /\ imports[i].token # NoToken => i = j

TokensInv ==
    /\ \A c \in Client : TokenOK(call[c])
    /\ \A i \in Ids : imports[i].token <= uploads
    /\ TokensDiffer
    /\ FilesMatchRows

\* An answer that was sent names the import that has the key.
AnswersInv ==
    \A a \in answers : a[1] # NoKey => a[2] \in Ids /\ imports[a[2]].key = a[1]

\* The inductive invariant.
QInv == TypeInv /\ RowsInv /\ CallsInv /\ TokensInv /\ AnswersInv

----------------------------------------------------------------------------
(* Lemmas *)

\* A set of naturals that is not empty has a least element.
LEMMA LeastElement ==
    ASSUME NEW S \in SUBSET Nat, S # {}
    PROVE  \E m \in S : \A n \in S : m <= n
<1>1. PICK R : R = {ss \in Nat \X Nat : ss[1] < ss[2]}
  OBVIOUS
<1>2. IsWellFoundedOn(R, Nat)
  BY <1>1, NatLessThanWellFounded DEF OpToRel
<1>3. PICK m \in S : \A n \in S : ~(<<n, m>> \in R)
  BY <1>2, WFMin, Zenon
<1>4. \A n \in S : ~(n < m)
  BY <1>1, <1>3
<1> QED
  BY <1>4

\* The queue is a finite set.
LEMMA ActiveFinite ==
    ASSUME imports \in Seq(ImportRow)
    PROVE  /\ Ids = 1 .. Len(imports) /\ Len(imports) \in Nat
           /\ IsFiniteSet(ActiveIds)
           /\ Cardinality(ActiveIds) \in Nat
<1>1. Ids = 1 .. Len(imports) /\ Len(imports) \in Nat
  BY DEF Ids
<1>2. IsFiniteSet(Ids)
  BY <1>1, FS_Interval
<1>3. ActiveIds \in SUBSET Ids
  BY DEF ActiveIds
<1> QED
  BY <1>1, <1>2, <1>3, FS_Subset, FS_CardinalityType

\* A request that goes on without touching table or files keeps the invariant.
LEMMA CallMoves ==
    ASSUME QInv, NEW c \in Client, NEW j \in Call, Become(c, j),
           UNCHANGED <<dbVars, files, uploads>>,
           queueMu' \in Client \cup {Nobody}, conn' \in Client \cup {Nobody},
           call[c].step # "idle", call[c].step # "cleanup",
           j.step \in {"key", "save"} => call[c].step \in {"key", "save"},
           j.step # "idle",
           j.token = call[c].token, ~j.keepFile,
           StepOK(j), ReplyOK(j)
    PROVE  QInv'
<1>1. /\ call' \in [Client -> Call]
      /\ call'[c] = j
      /\ \A d \in Client : d # c => call'[d] = call[d]
  BY DEF QInv, TypeInv, TypeOK, Become
<1>2. Busy' = Busy /\ Unsaved' \in SUBSET Unsaved /\ Unsaved \in SUBSET Busy
  BY <1>1 DEF Busy, Unsaved
<1>3. IsFiniteSet(Unsaved) /\ Cardinality(Unsaved') <= Cardinality(Unsaved)
      /\ Cardinality(Unsaved) \in Nat /\ Cardinality(Unsaved') \in Nat
  BY <1>2, FS_Subset, FS_CardinalityType DEF QInv, TypeInv
<1>4. TypeInv'
  BY <1>1, <1>2, <1>3 DEF QInv, TypeInv, TypeOK, dbVars
<1>5. RowsInv' /\ AnswersInv'
  BY DEF QInv, RowsInv, AnswersInv, KeysAreUnique, QueueIsBounded, StrictFIFO,
         OneImportPerWorkbook, dbVars, Ids, ActiveIds
<1>6. CallsInv'
  BY <1>1 DEF QInv, CallsInv, StepOK, ReplyOK, dbVars, Ids
<1>7. ~call[c].keepFile
  BY DEF QInv, CallsInv, StepOK
<1>8. TokensInv'
  BY <1>1, <1>7 DEF QInv, TokensInv, TokenOK, TokensDiffer, Discards, Owned, Ids, dbVars,
       FilesMatchRows, WaitingImportHasSource, NoLeakedUpload
<1> QED
  BY <1>4, <1>5, <1>6, <1>8 DEF QInv

\* A worker changes one row, and not its key or digest.  The row may leave the
\* queue only when all earlier ones have ended, and once it has ended stays so;
\* it loses its token only when the file is gone.
LEMMA RowMoves ==
    ASSUME QInv, NEW i \in Ids, NEW r \in ImportRow, SetImport(i, r), UNCHANGED files,
           r.key = imports[i].key, r.sha = imports[i].sha,
           imports[i].status \in Active,
           r.status # "queued" => \A j \in 1 .. (i - 1) : imports[j].status \in Ended,
           \/ r.token = imports[i].token
           \/ r.token = NoToken /\ r.staged /\ imports[i].token \notin files,
           imports[i].staged => r.staged
    PROVE  QInv'
<1>1. /\ imports' \in Seq(ImportRow)
      /\ Ids' = Ids /\ Ids = 1 .. Len(imports) /\ Len(imports) \in Nat
      /\ imports'[i] = r
      /\ \A j \in Ids : j # i => imports'[j] = imports[j]
  BY DEF QInv, TypeInv, TypeOK, SetImport, Ids
<1>2. \A j \in Ids : imports'[j].key = imports[j].key /\ imports'[j].sha = imports[j].sha
  BY <1>1
<1>3. TypeInv'
  BY <1>1 DEF QInv, TypeInv, TypeOK, SetImport, Busy, Unsaved
<1>4. RowsInv'
  <2>1. QueueIsBounded'
    <3>1. ActiveIds' \in SUBSET ActiveIds
      BY <1>1 DEF ActiveIds
    <3>2. /\ IsFiniteSet(ActiveIds) /\ Cardinality(ActiveIds) \in Nat
          /\ IsFiniteSet(ActiveIds') /\ Cardinality(ActiveIds') \in Nat
      BY <3>1, ActiveFinite, FS_Subset, FS_CardinalityType DEF QInv, TypeInv, TypeOK
    <3>3. Cardinality(ActiveIds') <= Cardinality(ActiveIds)
      BY <3>1, <3>2, FS_Subset
    <3> QED
      BY <3>2, <3>3 DEF QInv, RowsInv, QueueIsBounded
  <2>2. StrictFIFO'
    <3> SUFFICES ASSUME NEW k \in Ids, imports'[k].status # "queued",
                        NEW j \in 1 .. (k - 1)
                 PROVE  imports'[j].status \in Ended
      BY <1>1 DEF StrictFIFO
    <3>1. j \in Ids /\ j < k
      BY <1>1
    <3>2. imports[j].status \in Ended
      BY <1>1, <3>1 DEF QInv, RowsInv, StrictFIFO
    <3>3. j # i
      BY <3>2 DEF Active, Ended
    <3> QED
      BY <1>1, <3>1, <3>2, <3>3
  <2>3. OneImportPerWorkbook'
    <3> SUFFICES ASSUME NEW j \in Ids, NEW k \in Ids,
                        imports'[j].status \in Active \cup Completed,
                        imports'[k].status \in Active \cup Completed,
                        imports'[j].sha = imports'[k].sha
                 PROVE  j = k
      BY <1>1 DEF OneImportPerWorkbook
    <3>1. /\ imports[j].status \in Active \cup Completed
          /\ imports[k].status \in Active \cup Completed
          /\ imports[j].sha = imports[k].sha
      BY <1>1, <1>2
    <3> QED
      BY <3>1 DEF QInv, RowsInv, OneImportPerWorkbook
  <2>4. KeysAreUnique'
    BY <1>1, <1>2 DEF QInv, RowsInv, KeysAreUnique
  <2> QED
    BY <2>1, <2>2, <2>3, <2>4 DEF RowsInv
<1>5. CallsInv' /\ AnswersInv'
  BY <1>1, <1>2 DEF QInv, CallsInv, AnswersInv, StepOK, ReplyOK, SetImport
<1>6. TokensInv'
  <2>1. \A j \in Ids : \/ imports'[j].token = imports[j].token
                       \/ /\ imports'[j].token = NoToken
                          /\ imports[j].token \notin files
    BY <1>1
  <2>2. NoToken \notin files
    BY DEF NoToken, QInv, TypeInv, TypeOK
  <2>3. \A t : /\ t # NoToken /\ Owned(t)' => Owned(t)
               /\ t \in files /\ Owned(t) => Owned(t)'
    BY <1>1, <2>1, <2>2 DEF Owned
  <2>4. \A c \in Client : TokenOK(call[c])'
    BY <2>3 DEF QInv, TokensInv, TokenOK, Discards, SetImport
  <2>5. \A j \in Ids' : imports'[j].token <= uploads'
    BY <1>1, <2>1 DEF QInv, TokensInv, SetImport, TypeInv, TypeOK, NoToken
  <2>6. TokensDiffer'
    BY <1>1, <2>1 DEF QInv, TokensInv, TokensDiffer, SetImport, Discards
  <2>7. WaitingImportHasSource'
    BY <1>1 DEF QInv, TokensInv, FilesMatchRows, WaitingImportHasSource, SetImport
  <2>8. NoLeakedUpload'
    <3> SUFFICES ASSUME NEW t \in files
                 PROVE  \/ \E j \in Ids' : t = imports'[j].token
                        \/ \E c \in Client : t = call'[c].token
                        \/ t \in stranded'
      BY DEF NoLeakedUpload
    <3>1. \/ \E j \in Ids : t = imports[j].token
          \/ \E c \in Client : t = call[c].token
          \/ t \in stranded
      BY DEF QInv, TokensInv, FilesMatchRows, NoLeakedUpload
    <3> QED
      BY <1>1, <2>1, <3>1 DEF SetImport
  <2> QED
    BY <2>4, <2>5, <2>6, <2>7, <2>8 DEF TokensInv, FilesMatchRows
<1> QED
  BY <1>3, <1>4, <1>5, <1>6 DEF QInv

----------------------------------------------------------------------------
(* EnqueueLegacy *)

\* The fields of a call.
LEMMA CallType ==
    ASSUME QInv, NEW c \in Client
    PROVE  /\ call[c] \in Call
           /\ StepOK(call[c]) /\ ReplyOK(call[c]) /\ TokenOK(call[c])
BY DEF QInv, TypeInv, TypeOK, CallsInv, TokensInv

\* A new upload holds no file yet.
LEMMA StartUploadInv ==
    ASSUME QInv, NEW c \in Client, NEW k \in Key \cup {NoKey}, NEW h \in Sha,
           StartUpload(c, k, h)
    PROVE  QInv'
<1>1. PICK j : j = [IdleCall EXCEPT !.key = k, !.sha = h,
                      !.step = IF k = NoKey THEN "save" ELSE "key"]
  OBVIOUS
<1>2. /\ j \in Call /\ j.token = NoToken /\ ~j.keepFile /\ j.step \in {"key", "save"}
      /\ j.reply = NoReply /\ j.sha \in Sha
  BY <1>1 DEF IdleCall, Call, NoToken, NoReply, ReplyKinds
<1>3. /\ call' \in [Client -> Call]
      /\ call'[c] = j
      /\ \A d \in Client : d # c => call'[d] = call[d]
  BY <1>1, <1>2 DEF QInv, TypeInv, TypeOK, StartUpload, Become
<1>4. Busy' = Busy \cup {c} /\ Unsaved' = Unsaved \cup {c} /\ Unsaved \in SUBSET Busy
      /\ c \notin Busy
  BY <1>2, <1>3 DEF Busy, Unsaved, StartUpload, At
<1>5. /\ IsFiniteSet(Busy) /\ Cardinality(Busy) \in Nat
      /\ uploads \in Nat
      /\ uploads + Cardinality(Busy) < MaxUploads
  BY FS_CardinalityType DEF QInv, TypeInv, TypeOK, StartUpload, Busy, At
<1>6. /\ IsFiniteSet(Busy')
      /\ IsFiniteSet(Unsaved) /\ Cardinality(Unsaved) \in Nat
      /\ Cardinality(Unsaved) <= Cardinality(Busy)
      /\ Cardinality(Unsaved') = Cardinality(Unsaved) + 1
  BY <1>4, <1>5, FS_AddElement, FS_Subset, FS_CardinalityType
<1>7. TypeInv'
  BY <1>3, <1>5, <1>6 DEF QInv, TypeInv, TypeOK, dbVars, StartUpload
<1>8. RowsInv' /\ AnswersInv'
  BY DEF QInv, RowsInv, AnswersInv, KeysAreUnique, QueueIsBounded, StrictFIFO,
         OneImportPerWorkbook, dbVars, Ids, ActiveIds, StartUpload
<1>9. StepOK(j) /\ ReplyOK(j)' /\ j.reply.kind = "none"
  BY <1>2 DEF StepOK, ReplyOK, NoReply
<1>10. CallsInv'
  BY <1>3, <1>9 DEF QInv, CallsInv, StepOK, ReplyOK, dbVars, Ids, StartUpload
<1>11. call[c].token = NoToken
  BY DEF QInv, CallsInv, StepOK, StartUpload, At
<1>12. TokensInv'
  BY <1>2, <1>3, <1>5, <1>11
     DEF QInv, TokensInv, TokenOK, TokensDiffer, Discards, Owned, Ids, dbVars,
         FilesMatchRows, WaitingImportHasSource, NoLeakedUpload, StartUpload, NoToken
<1> QED
  BY <1>7, <1>8, <1>10, <1>12 DEF QInv

\* The lookup of the idempotency key finds the import that has it.
LEMMA CheckKeyInv ==
    ASSUME QInv, NEW c \in Client, CheckIdempotencyKey(c)
    PROVE  QInv'
<1>1. call[c].step = "key" /\ call[c] \in Call /\ StepOK(call[c])
  BY CallType DEF CheckIdempotencyKey, At
<1>2. /\ UNCHANGED <<dbVars, files, uploads>>
      /\ queueMu' \in Client \cup {Nobody} /\ conn' \in Client \cup {Nobody}
  BY DEF CheckIdempotencyKey, QInv, TypeInv, TypeOK
<1>3. CASE Become(c, [call[c] EXCEPT !.step = "save"])
  <2>1. PICK j : j = [call[c] EXCEPT !.step = "save"]
    OBVIOUS
  <2>2. /\ j \in Call /\ j.step = "save" /\ j.token = call[c].token /\ ~j.keepFile
        /\ StepOK(j) /\ j.reply = NoReply
    BY <1>1, <2>1 DEF Call, StepOK
  <2>3. ReplyOK(j)
    BY <2>2 DEF ReplyOK, NoReply
  <2> QED
    BY <1>1, <1>2, <1>3, <2>1, <2>2, <2>3, CallMoves
<1>4. ASSUME NEW i \in WithKey(call[c].key),
             Become(c, [call[c] EXCEPT !.step = "position", !.reuse = i,
                          !.snapStatus = imports[i].status])
      PROVE  QInv'
  <2>1. PICK j : j = [call[c] EXCEPT !.step = "position", !.reuse = i,
                        !.snapStatus = imports[i].status]
    OBVIOUS
  <2>2. i \in Ids /\ i \in Nat /\ imports[i] \in ImportRow /\ imports[i].key = call[c].key
    BY DEF WithKey, Ids, QInv, TypeInv, TypeOK
  <2>3. imports[i].status \in Active \cup Ended \cup {"none"}
    BY <2>2 DEF ImportRow
  <2>4. /\ j \in Call /\ j.step = "position" /\ j.token = call[c].token /\ ~j.keepFile
        /\ StepOK(j) /\ j.reply = NoReply /\ j.reuse = i /\ j.key = call[c].key
    BY <1>1, <2>1, <2>2, <2>3 DEF Call, StepOK
  <2>5. ReplyOK(j)
    BY <2>2, <2>4 DEF ReplyOK, NoReply
  <2> QED
    BY <1>1, <1>2, <1>4, <2>1, <2>4, <2>5, CallMoves
<1> QED
  BY <1>3, <1>4 DEF CheckIdempotencyKey

\* A saved upload has a token that no import and no other request has.
LEMMA SaveFileInv ==
    ASSUME QInv, NEW c \in Client, SaveFile(c)
    PROVE  QInv'
<1>1. call[c].step = "save" /\ call[c] \in Call /\ StepOK(call[c])
  BY CallType DEF SaveFile, At
<1>2. PICK j, n : j = [call[c] EXCEPT !.step = "preflight", !.token = n] /\ n = uploads + 1
  OBVIOUS
<1>3. n \in Nat \ {0} /\ uploads \in Nat /\ uploads' = n /\ files' = files \cup {n}
  BY <1>2 DEF QInv, TypeInv, TypeOK, SaveFile
<1>4. /\ j \in Call /\ j.step = "preflight" /\ j.token = n /\ ~j.keepFile
      /\ StepOK(j) /\ j.reply = NoReply
  BY <1>1, <1>2, <1>3 DEF Call, StepOK, NoToken
<1>5. /\ call' \in [Client -> Call]
      /\ call'[c] = j
      /\ \A d \in Client : d # c => call'[d] = call[d]
  BY <1>2, <1>4 DEF QInv, TypeInv, TypeOK, SaveFile, Become
<1>6. TypeInv'
  <2>1. Busy' = Busy /\ Unsaved' = Unsaved \ {c} /\ c \in Unsaved /\ Unsaved \in SUBSET Busy
    BY <1>1, <1>4, <1>5 DEF Busy, Unsaved
  <2>2. IsFiniteSet(Unsaved) /\ Cardinality(Unsaved) \in Nat /\ Cardinality(Unsaved') \in Nat
        /\ Cardinality(Unsaved') = Cardinality(Unsaved) - 1
    BY <2>1, FS_Subset, FS_RemoveElement, FS_CardinalityType DEF QInv, TypeInv
  <2>3. uploads' + Cardinality(Unsaved') <= MaxUploads /\ n <= MaxUploads
    BY <1>2, <1>3, <2>2 DEF QInv, TypeInv
  <2>4. files' \subseteq 1 .. n /\ files' \subseteq 1 .. MaxUploads
    BY <1>2, <1>3, <2>3 DEF QInv, TypeInv, TypeOK
  <2> QED
    BY <1>3, <1>5, <2>1, <2>3, <2>4 DEF QInv, TypeInv, TypeOK, dbVars, SaveFile
<1>7. RowsInv' /\ AnswersInv'
  BY DEF QInv, RowsInv, AnswersInv, KeysAreUnique, QueueIsBounded, StrictFIFO,
         OneImportPerWorkbook, dbVars, Ids, ActiveIds, SaveFile
<1>8. CallsInv'
  <2>1. ReplyOK(j)'
    BY <1>4 DEF ReplyOK, NoReply
  <2> QED
    BY <1>4, <1>5, <2>1 DEF QInv, CallsInv, StepOK, ReplyOK, dbVars, Ids, SaveFile
<1>9. TokensInv'
  <2>1. imports' = imports /\ Ids' = Ids /\ stranded' = stranded
    BY DEF SaveFile, dbVars, Ids
  <2>2. /\ \A d \in Client : call[d].token <= uploads /\ call[d].token \in Nat
        /\ \A i \in Ids : imports[i].token <= uploads /\ imports[i].token \in Nat
    <3>1. \A i \in Ids : imports[i] \in ImportRow
      BY DEF QInv, TypeInv, TypeOK, Ids
    <3>2. \A d \in Client : call[d].token <= uploads /\ call[d].token \in Nat
      BY CallType DEF TokenOK, Call
    <3> QED
      BY <3>1, <3>2 DEF QInv, TokensInv, ImportRow
  <2>3. ~Owned(n) /\ \A d \in Client : call[d].token # n
    BY <1>2, <1>3, <2>2 DEF Owned
  <2>4. \A t : Owned(t)' <=> Owned(t)
    BY <2>1 DEF Owned
  <2>5. ASSUME NEW d \in Client PROVE TokenOK(call[d])'
    <3>1. CASE d = c
      <4>1. call'[d] = j /\ j.token = uploads' /\ uploads' \in Nat /\ j.token \in files'
        BY <1>3, <1>4, <1>5, <3>1
      <4>2. \A i \in Ids' : imports'[i].token # j.token
        BY <1>4, <2>1, <2>3 DEF Owned
      <4> QED
        BY <1>4, <4>1, <4>2 DEF TokenOK, Discards, Owned
    <3>2. CASE d # c
      <4>1. TokenOK(call[d]) /\ call'[d] = call[d]
        BY <1>5, <3>2 DEF QInv, TokensInv
      <4>2. call'[d].token <= uploads'
        BY <1>2, <1>3, <2>2, <4>1
      <4> QED
        BY <1>3, <2>3, <2>4, <4>1, <4>2 DEF TokenOK, Discards
    <3> QED
      BY <3>1, <3>2
  <2>6. \A i \in Ids' : imports'[i].token <= uploads'
    BY <1>2, <1>3, <2>1, <2>2
  <2>7. TokensDiffer'
    <3>1. ASSUME NEW d \in Client, NEW e \in Client, Discards(call'[d]), Discards(call'[e]),
                 call'[d].token = call'[e].token
          PROVE  d = e
      <4>1. CASE d # c /\ e # c
        BY <1>5, <3>1, <4>1 DEF QInv, TokensInv, TokensDiffer
      <4>2. CASE d = c \/ e = c
        BY <1>4, <1>5, <2>3, <3>1, <4>2
      <4> QED
        BY <4>1, <4>2
    <3> QED
      BY <2>1, <3>1 DEF QInv, TokensInv, TokensDiffer, Discards
  <2>8. FilesMatchRows'
    <3>1. WaitingImportHasSource'
      BY <1>3, <2>1 DEF QInv, TokensInv, FilesMatchRows, WaitingImportHasSource
    <3>2. call[c].token = NoToken /\ NoToken \notin files
      BY <1>1 DEF StepOK, NoToken, QInv, TypeInv, TypeOK
    <3>3. NoLeakedUpload'
      BY <1>3, <1>4, <1>5, <2>1, <3>2 DEF QInv, TokensInv, FilesMatchRows, NoLeakedUpload
    <3> QED
      BY <3>1, <3>3 DEF FilesMatchRows
  <2> QED
    BY <2>5, <2>6, <2>7, <2>8 DEF TokensInv
<1> QED
  BY <1>6, <1>7, <1>8, <1>9 DEF QInv

\* Preflight passes the file on or leaves it to be discarded.
LEMMA PreflightInv ==
    ASSUME QInv, NEW c \in Client, Preflight(c)
    PROVE  QInv'
<1>1. call[c].step = "preflight" /\ call[c] \in Call /\ StepOK(call[c])
  BY CallType DEF Preflight, At
<1>2. /\ UNCHANGED <<dbVars, files, uploads>>
      /\ queueMu' \in Client \cup {Nobody} /\ conn' \in Client \cup {Nobody}
  BY DEF Preflight, QInv, TypeInv, TypeOK
<1>3. CASE Become(c, [call[c] EXCEPT !.step = "lock"])
  <2>1. PICK j : j = [call[c] EXCEPT !.step = "lock"]
    OBVIOUS
  <2>2. /\ j \in Call /\ j.step = "lock" /\ j.token = call[c].token /\ ~j.keepFile
        /\ StepOK(j) /\ j.reply = NoReply
    BY <1>1, <2>1 DEF Call, StepOK
  <2>3. ReplyOK(j)
    BY <2>2 DEF ReplyOK, NoReply
  <2> QED
    BY <1>1, <1>2, <1>3, <2>1, <2>2, <2>3, CallMoves
<1>4. CASE Become(c, [call[c] EXCEPT !.step = "cleanup", !.reply = Reply("rejected", 0, 0)])
  <2>1. PICK j, y : j = [call[c] EXCEPT !.step = "cleanup", !.reply = y]
                    /\ y = Reply("rejected", 0, 0)
    OBVIOUS
  <2>2. y \in [kind: ReplyKinds, id: Nat, position: Nat] /\ y.kind = "rejected"
    BY <2>1 DEF Reply, ReplyKinds
  <2>3. /\ j \in Call /\ j.step = "cleanup" /\ j.token = call[c].token /\ ~j.keepFile
        /\ StepOK(j) /\ j.reply = y
    BY <1>1, <2>1, <2>2 DEF Call, StepOK
  <2>4. ReplyOK(j)
    BY <2>2, <2>3 DEF ReplyOK
  <2> QED
    BY <1>1, <1>2, <1>4, <2>1, <2>3, <2>4, CallMoves
<1> QED
  BY <1>3, <1>4 DEF Preflight

\* Waiting for the mutex and the connection changes no row.
LEMMA LockQueueInv ==
    ASSUME QInv, NEW c \in Client, LockQueue(c) \/ BeginTx(c)
    PROVE  QInv'
<1>1. PICK to \in {"begin", "insert"} : Become(c, [call[c] EXCEPT !.step = to])
  BY DEF LockQueue, BeginTx
<1>2. call[c].step \in {"lock", "begin"} /\ call[c] \in Call /\ StepOK(call[c])
  BY CallType DEF LockQueue, BeginTx, At
<1>3. /\ UNCHANGED <<dbVars, files, uploads>>
      /\ queueMu' \in Client \cup {Nobody} /\ conn' \in Client \cup {Nobody}
  BY DEF LockQueue, BeginTx, QInv, TypeInv, TypeOK
<1>4. PICK j : j = [call[c] EXCEPT !.step = to]
  OBVIOUS
<1>5. /\ j \in Call /\ j.step = to /\ j.token = call[c].token /\ ~j.keepFile
      /\ StepOK(j) /\ j.reply = NoReply
  BY <1>2, <1>4 DEF Call, StepOK
<1>6. ReplyOK(j)
  BY <1>5 DEF ReplyOK, NoReply
<1> QED
  BY <1>1, <1>2, <1>3, <1>4, <1>5, <1>6, CallMoves

\* Of the imports of one workbook that have not failed there is one.
LEMMA NewestIsFound ==
    ASSUME QInv, NEW h, WithSha(h) # {}
    PROVE  Newest(WithSha(h)) \in WithSha(h)
<1>1. PICK i \in WithSha(h) : TRUE
  OBVIOUS
<1>2. i \in Nat
  BY DEF WithSha, Ids, QInv, TypeInv, TypeOK
<1>3. \A j \in WithSha(h) : j = i
  BY DEF QInv, RowsInv, OneImportPerWorkbook, WithSha
<1>4. \A j \in WithSha(h) : j <= i
  BY <1>2, <1>3
<1> QED
  BY <1>4 DEF Newest

\* A workbook or key that is known: the request answers with its import.
LEMMA ReuseInv ==
    ASSUME QInv, NEW c \in Client, InsertQueuedImport(c), ReuseInTx(c)
    PROVE  QInv'
<1>1. call[c].step = "insert" /\ call[c] \in Call /\ StepOK(call[c])
  BY CallType DEF InsertQueuedImport, At
<1>2. /\ UNCHANGED <<dbVars, files, uploads>>
      /\ queueMu' \in Client \cup {Nobody} /\ conn' \in Client \cup {Nobody}
  BY DEF InsertQueuedImport, ReuseInTx, dbVars, QInv, TypeInv, TypeOK
<1>3. PICK i \in WithKey(call[c].key) :
        Become(c, [call[c] EXCEPT !.step = "position", !.reuse = i,
                     !.snapStatus = imports[i].status])
  BY DEF ReuseInTx
<1>4. PICK j : j = [call[c] EXCEPT !.step = "position", !.reuse = i,
                      !.snapStatus = imports[i].status]
  OBVIOUS
<1>5. i \in Ids /\ i \in Nat /\ imports[i] \in ImportRow /\ imports[i].key = call[c].key
  BY DEF WithKey, Ids, QInv, TypeInv, TypeOK
<1>6. imports[i].status \in Active \cup Ended \cup {"none"}
  BY <1>5 DEF ImportRow
<1>7. /\ j \in Call /\ j.step = "position" /\ j.token = call[c].token /\ ~j.keepFile
      /\ StepOK(j) /\ j.reply = NoReply /\ j.reuse = i /\ j.key = call[c].key
  BY <1>1, <1>4, <1>5, <1>6 DEF Call, StepOK
<1>8. ReplyOK(j)
  BY <1>5, <1>7 DEF ReplyOK, NoReply
<1> QED
  BY <1>1, <1>2, <1>3, <1>4, <1>7, <1>8, CallMoves

\* An insert that is refused leaves the file to be discarded.
LEMMA RefuseInv ==
    ASSUME QInv, NEW c \in Client, InsertQueuedImport(c), RefuseInTx(c)
    PROVE  QInv'
<1>1. call[c].step = "insert" /\ call[c] \in Call /\ StepOK(call[c])
  BY CallType DEF InsertQueuedImport, At
<1>2. /\ UNCHANGED <<dbVars, files, uploads>>
      /\ queueMu' \in Client \cup {Nobody} /\ conn' \in Client \cup {Nobody}
  BY DEF InsertQueuedImport, RefuseInTx, dbVars, QInv, TypeInv, TypeOK
<1>3. ASSUME NEW y, y \in [kind: ReplyKinds, id: Nat, position: Nat],
             Become(c, [call[c] EXCEPT !.step = "cleanup", !.reply = y]),
             y.kind \in {"duplicate_file", "queue_full"},
             y.kind = "duplicate_file" =>
               /\ y.id \in Ids
               /\ call[c].key # NoKey => imports[y.id].key # call[c].key
      PROVE  QInv'
  <2>1. PICK j : j = [call[c] EXCEPT !.step = "cleanup", !.reply = y]
    OBVIOUS
  <2>2. /\ j \in Call /\ j.step = "cleanup" /\ j.token = call[c].token /\ ~j.keepFile
        /\ StepOK(j) /\ j.reply = y /\ j.key = call[c].key
    BY <1>1, <1>3, <2>1 DEF Call, StepOK
  <2>3. ReplyOK(j)
    BY <1>3, <2>2 DEF ReplyOK
  <2> QED
    BY <1>1, <1>2, <1>3, <2>1, <2>2, <2>3, CallMoves
<1>4. CASE /\ WithSha(call[c].sha) # {}
           /\ Become(c, [call[c] EXCEPT !.step = "cleanup",
                !.reply = Reply("duplicate_file", Newest(WithSha(call[c].sha)), 0)])
  <2>1. PICK n, y : n = Newest(WithSha(call[c].sha)) /\ y = Reply("duplicate_file", n, 0)
    OBVIOUS
  <2>2. n \in Ids /\ n \in Nat
    <3>1. n \in WithSha(call[c].sha)
      BY <1>4, <2>1, NewestIsFound
    <3> QED
      BY <3>1 DEF WithSha, Ids, QInv, TypeInv, TypeOK
  <2>3. call[c].key # NoKey => imports[n].key # call[c].key
    BY <2>2 DEF RefuseInTx, WithKey
  <2>4. /\ y \in [kind: ReplyKinds, id: Nat, position: Nat]
        /\ y.kind = "duplicate_file" /\ y.id = n
    BY <2>1, <2>2 DEF Reply, ReplyKinds
  <2>5. Become(c, [call[c] EXCEPT !.step = "cleanup", !.reply = y])
    BY <1>4, <2>1
  <2> QED
    BY <1>3, <2>2, <2>3, <2>4, <2>5
<1>5. CASE Become(c, [call[c] EXCEPT !.step = "cleanup", !.reply = Reply("queue_full", 0, 0)])
  <2>1. PICK y : y = Reply("queue_full", 0, 0)
    OBVIOUS
  <2>2. y \in [kind: ReplyKinds, id: Nat, position: Nat] /\ y.kind = "queue_full"
    BY <2>1 DEF Reply, ReplyKinds
  <2> QED
    BY <1>3, <1>5, <2>1, <2>2
<1> QED
  BY <1>4, <1>5 DEF RefuseInTx

\* The row of a new import, and how the request goes on.
LEMMA CreateInv ==
    ASSUME QInv, NEW c \in Client, InsertQueuedImport(c), CreateInTx(c)
    PROVE  QInv'
<1>1. call[c].step = "insert" /\ call[c] \in Call /\ StepOK(call[c]) /\ TokenOK(call[c])
  BY CallType DEF InsertQueuedImport, At
<1>2. PICK t : t = call[c].token
  OBVIOUS
<1>3. t \in Nat /\ t # NoToken /\ t \in files /\ ~Owned(t) /\ t <= uploads /\ Discards(call[c])
  BY <1>1, <1>2 DEF Call, StepOK, TokenOK, Discards
<1>4. PICK r : r = [key |-> call[c].key, sha |-> call[c].sha, status |-> "queued",
                    token |-> t, lease |-> "none", staged |-> FALSE]
  OBVIOUS
<1>5. /\ r \in ImportRow /\ r.key = call[c].key /\ r.sha = call[c].sha
      /\ r.status = "queued" /\ r.token = t
  BY <1>1, <1>3, <1>4 DEF ImportRow, Call, StepOK, Active
<1>6. PICK n : n = Len(imports) + 1
  OBVIOUS
<1>7. /\ imports' \in Seq(ImportRow)
      /\ Ids = 1 .. Len(imports) /\ Ids' = 1 .. n /\ n \in Nat /\ n \notin Ids
      /\ Ids' = Ids \cup {n}
      /\ imports'[n] = r
      /\ \A i \in Ids : imports'[i] = imports[i] /\ i < n
  <2>1. imports \in Seq(ImportRow) /\ imports' = Append(imports, r)
    BY <1>2, <1>4 DEF QInv, TypeInv, TypeOK, CreateInTx
  <2> QED
    BY <1>5, <1>6, <2>1 DEF Ids
<1>8. PICK p : p = Cardinality(ActiveIds) + 1
  OBVIOUS
<1>9. p \in 1 .. ActiveQueueLimit
  BY <1>8, ActiveFinite DEF CreateInTx, QueueFull, QInv, TypeInv, TypeOK
<1>10. PICK y : y = Reply("created", n, p)
  OBVIOUS
<1>11. /\ y \in [kind: ReplyKinds, id: Nat, position: Nat]
       /\ y.kind = "created" /\ y.id = n /\ y.position = p
  BY <1>7, <1>9, <1>10 DEF Reply, ReplyKinds
<1>12. PICK j : j = [call[c] EXCEPT !.step = "cleanup", !.keepFile = TRUE, !.reply = y]
  OBVIOUS
<1>13. /\ j \in Call /\ j.step = "cleanup" /\ j.token = t /\ j.keepFile /\ j.reply = y
       /\ j.key = call[c].key /\ StepOK(j)
  BY <1>1, <1>2, <1>11, <1>12 DEF Call, StepOK
<1>14. /\ call' \in [Client -> Call]
       /\ call'[c] = j
       /\ \A d \in Client : d # c => call'[d] = call[d]
  BY <1>6, <1>8, <1>10, <1>12, <1>13 DEF QInv, TypeInv, TypeOK, CreateInTx, Become
<1>15. /\ UNCHANGED <<files, uploads, answers, stranded, crashes>>
       /\ queueMu' = Nobody /\ conn' = Nobody
  BY DEF InsertQueuedImport, CreateInTx
<1>16. TypeInv'
  <2>1. Busy' = Busy /\ Unsaved' = Unsaved
    BY <1>1, <1>13, <1>14 DEF Busy, Unsaved
  <2> QED
    BY <1>7, <1>14, <1>15, <2>1 DEF QInv, TypeInv, TypeOK
<1>17. RowsInv'
  <2>1. QueueIsBounded'
    <3>1. ActiveIds' = ActiveIds \cup {n} /\ n \notin ActiveIds
      BY <1>5, <1>7 DEF ActiveIds, Active
    <3>2. IsFiniteSet(ActiveIds) /\ Cardinality(ActiveIds) \in Nat
      BY ActiveFinite DEF QInv, TypeInv, TypeOK
    <3>3. Cardinality(ActiveIds') = p
      BY <1>8, <3>1, <3>2, FS_AddElement
    <3> QED
      BY <1>9, <3>3 DEF QueueIsBounded
  <2>2. StrictFIFO'
    <3> SUFFICES ASSUME NEW k \in Ids', imports'[k].status # "queued",
                        NEW i \in 1 .. (k - 1)
                 PROVE  imports'[i].status \in Ended
      BY DEF StrictFIFO
    <3>1. k \in Ids /\ i \in Ids
      BY <1>5, <1>6, <1>7
    <3> QED
      BY <1>7, <3>1 DEF QInv, RowsInv, StrictFIFO
  <2>3. OneImportPerWorkbook'
    <3> SUFFICES ASSUME NEW i \in Ids', NEW k \in Ids',
                        imports'[i].status \in Active \cup Completed,
                        imports'[k].status \in Active \cup Completed,
                        imports'[i].sha = imports'[k].sha
                 PROVE  i = k
      BY DEF OneImportPerWorkbook
    <3>1. \A m \in Ids : ~(imports[m].sha = r.sha /\ imports[m].status \in Active \cup Completed)
      BY <1>5 DEF CreateInTx, WithSha
    <3>2. CASE i \in Ids /\ k \in Ids
      BY <1>7, <3>2 DEF QInv, RowsInv, OneImportPerWorkbook
    <3>3. CASE i = n \/ k = n
      BY <1>7, <3>1, <3>3
    <3> QED
      BY <1>7, <3>2, <3>3
  <2>4. KeysAreUnique'
    <3>1. \A m \in Ids : r.key # NoKey => imports[m].key # r.key
      BY <1>5 DEF CreateInTx, WithKey
    <3> QED
      BY <1>7, <3>1 DEF QInv, RowsInv, KeysAreUnique
  <2> QED
    BY <2>1, <2>2, <2>3, <2>4 DEF RowsInv
<1>18. CallsInv'
  <2>1. ReplyOK(call[c])'
    BY <1>5, <1>7, <1>9, <1>11, <1>13, <1>14 DEF ReplyOK
  <2>2. ASSUME NEW d \in Client, d # c PROVE StepOK(call[d])' /\ ReplyOK(call[d])'
    BY <1>7, <1>14, <2>2 DEF QInv, CallsInv, StepOK, ReplyOK
  <2>3. StepOK(call[c])'
    BY <1>13, <1>14 DEF StepOK
  <2> QED
    BY <2>1, <2>2, <2>3 DEF CallsInv
<1>19. AnswersInv'
  BY <1>7, <1>15 DEF QInv, AnswersInv
<1>20. TokensInv'
  <2>1. \A u : Owned(u)' <=> Owned(u) \/ u = t
    BY <1>5, <1>7 DEF Owned
  <2>2. ASSUME NEW d \in Client PROVE TokenOK(call[d])'
    <3>1. CASE d = c
      <4>1. call'[d] = j /\ j.token = t /\ j.keepFile /\ t <= uploads'
        BY <1>3, <1>13, <1>14, <1>15, <3>1
      <4>2. \E i \in Ids' : imports'[i].token = t
        BY <1>5, <1>7
      <4> QED
        BY <4>1, <4>2 DEF TokenOK, Discards, Owned
    <3>2. CASE d # c
      <4>1. TokenOK(call[d]) /\ call'[d] = call[d]
        BY <1>14, <3>2 DEF QInv, TokensInv
      <4>2. Discards(call[d]) => call[d].token # t
        BY <1>2, <1>3, <3>2 DEF QInv, TokensInv, TokensDiffer
      <4> QED
        BY <1>15, <2>1, <4>1, <4>2 DEF TokenOK, Discards
    <3> QED
      BY <3>1, <3>2
  <2>3. \A i \in Ids' : imports'[i].token <= uploads'
    BY <1>3, <1>5, <1>7, <1>15 DEF QInv, TokensInv
  <2>4. TokensDiffer'
    <3>1. ASSUME NEW d \in Client, NEW e \in Client, Discards(call'[d]), Discards(call'[e]),
                 call'[d].token = call'[e].token
          PROVE  d = e
      <4>1. d # c /\ e # c
        BY <1>13, <1>14, <3>1 DEF Discards
      <4> QED
        BY <1>14, <3>1, <4>1 DEF QInv, TokensInv, TokensDiffer
    <3>2. \A i, k \in Ids' :
            imports'[i].token = imports'[k].token /\ imports'[i].token # NoToken => i = k
      BY <1>3, <1>5, <1>7 DEF QInv, TokensInv, TokensDiffer, Owned
    <3> QED
      BY <3>1, <3>2 DEF TokensDiffer, Discards
  <2>5. FilesMatchRows'
    <3>1. WaitingImportHasSource'
      BY <1>3, <1>5, <1>7, <1>15 DEF QInv, TokensInv, FilesMatchRows, WaitingImportHasSource
    <3>2. \A d \in Client : call'[d].token = call[d].token
      BY <1>2, <1>13, <1>14
    <3>3. NoLeakedUpload'
      BY <1>7, <1>15, <3>2 DEF QInv, TokensInv, FilesMatchRows, NoLeakedUpload
    <3> QED
      BY <3>1, <3>3 DEF FilesMatchRows
  <2> QED
    BY <2>2, <2>3, <2>4, <2>5 DEF TokensInv
<1> QED
  BY <1>16, <1>17, <1>18, <1>19, <1>20 DEF QInv

\* The place of an import that was queued when it was read: when it has left the
\* queue since, nothing is ahead of it.
LEMMA PlaceInQueue ==
    ASSUME QInv, NEW i \in Ids
    PROVE  CountImportsAhead(i) + 1 \in 1 .. ActiveQueueLimit
<1>1. PICK ahead : ahead = {j \in ActiveIds : j < i}
  OBVIOUS
<1>2. /\ Ids = 1 .. Len(imports) /\ IsFiniteSet(ActiveIds) /\ Cardinality(ActiveIds) \in Nat
      /\ i \in Nat
  BY ActiveFinite DEF QInv, TypeInv, TypeOK, Ids
<1>3. ahead \in SUBSET ActiveIds
  BY <1>1
<1>4. IsFiniteSet(ahead) /\ Cardinality(ahead) \in Nat
  BY <1>2, <1>3, FS_Subset, FS_CardinalityType
<1>5. CASE i \in ActiveIds
  <2>1. ahead \cup {i} \in SUBSET ActiveIds /\ i \notin ahead
    BY <1>1, <1>2, <1>5
  <2>2. IsFiniteSet(ahead \cup {i}) /\ Cardinality(ahead \cup {i}) = Cardinality(ahead) + 1
    BY <1>4, <2>1, FS_AddElement
  <2>3. Cardinality(ahead \cup {i}) <= Cardinality(ActiveIds)
    BY <1>2, <2>1, FS_Subset
  <2> QED
    BY <1>1, <1>2, <1>4, <2>2, <2>3 DEF QInv, RowsInv, QueueIsBounded, CountImportsAhead
<1>6. CASE i \notin ActiveIds
  <2>1. imports[i].status # "queued"
    BY <1>6 DEF ActiveIds, Active
  <2>2. \A j \in 1 .. (i - 1) : imports[j].status \in Ended
    BY <2>1 DEF QInv, RowsInv, StrictFIFO
  <2>3. ahead = {}
    <3> SUFFICES ASSUME NEW j \in ahead PROVE FALSE
      OBVIOUS
    <3>1. j \in Ids /\ j < i /\ imports[j].status \in Active
      BY <1>1 DEF ActiveIds
    <3>2. j \in 1 .. (i - 1)
      BY <1>2, <3>1
    <3> QED
      BY <2>2, <3>1, <3>2 DEF Active, Ended
  <2>4. Cardinality(ahead) = 0
    BY <2>3, FS_EmptySet
  <2> QED
    BY <1>1, <2>4 DEF CountImportsAhead
<1> QED
  BY <1>5, <1>6

\* The position in the answer is a place in the queue.
LEMMA QueuePositionInv ==
    ASSUME QInv, NEW c \in Client, QueuePosition(c)
    PROVE  QInv'
<1>1. /\ call[c].step = "position" /\ call[c] \in Call /\ StepOK(call[c])
      /\ ReplyOK(call[c])
  BY CallType DEF QueuePosition, At
<1>2. /\ UNCHANGED <<dbVars, files, uploads>>
      /\ queueMu' \in Client \cup {Nobody} /\ conn' \in Client \cup {Nobody}
  BY DEF QueuePosition, QInv, TypeInv, TypeOK
<1>3. PICK i, p : /\ i = call[c].reuse
                  /\ p = IF call[c].snapStatus = "queued" THEN CountImportsAhead(i) + 1 ELSE 0
  OBVIOUS
<1>4. i \in Ids /\ i \in Nat /\ imports[i].key = call[c].key
  BY <1>1, <1>3 DEF ReplyOK, Ids, QInv, TypeInv, TypeOK
<1>5. p \in 0 .. ActiveQueueLimit
  BY <1>3, <1>4, PlaceInQueue
<1>6. PICK y : y = Reply("reused", i, p)
  OBVIOUS
<1>7. /\ y \in [kind: ReplyKinds, id: Nat, position: Nat]
      /\ y.kind = "reused" /\ y.id = i /\ y.position = p
  BY <1>4, <1>5, <1>6 DEF Reply, ReplyKinds
<1>8. PICK j : j = [call[c] EXCEPT !.step = "cleanup", !.reply = y]
  OBVIOUS
<1>9. /\ j \in Call /\ j.step = "cleanup" /\ j.token = call[c].token /\ ~j.keepFile
      /\ StepOK(j) /\ j.reply = y /\ j.key = call[c].key
  BY <1>1, <1>7, <1>8 DEF Call, StepOK
<1>10. ReplyOK(j)
  BY <1>4, <1>5, <1>7, <1>9 DEF ReplyOK
<1>11. Become(c, j)
  BY <1>3, <1>6, <1>8 DEF QueuePosition
<1> QED
  BY <1>1, <1>2, <1>9, <1>10, <1>11, CallMoves

\* An error at any step leaves a file only to be discarded.
LEMMA FailInv ==
    ASSUME QInv, NEW c \in Client, Fail(c)
    PROVE  QInv'
<1>1. /\ call[c].step \notin {"idle", "cleanup"} /\ call[c] \in Call /\ StepOK(call[c])
  BY CallType DEF Fail
<1>2. /\ UNCHANGED <<dbVars, files, uploads>>
      /\ queueMu' \in Client \cup {Nobody} /\ conn' \in Client \cup {Nobody}
  BY DEF Fail, QInv, TypeInv, TypeOK
<1>3. PICK j, y : j = [call[c] EXCEPT !.step = "cleanup", !.reply = y]
                  /\ y = Reply("error", 0, 0)
  OBVIOUS
<1>4. y \in [kind: ReplyKinds, id: Nat, position: Nat] /\ y.kind = "error"
  BY <1>3 DEF Reply, ReplyKinds
<1>5. /\ j \in Call /\ j.step = "cleanup" /\ j.token = call[c].token /\ ~j.keepFile
      /\ StepOK(j) /\ j.reply = y
  BY <1>1, <1>3, <1>4 DEF Call, StepOK
<1>6. ReplyOK(j)
  BY <1>4, <1>5 DEF ReplyOK
<1> QED
  BY <1>1, <1>2, <1>3, <1>5, <1>6, CallMoves DEF Fail

\* A failed Save leaves at most a file that is accounted for.
LEMMA SaveFailsInv ==
    ASSUME QInv, NEW c \in Client, SaveFails(c)
    PROVE  QInv'
<1>1. call[c].step = "save" /\ call[c] \in Call /\ StepOK(call[c])
  BY CallType DEF SaveFails, At
<1>2. PICK j, y, n : /\ j = [call[c] EXCEPT !.step = "cleanup", !.reply = y]
                     /\ y = Reply("error", 0, 0) /\ n = uploads + 1
  OBVIOUS
<1>3. /\ n \in Nat \ {0} /\ uploads \in Nat /\ uploads' = n
      /\ files' = files \cup {n} /\ stranded' = stranded \cup {n}
      /\ imports' = imports /\ Ids' = Ids /\ ActiveIds' = ActiveIds
      /\ UNCHANGED <<queueMu, conn, answers, crashes>>
  BY <1>2 DEF QInv, TypeInv, TypeOK, SaveFails, Ids, ActiveIds
<1>4. y \in [kind: ReplyKinds, id: Nat, position: Nat] /\ y.kind = "error"
  BY <1>2 DEF Reply, ReplyKinds
<1>5. /\ j \in Call /\ j.step = "cleanup" /\ j.token = call[c].token /\ ~j.keepFile
      /\ StepOK(j) /\ j.reply = y /\ j.token = NoToken
  BY <1>1, <1>2, <1>4 DEF Call, StepOK
<1>6. /\ call' \in [Client -> Call]
      /\ call'[c] = j
      /\ \A d \in Client : d # c => call'[d] = call[d]
  BY <1>2, <1>5 DEF QInv, TypeInv, TypeOK, SaveFails, Become
<1>7. TypeInv'
  <2>1. Busy' = Busy /\ Unsaved' = Unsaved \ {c} /\ c \in Unsaved /\ Unsaved \in SUBSET Busy
    BY <1>1, <1>5, <1>6 DEF Busy, Unsaved
  <2>2. IsFiniteSet(Unsaved) /\ Cardinality(Unsaved) \in Nat /\ Cardinality(Unsaved') \in Nat
        /\ Cardinality(Unsaved') = Cardinality(Unsaved) - 1
    BY <2>1, FS_Subset, FS_RemoveElement, FS_CardinalityType DEF QInv, TypeInv
  <2>3. uploads' + Cardinality(Unsaved') <= MaxUploads /\ n <= MaxUploads
    BY <1>2, <1>3, <2>2 DEF QInv, TypeInv
  <2>4. /\ files' \subseteq 1 .. n /\ files' \subseteq 1 .. MaxUploads
        /\ stranded' \subseteq 1 .. MaxUploads
    BY <1>2, <1>3, <2>3 DEF QInv, TypeInv, TypeOK
  <2> QED
    BY <1>3, <1>6, <2>1, <2>3, <2>4 DEF QInv, TypeInv, TypeOK
<1>8. RowsInv' /\ AnswersInv'
  BY <1>3 DEF QInv, RowsInv, AnswersInv, KeysAreUnique, QueueIsBounded, StrictFIFO,
         OneImportPerWorkbook
<1>9. CallsInv'
  <2>1. ReplyOK(j)'
    BY <1>4, <1>5 DEF ReplyOK
  <2> QED
    BY <1>3, <1>5, <1>6, <2>1 DEF QInv, CallsInv, StepOK, ReplyOK
<1>10. TokensInv'
  <2>1. \A i \in Ids : imports[i].token <= uploads' /\ imports[i].token # n
    <3>1. \A i \in Ids : imports[i] \in ImportRow
      BY DEF QInv, TypeInv, TypeOK, Ids
    <3>2. \A i \in Ids : imports[i].token <= uploads /\ imports[i].token \in Nat
      BY <3>1 DEF QInv, TokensInv, ImportRow
    <3> QED
      BY <1>2, <1>3, <3>2
  <2>2. \A d \in Client : call[d].token <= uploads' /\ call[d].token # n
    <3>1. \A d \in Client : call[d].token <= uploads /\ call[d].token \in Nat
      BY CallType DEF TokenOK, Call
    <3> QED
      BY <1>2, <1>3, <3>1
  <2>3. \A t : Owned(t)' <=> Owned(t)
    BY <1>3 DEF Owned
  <2>4. ASSUME NEW d \in Client PROVE TokenOK(call[d])'
    <3>1. CASE d = c
      BY <1>3, <1>5, <1>6, <3>1 DEF TokenOK, Discards, NoToken
    <3>2. CASE d # c
      <4>1. TokenOK(call[d]) /\ call'[d] = call[d]
        BY <1>6, <3>2 DEF QInv, TokensInv
      <4> QED
        BY <1>3, <2>2, <2>3, <4>1 DEF TokenOK, Discards
    <3> QED
      BY <3>1, <3>2
  <2>5. TokensDiffer'
    BY <1>3, <1>5, <1>6 DEF QInv, TokensInv, TokensDiffer, Discards
  <2>6. WaitingImportHasSource'
    BY <1>3 DEF QInv, TokensInv, FilesMatchRows, WaitingImportHasSource
  <2>7. call[c].token = NoToken /\ NoToken \notin files
    BY <1>1 DEF StepOK, NoToken, QInv, TypeInv, TypeOK
  <2>8. NoLeakedUpload'
    BY <1>3, <1>6, <2>7 DEF QInv, TokensInv, FilesMatchRows, NoLeakedUpload
  <2> QED
    BY <1>3, <2>1, <2>4, <2>5, <2>6, <2>8 DEF TokensInv, FilesMatchRows
<1> QED
  BY <1>7, <1>8, <1>9, <1>10 DEF QInv

\* A request that is not under way holds nothing.
LEMMA IdleType ==
    /\ IdleCall \in Call /\ IdleCall.step = "idle" /\ IdleCall.token = NoToken
    /\ ~IdleCall.keepFile /\ IdleCall.reply = NoReply
BY DEF IdleCall, Call, NoToken, NoReply, ReplyKinds, Active

\* The deferred clean-up discards the file unless the import keeps it, or it stays
\* and is accounted for.
LEMMA AnswerInv ==
    ASSUME QInv, NEW c \in Client, Answer(c)
    PROVE  QInv'
<1>1. /\ call[c].step = "cleanup" /\ call[c] \in Call /\ StepOK(call[c])
      /\ ReplyOK(call[c]) /\ TokenOK(call[c])
  BY CallType DEF Answer, At
<1>2. /\ call' \in [Client -> Call]
      /\ call'[c] = IdleCall
      /\ \A d \in Client : d # c => call'[d] = call[d]
  BY IdleType DEF QInv, TypeInv, TypeOK, Answer, Become
<1>3. /\ imports' = imports /\ Ids' = Ids /\ ActiveIds' = ActiveIds /\ uploads' = uploads
      /\ UNCHANGED <<queueMu, conn, crashes>>
  BY DEF Answer, Ids, ActiveIds
<1>4. PICK t : t = call[c].token
  OBVIOUS
<1>5. /\ files' = files \/ (files' = files \ {t} /\ ~call[c].keepFile)
      /\ call[c].keepFile => files' = files
      /\ stranded' = stranded \/ (stranded' = stranded \cup {t} /\ Discards(call[c]))
      /\ t \in files' => call[c].keepFile \/ t \in stranded' \/ t = NoToken
  BY <1>4 DEF Answer, DeleteUpload, Discards
<1>6. answers' \subseteq (Key \cup {NoKey}) \X Nat /\ AnswersInv'
  <2>1. PICK k, n : k = call[c].key /\ n = call[c].reply.id
    OBVIOUS
  <2>2. k \in Key \cup {NoKey} /\ n \in Nat
    BY <1>1, <2>1 DEF Call
  <2>3. CASE answers' = answers
    BY <1>3, <2>3 DEF QInv, TypeInv, TypeOK, AnswersInv
  <2>4. CASE call[c].reply.kind \in {"created", "reused"} /\ answers' = answers \cup {<<k, n>>}
    <3>1. n \in Ids /\ imports[n].key = k
      BY <1>1, <2>1, <2>4 DEF ReplyOK
    <3>2. answers' \subseteq (Key \cup {NoKey}) \X Nat
      BY <2>2, <2>4 DEF QInv, TypeInv, TypeOK
    <3> QED
      BY <1>3, <2>4, <3>1, <3>2 DEF QInv, AnswersInv
  <2> QED
    BY <2>1, <2>3, <2>4 DEF Answer
<1>7. TypeInv'
  <2>1. Busy' \in SUBSET Busy /\ Unsaved' = Unsaved
    BY <1>1, <1>2, IdleType DEF Busy, Unsaved
  <2>2. IsFiniteSet(Busy')
    BY <2>1, FS_Subset DEF QInv, TypeInv
  <2>3. stranded' \subseteq 1 .. MaxUploads
    BY <1>1, <1>4, <1>5 DEF TokenOK, QInv, TypeInv, TypeOK
  <2> QED
    BY <1>2, <1>3, <1>5, <1>6, <2>1, <2>2, <2>3 DEF QInv, TypeInv, TypeOK
<1>8. RowsInv'
  BY <1>3 DEF QInv, RowsInv, KeysAreUnique, QueueIsBounded, StrictFIFO, OneImportPerWorkbook
<1>9. CallsInv'
  BY <1>2, <1>3, IdleType DEF QInv, CallsInv, StepOK, ReplyOK, NoReply
<1>10. TokensInv'
  <2>1. \A u : Owned(u)' <=> Owned(u)
    BY <1>3 DEF Owned
  <2>2. ASSUME NEW d \in Client PROVE TokenOK(call[d])'
    <3>1. CASE d = c
      BY <1>2, <1>3, <3>1, IdleType DEF TokenOK, Discards, NoToken, QInv, TypeInv, TypeOK
    <3>2. CASE d # c
      <4>1. TokenOK(call[d]) /\ call'[d] = call[d]
        BY <1>2, <3>2 DEF QInv, TokensInv
      <4>2. Discards(call[d]) => call[d].token \in files'
        <5> SUFFICES ASSUME Discards(call[d]), files' = files \ {t}, ~call[c].keepFile,
                            call[d].token = t
                     PROVE  FALSE
          BY <1>5, <4>1 DEF TokenOK
        <5> QED
          BY <1>4, <3>2 DEF Discards, QInv, TokensInv, TokensDiffer
      <4> QED
        BY <1>3, <1>5, <2>1, <4>1, <4>2 DEF TokenOK, Discards
    <3> QED
      BY <3>1, <3>2
  <2>3. TokensDiffer' /\ \A i \in Ids' : imports'[i].token <= uploads'
    BY <1>2, <1>3, IdleType DEF QInv, TokensInv, TokensDiffer, Discards
  <2>4. WaitingImportHasSource'
    <3> SUFFICES ASSUME NEW i \in Ids, imports[i].status \in Active, ~imports[i].staged
                 PROVE  imports[i].token \in files'
      BY <1>3 DEF WaitingImportHasSource
    <3>1. imports[i].token \in files /\ Owned(imports[i].token)
      BY DEF QInv, TokensInv, FilesMatchRows, WaitingImportHasSource, Owned
    <3>2. NoToken \notin files
      BY DEF NoToken, QInv, TypeInv, TypeOK
    <3>3. CASE files' = files \ {t} /\ ~call[c].keepFile
      BY <1>1, <1>4, <3>1, <3>2, <3>3 DEF TokenOK, Discards
    <3> QED
      BY <1>5, <3>1, <3>3
  <2>5. NoLeakedUpload'
    <3> SUFFICES ASSUME NEW u \in files'
                 PROVE  \/ Owned(u) \/ (\E d \in Client : u = call'[d].token) \/ u \in stranded'
      BY <1>3 DEF NoLeakedUpload, Owned
    <3>1. u \in files /\ u # NoToken
      BY <1>5 DEF NoToken, QInv, TypeInv, TypeOK
    <3>2. \/ Owned(u) \/ (\E d \in Client : u = call[d].token) \/ u \in stranded
      BY <3>1 DEF QInv, TokensInv, FilesMatchRows, NoLeakedUpload, Owned
    <3>3. CASE u = t
      BY <1>1, <1>4, <1>5, <3>1, <3>3 DEF TokenOK
    <3> QED
      BY <1>2, <1>4, <1>5, <3>2, <3>3
  <2> QED
    BY <2>2, <2>3, <2>4, <2>5 DEF TokensInv, FilesMatchRows
<1> QED
  BY <1>6, <1>7, <1>8, <1>9, <1>10 DEF QInv

\* A crash strands only files that were still to be discarded.
LEMMA CrashInv ==
    ASSUME QInv, Crash
    PROVE  QInv'
<1>1. call' \in [Client -> Call] /\ \A c \in Client : call'[c] = IdleCall
  BY IdleType DEF Crash
<1>2. /\ imports' = imports /\ Ids' = Ids /\ ActiveIds' = ActiveIds /\ uploads' = uploads
      /\ files' = files /\ answers' = answers
  BY DEF Crash, Ids, ActiveIds
<1>3. \A u : u \in stranded' <=>
        \/ u \in stranded
        \/ \E c \in Client : Discards(call[c]) /\ u = call[c].token
  BY DEF Crash, Discards
<1>4. TypeInv'
  <2>1. Busy' = {} /\ Unsaved' = {}
    BY <1>1, IdleType DEF Busy, Unsaved
  <2>2. IsFiniteSet(Busy') /\ Cardinality(Unsaved') = 0
    BY <2>1, FS_EmptySet
  <2>3. stranded' \subseteq 1 .. MaxUploads
    <3>1. \A c \in Client : Discards(call[c]) => call[c].token \in files
      BY DEF QInv, TokensInv, TokenOK
    <3>2. files \subseteq 1 .. MaxUploads /\ stranded \subseteq 1 .. MaxUploads
      BY DEF QInv, TypeInv, TypeOK
    <3> QED
      BY <1>3, <3>1, <3>2
  <2>4. crashes' \in 0 .. MaxCrashes /\ queueMu' = Nobody /\ conn' = Nobody
    BY DEF Crash, QInv, TypeInv, TypeOK
  <2> QED
    BY <1>1, <1>2, <2>2, <2>3, <2>4 DEF QInv, TypeInv, TypeOK
<1>5. RowsInv' /\ AnswersInv'
  BY <1>2 DEF QInv, RowsInv, AnswersInv, KeysAreUnique, QueueIsBounded, StrictFIFO,
       OneImportPerWorkbook
<1>6. CallsInv'
  BY <1>1, IdleType DEF CallsInv, StepOK, ReplyOK, NoReply
<1>7. TokensInv'
  <2>1. \A c \in Client : TokenOK(call[c])'
    BY <1>1, <1>2, IdleType DEF TokenOK, Discards, NoToken, QInv, TypeInv, TypeOK
  <2>2. TokensDiffer' /\ \A i \in Ids' : imports'[i].token <= uploads'
    BY <1>1, <1>2, IdleType DEF QInv, TokensInv, TokensDiffer, Discards
  <2>3. WaitingImportHasSource'
    BY <1>2 DEF QInv, TokensInv, FilesMatchRows, WaitingImportHasSource
  <2>4. NoLeakedUpload'
    <3> SUFFICES ASSUME NEW u \in files
                 PROVE  Owned(u) \/ u \in stranded'
      BY <1>2 DEF NoLeakedUpload, Owned
    <3>1. \/ Owned(u) \/ (\E d \in Client : u = call[d].token) \/ u \in stranded
      BY DEF QInv, TokensInv, FilesMatchRows, NoLeakedUpload, Owned
    <3>2. ASSUME NEW d \in Client, u = call[d].token PROVE Owned(u) \/ u \in stranded'
      <4>1. u # NoToken
        BY DEF NoToken, QInv, TypeInv, TypeOK
      <4> QED
        BY <1>3, <3>2, <4>1 DEF QInv, TokensInv, TokenOK, Discards
    <3> QED
      BY <1>3, <3>1, <3>2
  <2> QED
    BY <2>1, <2>2, <2>3, <2>4 DEF TokensInv, FilesMatchRows
<1> QED
  BY <1>4, <1>5, <1>6, <1>7 DEF QInv

----------------------------------------------------------------------------
(* The worker side *)

\* The worker takes the head of the queue.
LEMMA ClaimInv ==
    ASSUME QInv, ClaimNextImport
    PROVE  QInv'
<1>1. PICK i : i = Oldest(Claimable)
  OBVIOUS
<1>2. Claimable \in SUBSET Nat /\ Claimable # {}
  BY DEF Claimable, Ids, QInv, TypeInv, TypeOK, ClaimNextImport
<1>3. \E m \in Claimable : \A n \in Claimable : m <= n
  BY <1>2, LeastElement
<1>4. i \in Claimable /\ \A j \in Claimable : i <= j
  BY <1>1, <1>3 DEF Oldest
<1>5. /\ i \in Ids /\ i \in Nat /\ imports[i] \in ImportRow
      /\ imports[i].status \in {"queued", "processing"}
      /\ Ids = 1 .. Len(imports) /\ Len(imports) \in Nat
  BY <1>4 DEF Claimable, Ids, QInv, TypeInv, TypeOK
<1>6. PICK r : r = [imports[i] EXCEPT !.status = "processing", !.lease = "live"]
  OBVIOUS
<1>7. /\ r \in ImportRow /\ r.key = imports[i].key /\ r.sha = imports[i].sha
      /\ r.token = imports[i].token /\ r.staged = imports[i].staged
  BY <1>5, <1>6 DEF ImportRow, Active
<1>8. ASSUME NEW j \in 1 .. (i - 1) PROVE imports[j].status \in Ended
  <2>1. j \in Ids /\ j \notin Claimable /\ imports[j] \in ImportRow
    BY <1>4, <1>5 DEF QInv, TypeInv, TypeOK, Ids
  <2>2. j \notin LiveIds
    BY DEF ClaimNextImport
  <2>3. imports[j].status \notin Active
    BY <2>1, <2>2 DEF Claimable, LiveIds, Active
  <2> QED
    BY <2>1, <2>3 DEF ImportRow, Active, Ended
<1>9. SetImport(i, r) /\ UNCHANGED files
  BY <1>1, <1>6 DEF ClaimNextImport
<1> QED
  BY <1>5, <1>7, <1>8, <1>9, RowMoves DEF Active

\* Only the oldest import that has not ended is worked on.
LEMMA LiveIsFirst ==
    ASSUME QInv, NEW i \in LiveIds
    PROVE  /\ i \in Ids /\ imports[i] \in ImportRow /\ imports[i].status \in Active
           /\ \A j \in 1 .. (i - 1) : imports[j].status \in Ended
BY DEF LiveIds, Active, Ids, QInv, TypeInv, TypeOK, RowsInv, StrictFIFO

\* Staging and the end of an import free no other import's file.
LEMMA WorkInv ==
    ASSUME QInv, NEW i \in Ids,
           LeaseExpires(i) \/ CompleteStaging(i) \/ ClearToken(i) \/ EndImport(i)
    PROVE  QInv'
<1>1. /\ i \in LiveIds /\ imports[i] \in ImportRow /\ imports[i].status \in Active
      /\ \A j \in 1 .. (i - 1) : imports[j].status \in Ended
      /\ UNCHANGED files
  BY LiveIsFirst DEF LeaseExpires, CompleteStaging, ClearToken, EndImport
<1>2. ASSUME NEW r \in ImportRow, SetImport(i, r),
             r.key = imports[i].key, r.sha = imports[i].sha,
             \/ r.token = imports[i].token
             \/ r.token = NoToken /\ r.staged /\ imports[i].token \notin files,
             imports[i].staged => r.staged
      PROVE  QInv'
  BY <1>1, <1>2, RowMoves
<1>3. CASE LeaseExpires(i)
  <2>1. PICK r : r = [imports[i] EXCEPT !.lease = "lapsed"]
    OBVIOUS
  <2>2. /\ r \in ImportRow /\ r.key = imports[i].key /\ r.sha = imports[i].sha
        /\ r.token = imports[i].token /\ r.staged = imports[i].staged
    BY <1>1, <2>1 DEF ImportRow
  <2> QED
    BY <1>2, <1>3, <2>1, <2>2 DEF LeaseExpires
<1>4. CASE CompleteStaging(i)
  <2>1. PICK r : r = [imports[i] EXCEPT !.staged = TRUE]
    OBVIOUS
  <2>2. /\ r \in ImportRow /\ r.key = imports[i].key /\ r.sha = imports[i].sha
        /\ r.token = imports[i].token /\ r.staged
    BY <1>1, <2>1 DEF ImportRow
  <2> QED
    BY <1>2, <1>4, <2>1, <2>2 DEF CompleteStaging
<1>5. CASE ClearToken(i)
  <2>1. PICK r : r = [imports[i] EXCEPT !.token = NoToken]
    OBVIOUS
  <2>2. /\ r \in ImportRow /\ r.key = imports[i].key /\ r.sha = imports[i].sha
        /\ r.token = NoToken /\ r.staged = imports[i].staged
    BY <1>1, <2>1 DEF ImportRow, NoToken
  <2>3. imports[i].staged /\ imports[i].token \notin files /\ SetImport(i, r)
    BY <1>5, <2>1 DEF ClearToken
  <2> QED
    BY <1>2, <2>2, <2>3
<1>6. CASE EndImport(i)
  <2>1. PICK s \in Ended : SetImport(i, [imports[i] EXCEPT !.status = s, !.lease = "none"])
    BY <1>6 DEF EndImport, Ended
  <2>2. PICK r : r = [imports[i] EXCEPT !.status = s, !.lease = "none"]
    OBVIOUS
  <2>3. /\ r \in ImportRow /\ r.key = imports[i].key /\ r.sha = imports[i].sha
        /\ r.token = imports[i].token /\ r.staged = imports[i].staged
    BY <1>1, <2>2 DEF ImportRow
  <2> QED
    BY <1>2, <2>1, <2>2, <2>3
<1> QED
  BY <1>3, <1>4, <1>5, <1>6

\* The file of a staged import goes; no other import and no request has it.
LEMMA DeleteSourceInv ==
    ASSUME QInv, NEW i \in Ids, DeleteSource(i)
    PROVE  QInv'
<1>1. PICK t : t = imports[i].token
  OBVIOUS
<1>2. /\ files' = files \ {t} /\ t \in files /\ imports[i].staged
      /\ imports' = imports /\ call' = call /\ Ids' = Ids /\ ActiveIds' = ActiveIds
      /\ UNCHANGED <<uploads, queueMu, conn, answers, stranded, crashes>>
  BY <1>1 DEF DeleteSource, dbVars, Ids, ActiveIds
<1>3. TypeInv'
  BY <1>2 DEF QInv, TypeInv, TypeOK, Busy, Unsaved
<1>4. RowsInv' /\ AnswersInv' /\ CallsInv'
  BY <1>2 DEF QInv, RowsInv, AnswersInv, KeysAreUnique, QueueIsBounded, StrictFIFO,
       OneImportPerWorkbook, CallsInv, StepOK, ReplyOK
<1>5. TokensInv'
  <2>1. Owned(t) /\ \A u : Owned(u)' <=> Owned(u)
    BY <1>1, <1>2 DEF Owned
  <2>2. \A c \in Client : TokenOK(call[c])'
    BY <1>2, <2>1 DEF QInv, TokensInv, TokenOK, Discards
  <2>3. TokensDiffer' /\ \A j \in Ids' : imports'[j].token <= uploads'
    BY <1>2 DEF QInv, TokensInv, TokensDiffer, Discards
  <2>4. WaitingImportHasSource'
    <3> SUFFICES ASSUME NEW j \in Ids, imports[j].status \in Active, ~imports[j].staged
                 PROVE  imports[j].token \in files'
      BY <1>2 DEF WaitingImportHasSource
    <3>1. imports[j].token \in files /\ t # NoToken
      BY <1>2 DEF QInv, TokensInv, FilesMatchRows, WaitingImportHasSource, NoToken,
           TypeInv, TypeOK
    <3>2. imports[j].token # t
      BY <1>1, <1>2, <3>1 DEF QInv, TokensInv, TokensDiffer
    <3> QED
      BY <1>2, <3>1, <3>2
  <2>5. NoLeakedUpload'
    BY <1>2 DEF QInv, TokensInv, FilesMatchRows, NoLeakedUpload
  <2> QED
    BY <2>2, <2>3, <2>4, <2>5 DEF TokensInv, FilesMatchRows
<1> QED
  BY <1>3, <1>4, <1>5 DEF QInv

----------------------------------------------------------------------------
(* Theorems *)

\* The invariant holds at the start.
LEMMA QueueStart == Init => QInv
<1> SUFFICES ASSUME Init PROVE QInv
  OBVIOUS
<1>1. Ids = {} /\ ActiveIds = {}
  BY DEF Init, Ids, ActiveIds
<1>2. \A c \in Client : call[c] = IdleCall
  BY DEF Init
<1>3. Busy = {} /\ Unsaved = {}
  BY <1>2, IdleType DEF Busy, Unsaved
<1>4. TypeInv
  BY <1>3, IdleType, FS_EmptySet DEF Init, TypeInv, TypeOK
<1>5. RowsInv
  BY <1>1, FS_EmptySet DEF RowsInv, KeysAreUnique, QueueIsBounded, StrictFIFO,
       OneImportPerWorkbook
<1>6. CallsInv /\ AnswersInv
  BY <1>2, IdleType DEF Init, CallsInv, StepOK, ReplyOK, NoReply, AnswersInv
<1>7. TokensInv
  BY <1>1, <1>2, IdleType DEF Init, TokensInv, TokenOK, TokensDiffer, Discards, NoToken,
       FilesMatchRows, WaitingImportHasSource, NoLeakedUpload
<1> QED
  BY <1>4, <1>5, <1>6, <1>7 DEF QInv

\* Every step keeps the invariant.
LEMMA QueueStep == QInv /\ [Next]_vars => QInv'
<1> SUFFICES ASSUME QInv, [Next]_vars PROVE QInv'
  OBVIOUS
<1>1. ASSUME NEW c \in Client, NEW k \in Key \cup {NoKey}, NEW h \in Sha, StartUpload(c, k, h)
      PROVE  QInv'
  BY <1>1, StartUploadInv
<1>2. ASSUME NEW c \in Client, CallStep(c) PROVE QInv'
  <2>1. CASE InsertQueuedImport(c)
    BY <2>1, ReuseInv, RefuseInv, CreateInv DEF InsertQueuedImport
  <2> QED
    BY <1>2, <2>1, CheckKeyInv, SaveFileInv, PreflightInv, LockQueueInv, QueuePositionInv,
       AnswerInv DEF CallStep
<1>3. ASSUME NEW c \in Client, SaveFails(c) \/ Fail(c) PROVE QInv'
  BY <1>3, SaveFailsInv, FailInv
<1>4. CASE Crash
  BY <1>4, CrashInv
<1>5. CASE ClaimNextImport
  BY <1>5, ClaimInv
<1>6. ASSUME NEW i \in Ids,
             \/ LeaseExpires(i) \/ CompleteStaging(i) \/ DeleteSource(i)
             \/ ClearToken(i) \/ EndImport(i)
      PROVE  QInv'
  BY <1>6, WorkInv, DeleteSourceInv
<1>7. CASE UNCHANGED vars
  BY <1>7 DEF vars, QInv, TypeInv, TypeOK, Busy, Unsaved, RowsInv, AnswersInv, KeysAreUnique,
       QueueIsBounded, StrictFIFO, OneImportPerWorkbook, CallsInv, StepOK, ReplyOK, TokensInv,
       TokenOK, TokensDiffer, Discards, Owned, FilesMatchRows, WaitingImportHasSource,
       NoLeakedUpload, Ids, ActiveIds
<1> QED
  BY <1>1, <1>2, <1>3, <1>4, <1>5, <1>6, <1>7 DEF Next

\* The inductive invariant of the upload queue (EnqueueLegacy, the file store, the
\* queries of the worker).
THEOREM QueueInvariance == Spec => []QInv
BY QueueStart, QueueStep, PTL DEF Spec

\* The queue is well typed and bounded, its imports are processed in the order of
\* their upload, and the place in an answer is one the queue has
\* (insertQueuedImport, ClaimNextImport, queuePosition).
THEOREM QueueSafety == Spec => []QueueIsOrderly
<1>1. QInv => QueueIsOrderly
  <2> SUFFICES ASSUME QInv PROVE PositionIsPossible
    BY DEF QInv, TypeInv, RowsInv, QueueIsOrderly
  <2> QED
    BY DEF QInv, CallsInv, ReplyOK, PositionIsPossible
<1> QED
  BY <1>1, QueueInvariance, PTL

\* A workbook has one import, a key has one import, and a repeated request is told
\* of it, whatever runs or crashes in between (insertQueuedImport, reuseResult).
THEOREM IdempotenceSafety == Spec => []UploadsAreIdempotent
<1>1. QInv => UploadsAreIdempotent
  <2> SUFFICES ASSUME QInv PROVE UploadsAreIdempotent
    OBVIOUS
  <2>1. AnswersAgree
    BY DEF QInv, RowsInv, KeysAreUnique, AnswersInv, AnswersAgree
  <2>2. RetryIsNotDuplicate
    BY DEF QInv, CallsInv, ReplyOK, RetryIsNotDuplicate
  <2> QED
    BY <2>1, <2>2 DEF QInv, RowsInv, UploadsAreIdempotent
<1> QED
  BY <1>1, QueueInvariance, PTL

\* The workbook of an import that waits is in the store, and a file in the store
\* has an import or a request, or was stranded by a crash or by a removal that
\* failed (EnqueueLegacy and its deferred Delete, Save and its deferred Remove).
THEOREM FilesSafety == Spec => []FilesMatchRows
<1>1. QInv => FilesMatchRows
  BY DEF QInv, TokensInv
<1> QED
  BY <1>1, QueueInvariance, PTL

============================================================================
