------------------------------ MODULE Workbook ------------------------------
(***************************************************************************)
(* The legacy workbook between its upload and the staged rows              *)
(* (backend/imports/legacy): Preflight validates the archive and discovers *)
(* one plan per sheet, the plans are encoded, stored and decoded, and      *)
(* Parse reads the file a second time with the decoded plans.  The two     *)
(* passes read the same file with different loops; what the first accepts  *)
(* the second must be able to read.                                        *)
(*                                                                         *)
(* A cell is a member of Cell; NormalizeLabel[c] is what normalizeLabel    *)
(* makes of it, a sequence of words.  The workbook is chosen row by row as *)
(* Preflight reads it and does not change afterwards (the upload is stored *)
(* under the digest of its content).  Left out: cancellation and the sink's*)
(* errors (module ImportStaging), failures of the XLSX library, the limit  *)
(* on the size of the file, and the fingerprint of a row.                  *)
(***************************************************************************)
EXTENDS Integers, Sequences, FiniteSets, Functions

CONSTANTS Cell, Blank,          \* cell values; the one that trims to nothing
          TooLong,              \* the cells longer than MaxCellBytes
          NormalizeLabel,       \* cell -> words of the normalised label
          SheetName, NoProfile, \* sheet names; the answer for an unknown one
          ProfileForSheet,      \* sheet name -> profile (trimmed, upper case)
          FieldForHeader,       \* profile -> the words it recognises -> field
          RequiredFields,       \* profile -> fields its header must have
          MaxSheets, MaxRows, MaxCells, MaxHeaderRows,        \* Limits
          MaxZIPEntries, MaxUncompressedBytes,                \* Limits
          ByteBits,             \* width of the archive's size counter
          SecretCell,           \* the cells that, as a header, name a secret
          SheetLists,           \* bound: the sheet lists a workbook may have
          MaxColumns,           \* bound: cells of a row
          MaxSheetRows          \* bound: rows of a sheet

ASSUME WorkbookAssumption ==
    /\ Blank \in Cell /\ TooLong \subseteq Cell \ {Blank}
    /\ SecretCell \subseteq Cell
    /\ SheetLists \subseteq Seq(SheetName)
    /\ DOMAIN NormalizeLabel = Cell /\ NormalizeLabel[Blank] = <<>>
    /\ {MaxSheets, MaxRows, MaxCells, MaxHeaderRows, MaxZIPEntries, MaxColumns,
        MaxSheetRows, MaxUncompressedBytes, ByteBits} \subseteq Nat
    /\ 2^ByteBits \in Nat /\ MaxUncompressedBytes < 2^ByteBits

(* There are finitely many profiles, and each has required fields          *)
(* (profileForSheet, commonRequiredFields).                                *)
ASSUME ProfileAssumption ==
    /\ DOMAIN ProfileForSheet = SheetName
    /\ IsFiniteSet({ProfileForSheet[n] : n \in SheetName})
    /\ \A n \in SheetName : ProfileForSheet[n] # NoProfile =>
            RequiredFields[ProfileForSheet[n]] # {}

VARIABLES phase,     \* how far the workbook has come
          archive,   \* validateArchive: [size: true size, total, parts, count]
          book,      \* the sheets: [name, rows]
          at,        \* the sheet being read
          count,     \* rows and cells seen by the pass that is reading
          draft,     \* the plan discovered for this sheet, or NoPlan
          plans,     \* WorkbookPlan.Sheets
          stored,    \* the encoded plans
          line,      \* Parse: the last row of the sheet that was read
          emitted    \* the rows given to the sink

vars == <<phase, archive, book, at, count, draft, plans, stored, line, emitted>>

Phases == {"archive", "opened", "preflight", "planned", "stored", "parsing",
           "done", "rejected", "failed"}

EntryKinds == {"types", "workbook", "plain", "forbidden"}
RequiredParts == {"types", "workbook"}
NoArchive == [size |-> 0, total |-> 0, parts |-> {}, count |-> 0]
NoCount == [rows |-> 0, cells |-> 0]
NoPlan == [order |-> 0]

-----------------------------------------------------------------------------
(* Labels and sheet plans (headers.go)                                     *)

(* The Russian words are transliterated.                                   *)
SecretWords == {"parol", "password", "passwd", "secret", "token"}
SecretPhrases == {<<"api", "key">>, <<"klyuch", "dostupa">>}

(* Mutant: only the word alone counts.                                     *)
SecretAlone(words) ==
    words \in SecretPhrases \/ \E w \in SecretWords : words = <<w>>

(* isSecretHeader: the whole label is a known phrase, or any word of it is *)
(* one of the secret words.                                                *)
IsSecretHeader(words) ==
    \/ words \in SecretPhrases
    \/ Range(words) \cap SecretWords # {}

(* The columns of a header row by what buildSheetPlan makes of them.       *)
Labelled(headers) ==
    {c \in DOMAIN headers : NormalizeLabel[headers[c]] # <<>>}

SecretColumns(headers) ==
    {c \in Labelled(headers) : IsSecretHeader(NormalizeLabel[headers[c]])}

FieldColumns(profile, headers) ==
    {c \in Labelled(headers) \ SecretColumns(headers) :
        NormalizeLabel[headers[c]] \in DOMAIN FieldForHeader[profile]}

HeaderField(profile, headers, c) ==
    FieldForHeader[profile][NormalizeLabel[headers[c]]]

(* The hard error of buildSheetPlan: two columns of the same field.        *)
DuplicateColumn(profile, headers) ==
    \E c, d \in FieldColumns(profile, headers) :
        c # d /\ HeaderField(profile, headers, c) = HeaderField(profile, headers, d)

(* The soft error of buildSheetPlan: this is not the header row yet.       *)
MissingColumns(profile, headers) ==
    \E f \in RequiredFields[profile] :
        \A c \in FieldColumns(profile, headers) :
            HeaderField(profile, headers, c) # f

BuildSheetPlan(profile, name, order, row, headers) ==
    LET fields == FieldColumns(profile, headers)
        secret == SecretColumns(headers)
    IN [name |-> name, order |-> order, profile |-> profile,
        headerRow |-> row,
        headerMap |-> [c \in fields |-> HeaderField(profile, headers, c)],
        extraNames |-> [c \in Labelled(headers) \ (fields \cup secret) |->
                            NormalizeLabel[headers[c]]],
        secretColumns |-> secret]

EmptyCells(columns) == \A c \in DOMAIN columns : columns[c] = Blank

AnyCellTooLong(columns) == \E c \in DOMAIN columns : columns[c] \in TooLong

(* firstUnclassifiedNonEmpty(plan, columns) >= 0                           *)
Unclassified(plan, columns) ==
    \E c \in DOMAIN columns :
        /\ columns[c] # Blank
        /\ c \notin DOMAIN plan.headerMap \cup DOMAIN plan.extraNames
                        \cup plan.secretColumns

-----------------------------------------------------------------------------
(* validateArchive: one entry of the ZIP directory after the other         *)

Init ==
    /\ phase = "archive"
    /\ archive = NoArchive
    /\ book = <<>> /\ at = 0
    /\ count = NoCount /\ draft = NoPlan /\ plans = <<>> /\ stored = <<>>
    /\ line = 0 /\ emitted = <<>>

Refuse ==
    /\ phase' = "rejected"
    /\ UNCHANGED <<archive, book, at, count, draft, plans, stored, line, emitted>>

(* The total after an entry of this size, a counter of ByteBits bits.      *)
AddSize(total, size) == (total + size) % 2^ByteBits

(* Mutant: the counter wraps unnoticed.                                    *)
SizeRefusedAfter(size) == AddSize(archive.total, size) > MaxUncompressedBytes

(* The entry cannot be added without overflow, or the total is too large.  *)
SizeRefused(size) ==
    \/ size > (2^ByteBits - 1) - archive.total
    \/ AddSize(archive.total, size) > MaxUncompressedBytes

(* An unsafe path, an encrypted entry, a symbolic link and a macro part    *)
(* are all "forbidden".  The code counts the entries before it looks at    *)
(* the first one; a file with too many is refused either way.              *)
ValidateEntry(kind, size) ==
    /\ phase = "archive"
    /\ IF archive.count = MaxZIPEntries \/ kind = "forbidden" \/ SizeRefused(size)
       THEN Refuse
       ELSE /\ archive' = [size  |-> archive.size + size,
                           total |-> AddSize(archive.total, size),
                           parts |-> archive.parts \cup ({kind} \cap RequiredParts),
                           count |-> archive.count + 1]
            /\ UNCHANGED <<phase, book, at, count, draft, plans, stored, line,
                           emitted>>

(* The end of the directory: the two workbook parts must have been there.  *)
EndOfArchive ==
    /\ phase = "archive"
    /\ IF RequiredParts \subseteq archive.parts
       THEN /\ phase' = "opened"
            /\ UNCHANGED <<archive, book, at, count, draft, plans, stored, line,
                           emitted>>
       ELSE Refuse

-----------------------------------------------------------------------------
(* Preflight: sheet after sheet, row after row                             *)

(* GetSheetList and the limit on the number of sheets.                     *)
OpenWorkbook(names) ==
    /\ phase = "opened"
    /\ IF Len(names) > MaxSheets
       THEN Refuse
       ELSE /\ phase' = "preflight"
            /\ archive' = NoArchive
            /\ book' = [i \in DOMAIN names |-> [name |-> names[i], rows |-> <<>>]]
            /\ at' = 1
            /\ UNCHANGED <<count, draft, plans, stored, line, emitted>>

Profile == ProfileForSheet[book[at].name]
Supported == Profile # NoProfile
SeenBefore == \E i \in 1..(at - 1) : ProfileForSheet[book[i].name] = Profile

(* The row is still a candidate for the header.                            *)
MayBeHeader(row) == draft = NoPlan /\ row <= MaxHeaderRows

(* The errors of the row loop, in the order of the code.                   *)
RowRefused(row, columns) ==
    \/ count.rows + 1 > MaxRows
    \/ count.cells + Len(columns) > MaxCells
    \/ AnyCellTooLong(columns)
    \/ /\ ~EmptyCells(columns) /\ Supported
       /\ IF MayBeHeader(row)
          THEN DuplicateColumn(Profile, columns)
          ELSE draft # NoPlan /\ Unclassified(draft, columns)

(* One turn of the row loop.  A supported sheet whose profile was seen     *)
(* before is refused before its first row.                                 *)
PreflightRow(columns) ==
    LET row == Len(book[at].rows) + 1
    IN /\ phase = "preflight" /\ at <= Len(book)
       /\ row <= MaxSheetRows
       /\ ~(Supported /\ SeenBefore)
       /\ IF RowRefused(row, columns)
          THEN Refuse
          ELSE /\ book' = [book EXCEPT ![at].rows = Append(@, columns)]
               /\ count' = [rows |-> count.rows + 1,
                            cells |-> count.cells + Len(columns)]
               /\ draft' =
                    IF /\ ~EmptyCells(columns) /\ Supported /\ MayBeHeader(row)
                       /\ ~MissingColumns(Profile, columns)
                    THEN BuildSheetPlan(Profile, book[at].name, at, row, columns)
                    ELSE draft
               /\ UNCHANGED <<phase, archive, at, plans, stored, line, emitted>>

HasAnyValue == \E r \in DOMAIN book[at].rows : ~EmptyCells(book[at].rows[r])

(* hasData: a row with a value below the header.                           *)
HasData == \E r \in DOMAIN book[at].rows :
                r > draft.headerRow /\ ~EmptyCells(book[at].rows[r])

(* The checks after a sheet's last row.                                    *)
SheetRefused ==
    IF Supported
    THEN SeenBefore \/ draft = NoPlan \/ ~HasData
    ELSE HasAnyValue

EndOfSheet ==
    /\ phase = "preflight" /\ at <= Len(book)
    /\ IF SheetRefused
       THEN Refuse
       ELSE /\ plans' = IF Supported THEN Append(plans, draft) ELSE plans
            /\ draft' = NoPlan
            /\ at' = at + 1
            /\ UNCHANGED <<phase, archive, book, count, stored, line, emitted>>

AllProfiles == Range(ProfileForSheet) \ {NoProfile}

EndOfWorkbook ==
    /\ phase = "preflight" /\ at > Len(book)
    /\ IF AllProfiles \subseteq {ProfileForSheet[book[i].name] : i \in DOMAIN book}
       THEN /\ phase' = "planned"
            /\ at' = 0 /\ count' = NoCount
            /\ UNCHANGED <<archive, book, draft, plans, stored, line, emitted>>
       ELSE Refuse

-----------------------------------------------------------------------------
(* plan_codec.go: what of a plan is stored, and how it is restored         *)

(* Mutant: the positions of secret columns are dropped with their headers. *)
EncodedWithoutSecrets(plan) ==
    [name |-> plan.name, order |-> plan.order, profile |-> plan.profile,
     headerRow |-> plan.headerRow, fields |-> plan.headerMap,
     extraFields |-> plan.extraNames, secretColumns |-> {}]

EncodedPlan(plan) ==
    [name |-> plan.name, order |-> plan.order, profile |-> plan.profile,
     headerRow |-> plan.headerRow, fields |-> plan.headerMap,
     extraFields |-> plan.extraNames, secretColumns |-> plan.secretColumns]

(* validateStoredSheetPlan, called by the encoder and by the decoder.      *)
ValidStoredPlan(s) ==
    LET fields == DOMAIN s.fields
        extras == DOMAIN s.extraFields
    IN /\ s.order > 0 /\ ProfileForSheet[s.name] = s.profile
       /\ s.profile # NoProfile
       /\ s.headerRow > 0 /\ fields # {}
       /\ \A c, d \in fields : s.fields[c] = s.fields[d] => c = d
       /\ \A c \in extras : /\ s.extraFields[c] # <<>>
                            /\ ~IsSecretHeader(s.extraFields[c])
       /\ fields \cap extras = {}
       /\ (fields \cup extras) \cap s.secretColumns = {}

DecodedPlan(s) ==
    [name |-> s.name, order |-> s.order, profile |-> s.profile,
     headerRow |-> s.headerRow, headerMap |-> s.fields,
     extraNames |-> s.extraFields, secretColumns |-> s.secretColumns]

(* Every plan is encoded and stored; the plans of the process are gone.    *)
EncodeSheetPlans ==
    LET encoded == [i \in DOMAIN plans |-> EncodedPlan(plans[i])]
    IN /\ phase = "planned"
       /\ phase' = IF \A i \in DOMAIN plans : ValidStoredPlan(encoded[i])
                   THEN "stored" ELSE "failed"
       /\ stored' = encoded
       /\ plans' = <<>>
       /\ UNCHANGED <<archive, book, at, count, draft, line, emitted>>

(* The plans are decoded for Parse, perhaps by another process.            *)
DecodeSheetPlans ==
    /\ phase = "stored"
    /\ phase' = IF \A i \in DOMAIN stored : ValidStoredPlan(stored[i])
                THEN "parsing" ELSE "failed"
    /\ plans' = [i \in DOMAIN stored |-> DecodedPlan(stored[i])]
    /\ at' = 1
    /\ UNCHANGED <<archive, book, count, draft, stored, line, emitted>>

-----------------------------------------------------------------------------
(* Parse: the second pass                                                  *)

(* extractSourceRow; a later extra column of the same name overwrites.     *)
ExtractSourceRow(plan, row, columns) ==
    LET fields == DOMAIN plan.headerMap \cap DOMAIN columns
        extras == {c \in DOMAIN plan.extraNames \cap DOMAIN columns :
                      /\ columns[c] # Blank
                      /\ ~IsSecretHeader(plan.extraNames[c])}
        LastOf(n) == CHOOSE c \in extras :
                        /\ plan.extraNames[c] = n
                        /\ \A d \in extras : plan.extraNames[d] = n => d <= c
    IN [sheet |-> plan.order, row |-> row,
        fields |-> [f \in {plan.headerMap[c] : c \in fields} |->
                      columns[CHOOSE c \in fields : plan.headerMap[c] = f]],
        extra |-> [n \in {plan.extraNames[c] : c \in extras} |->
                      columns[LastOf(n)]]]

SourceRowEmpty(source) ==
    /\ \A f \in DOMAIN source.fields : source.fields[f] = Blank
    /\ DOMAIN source.extra = {}

(* The errors of the parser's row loop.                                    *)
ParseRefused(plan, row, columns) ==
    \/ count.cells + Len(columns) > MaxCells
    \/ AnyCellTooLong(columns)
    \/ /\ row > plan.headerRow /\ ~EmptyCells(columns)
       /\ \/ Unclassified(plan, columns)
          \/ /\ ~SourceRowEmpty(ExtractSourceRow(plan, row, columns))
             /\ count.rows + 1 > MaxRows

(* Mutant: the header row is taken for data.                               *)
EmitsHeader(plan, row, columns) ==
    /\ row >= plan.headerRow /\ ~EmptyCells(columns)
    /\ ~SourceRowEmpty(ExtractSourceRow(plan, row, columns))

(* The row yields a source row for the sink.                               *)
Emits(plan, row, columns) ==
    /\ row > plan.headerRow /\ ~EmptyCells(columns)
    /\ ~SourceRowEmpty(ExtractSourceRow(plan, row, columns))

ParseRow ==
    /\ phase = "parsing" /\ at <= Len(plans)
    /\ line < Len(book[plans[at].order].rows)
    /\ LET plan == plans[at]
           columns == book[plan.order].rows[line + 1]
           emits == Emits(plan, line + 1, columns)
       IN /\ phase' = IF ParseRefused(plan, line + 1, columns)
                      THEN "failed" ELSE phase
          /\ line' = line + 1
          /\ count' = [rows  |-> count.rows + (IF emits THEN 1 ELSE 0),
                       cells |-> count.cells + Len(columns)]
          /\ emitted' = IF emits /\ ~ParseRefused(plan, line + 1, columns)
                        THEN Append(emitted, ExtractSourceRow(plan, line + 1, columns))
                        ELSE emitted
    /\ UNCHANGED <<archive, book, at, draft, plans, stored>>

ParseNextSheet ==
    /\ phase = "parsing" /\ at <= Len(plans)
    /\ line = Len(book[plans[at].order].rows)
    /\ at' = at + 1
    /\ line' = 0
    /\ UNCHANGED <<phase, archive, book, count, draft, plans, stored, emitted>>

ParseEnds ==
    /\ phase = "parsing" /\ at > Len(plans)
    /\ phase' = "done"
    /\ UNCHANGED <<archive, book, at, count, draft, plans, stored, line, emitted>>

-----------------------------------------------------------------------------

Rows == UNION {[1..n -> Cell] : n \in 0..MaxColumns}

Next ==
    \/ \E kind \in EntryKinds, size \in 0..(2^ByteBits - 1) :
            ValidateEntry(kind, size)
    \/ EndOfArchive
    \/ \E names \in SheetLists : OpenWorkbook(names)
    \/ \E columns \in Rows : PreflightRow(columns)
    \/ EndOfSheet
    \/ EndOfWorkbook
    \/ EncodeSheetPlans
    \/ DecodeSheetPlans
    \/ ParseRow
    \/ ParseNextSheet
    \/ ParseEnds

Spec == Init /\ [][Next]_vars

-----------------------------------------------------------------------------
(* Properties                                                              *)

(* The file's own answer: a sheet's header is its first row, within        *)
(* MaxHeaderRows, with every required column.                              *)
SheetProfileOf(s) == ProfileForSheet[book[s].name]

HeaderRows(s) ==
    {r \in DOMAIN book[s].rows :
        /\ r <= MaxHeaderRows
        /\ ~MissingColumns(SheetProfileOf(s), book[s].rows[r])}

HeaderRowOf(s) == CHOOSE r \in HeaderRows(s) : \A q \in HeaderRows(s) : r <= q

HeaderOf(s) == book[s].rows[HeaderRowOf(s)]

(* The values have their types and the counters of both passes stay within *)
(* the limits.                                                             *)
TypeOK ==
    /\ phase \in Phases
    /\ archive.total \in 0..MaxUncompressedBytes
    /\ archive.parts \subseteq RequiredParts
    /\ \A i \in DOMAIN book : book[i].name \in SheetName
                             /\ Range(book[i].rows) \subseteq Rows
    /\ at \in 0..(MaxSheets + 1) /\ line \in 0..MaxSheetRows
    /\ count.rows \in 0..MaxRows /\ count.cells \in 0..MaxCells
    /\ Len(plans) <= Cardinality(AllProfiles)
    /\ \A e \in Range(emitted) : e.sheet \in DOMAIN book

(* The sizes that the directory of an accepted archive declares are        *)
(* together at most MaxUncompressedBytes: the counter of validateArchive   *)
(* cannot wrap to a small total.                                           *)
ArchiveIsBounded ==
    phase = "opened" => archive.size <= MaxUncompressedBytes

(* What Preflight accepted, Parse reads: with the plans decoded from the   *)
(* database the second pass meets no limit, no column the plan does not    *)
(* know and no plan the codec refuses, though it counts other rows and     *)
(* cells than the first.                                                   *)
AcceptedIsParsed == phase # "failed"

(* The plans that come back from the database are those the file implies:  *)
(* the first header row of each sheet, its fields, its extra columns and   *)
(* the positions of its secret columns.                                    *)
PlansMatchTheFile ==
    phase \in {"parsing", "done"} =>
        /\ {plans[i].profile : i \in DOMAIN plans} = AllProfiles
        /\ \A i \in DOMAIN plans :
              LET s == plans[i].order
              IN plans[i] = BuildSheetPlan(SheetProfileOf(s), book[s].name, s,
                                           HeaderRowOf(s), HeaderOf(s))

(* The plans that Preflight stores are right and are all that Parse needs; *)
(* the counters of both passes keep their types (Preflight, Parse, the     *)
(* codec of the plans).                                                    *)
StoredPlansSuffice == TypeOK /\ PlansMatchTheFile /\ AcceptedIsParsed

(* No value from below a header that names a secret is handed to the sink: *)
(* everything in a source row stands in that row under another header.     *)
SecretsStayInTheFile ==
    \A e \in Range(emitted) :
        LET header == HeaderOf(e.sheet)
            cells == book[e.sheet].rows[e.row]
            From(words, value) ==
                \E c \in DOMAIN header \cap DOMAIN cells :
                    /\ header[c] \notin SecretCell
                    /\ NormalizeLabel[header[c]] = words
                    /\ cells[c] = value
        IN /\ \A n \in DOMAIN e.extra : From(n, e.extra[n])
           /\ \A f \in DOMAIN e.fields :
                \E w \in DOMAIN FieldForHeader[SheetProfileOf(e.sheet)] :
                    /\ FieldForHeader[SheetProfileOf(e.sheet)][w] = f
                    /\ From(w, e.fields[f])

(* A row below the header with a value outside the secret columns.         *)
CarriesData(s, r) ==
    /\ r > HeaderRowOf(s)
    /\ \E c \in DOMAIN book[s].rows[r] \cap DOMAIN HeaderOf(s) :
            /\ book[s].rows[r][c] # Blank
            /\ HeaderOf(s)[c] \notin SecretCell

(* The sink gets every data row once, in the order of the file: sheet by   *)
(* sheet and row by row, and never the header, a blank row or a row whose  *)
(* only values are secret.                                                 *)
RowsFollowTheFile ==
    /\ \A i, j \in DOMAIN emitted : i < j =>
            \/ emitted[i].sheet < emitted[j].sheet
            \/ emitted[i].sheet = emitted[j].sheet /\ emitted[i].row < emitted[j].row
    /\ phase = "done" =>
            {<<e.sheet, e.row>> : e \in Range(emitted)}
              = UNION {{<<s, r>> : r \in {q \in DOMAIN book[s].rows : CarriesData(s, q)}} :
                        s \in {t \in DOMAIN book : SheetProfileOf(t) # NoProfile}}
=============================================================================
