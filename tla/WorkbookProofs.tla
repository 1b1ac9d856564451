-------------------------- MODULE WorkbookProofs ---------------------------
(***************************************************************************)
(* Proofs about module Workbook, for any cells, labels, profiles, limits   *)
(* and workbooks: the counter of the archive check cannot wrap, the stored *)
(* plans are those of the file and suffice for the second pass, secret     *)
(* columns never reach the sink, and the sink gets the data rows in order. *)
(***************************************************************************)
EXTENDS Workbook, FiniteSetTheorems, SequenceTheorems, WellFoundedInduction, TLAPS

\* isSecretHeader recognises every cell that names a secret.
SecretsAreCaught == \A c \in SecretCell : IsSecretHeader(NormalizeLabel[c])

\* isSecretHeader recognises the cells that name a secret, and no others.
SecretsAreRecognised ==
    SecretCell = {c \in Cell : IsSecretHeader(NormalizeLabel[c])}

\* The rows and the cells of workbook b, by position.
RowsOf(b) == UNION {{<<s, r>> : r \in DOMAIN b[s].rows} : s \in DOMAIN b}

CellsOf(b) ==
    UNION {{<<x[1], x[2], c>> : c \in DOMAIN b[x[1]].rows[x[2]]} : x \in RowsOf(b)}

\* The profile of sheet s of workbook b, and the rows that may be its header.
ProfileIn(b, s) == ProfileForSheet[b[s].name]

HeadersIn(b, s) ==
    {r \in DOMAIN b[s].rows :
        r <= MaxHeaderRows /\ ~MissingColumns(ProfileIn(b, s), b[s].rows[r])}

\* Row r is the header of sheet s.
IsHeader(b, s, r) ==
    /\ r \in HeadersIn(b, s)
    /\ \A q \in HeadersIn(b, s) : r <= q
    /\ ~DuplicateColumn(ProfileIn(b, s), b[s].rows[r])

PlanAt(b, s, r) == BuildSheetPlan(ProfileIn(b, s), b[s].name, s, r, b[s].rows[r])

\* The plan is that of sheet s, and it knows every column with a value.
PlanFits(b, plan, s) ==
    /\ ProfileIn(b, s) # NoProfile
    /\ \E r \in DOMAIN b[s].rows :
         /\ IsHeader(b, s, r)
         /\ plan = PlanAt(b, s, r)
         /\ \A q \in DOMAIN b[s].rows :
              q > r /\ ~EmptyCells(b[s].rows[q]) => ~Unclassified(plan, b[s].rows[q])

\* The plans P are those of the supported sheets before sheet n, in their order.
PlansBefore(b, P, n) ==
    /\ \A i \in DOMAIN P : P[i].order \in 1 .. (n - 1) /\ PlanFits(b, P[i], P[i].order)
    /\ \A i, j \in DOMAIN P : i < j => P[i].order < P[j].order
    /\ \A s \in 1 .. (n - 1) : ProfileIn(b, s) # NoProfile =>
         \E i \in DOMAIN P : P[i].order = s
    /\ \A s, t \in 1 .. (n - 1) :
         ProfileIn(b, s) # NoProfile /\ ProfileIn(b, s) = ProfileIn(b, t) => s = t

\* The plans P are those of the whole workbook, with a sheet for every profile.
PlansComplete(b, P) ==
    /\ PlansBefore(b, P, Len(b) + 1)
    /\ AllProfiles \subseteq {ProfileIn(b, s) : s \in DOMAIN b}

\* Parse has read row r of sheet s when it is at row l of plan a.
Passed(P, a, l, s, r) ==
    \E i \in DOMAIN P : P[i].order = s /\ (i < a \/ (i = a /\ r <= l))

PassedRows(b, P, a, l) == {x \in RowsOf(b) : Passed(P, a, l, x[1], x[2])}
PassedCells(b, P, a, l) == {x \in CellsOf(b) : Passed(P, a, l, x[1], x[2])}

Source(e) == <<e.sheet, e.row>>
Precedes(x, y) == x[1] < y[1] \/ (x[1] = y[1] /\ x[2] < y[2])

\* Row x of workbook b yields a source row, by the plan of its sheet.
YieldsRow(b, P, x) ==
    \E i \in DOMAIN P : P[i].order = x[1] /\ Emits(P[i], x[2], b[x[1]].rows[x[2]])

\* e is the source row that the plan of its sheet makes of its row.
IsSourceRow(b, P, e) ==
    \E i \in DOMAIN P :
        /\ P[i].order = e.sheet
        /\ e = ExtractSourceRow(P[i], e.row, b[e.sheet].rows[e.row])
        /\ Emits(P[i], e.row, b[e.sheet].rows[e.row])

\* The sink E has got the source rows of the rows R, in the order of the file.
SinkHas(b, P, R, E) ==
    /\ \A k \in DOMAIN E : Source(E[k]) \in R /\ IsSourceRow(b, P, E[k])
    /\ \A j, k \in DOMAIN E : j < k => Precedes(Source(E[j]), Source(E[k]))
    /\ \A x \in R : YieldsRow(b, P, x) => \E k \in DOMAIN E : Source(E[k]) = x

-----------------------------------------------------------------------------
(* The inductive invariant *)

IsSequence(x) == \E S : x \in Seq(S)

Sheet == [name: SheetName, rows: Seq(Rows)]

ShapeInv ==
    /\ TypeOK
    /\ book \in Seq(Sheet) /\ Len(book) <= MaxSheets
    /\ \A s \in DOMAIN book : Len(book[s].rows) <= MaxSheetRows
    /\ count \in [rows: Nat, cells: Nat]
    /\ IsSequence(plans) /\ IsSequence(stored) /\ IsSequence(emitted)

\* The counter of the archive check is the true size.
ArchiveInv ==
    /\ archive.size = archive.total /\ archive.total \in 0 .. MaxUncompressedBytes

\* The whole workbook is within the limits.
LimitsInv ==
    /\ IsFiniteSet(RowsOf(book)) /\ Cardinality(RowsOf(book)) <= MaxRows
    /\ IsFiniteSet(CellsOf(book)) /\ Cardinality(CellsOf(book)) <= MaxCells
    /\ \A x \in RowsOf(book) : ~AnyCellTooLong(book[x[1]].rows[x[2]])

\* Before the first sheet.
UnopenedInv ==
    phase \in {"archive", "opened"} =>
        /\ book = <<>> /\ plans = <<>> /\ draft = NoPlan /\ count = NoCount

\* What Preflight knows of the sheet it is in.
DraftFits(b, a, d) ==
    IF ProfileIn(b, a) = NoProfile THEN d = NoPlan
    ELSE (d = NoPlan /\ HeadersIn(b, a) = {}) \/ (d # NoPlan /\ PlanFits(b, d, a))

\* What Preflight knows of the sheets it has read and of the ones to come.
PreflightInv ==
    phase = "preflight" =>
        /\ at \in 1 .. (Len(book) + 1)
        /\ count.rows = Cardinality(RowsOf(book))
        /\ count.cells = Cardinality(CellsOf(book))
        /\ PlansBefore(book, plans, at)
        /\ \A s \in DOMAIN book : s > at => book[s].rows = <<>>
        /\ IF at > Len(book) THEN draft = NoPlan ELSE DraftFits(book, at, draft)

\* The plans between the passes.
BetweenInv ==
    /\ phase \in {"planned", "stored"} => count = NoCount
    /\ phase = "planned" => PlansComplete(book, plans)
    /\ phase = "stored" =>
         /\ PlansComplete(book, [i \in DOMAIN stored |-> DecodedPlan(stored[i])])
         /\ \A i \in DOMAIN stored : ValidStoredPlan(stored[i])
    /\ phase \notin {"parsing", "done"} => line = 0 /\ emitted = <<>>

\* Where Parse is, and what it has counted.
ParseInv ==
    phase \in {"parsing", "done"} =>
        /\ PlansComplete(book, plans)
        /\ at \in 1 .. (Len(plans) + 1)
        /\ line \in Nat
        /\ at <= Len(plans) => line <= Len(book[plans[at].order].rows)
        /\ at > Len(plans) => line = 0
        /\ phase = "done" => at > Len(plans)
        /\ count.cells = Cardinality(PassedCells(book, plans, at, line))
        /\ count.rows <= Cardinality(PassedRows(book, plans, at, line))

\* The sink has got the data rows that Parse has read.
SinkInv ==
    phase \in {"parsing", "done"} =>
        SinkHas(book, plans, PassedRows(book, plans, at, line), emitted)

WInv ==
    /\ ShapeInv /\ ArchiveInv /\ LimitsInv /\ AcceptedIsParsed
    /\ UnopenedInv /\ PreflightInv /\ BetweenInv /\ ParseInv /\ SinkInv

-----------------------------------------------------------------------------
(* Sequences *)

\* A row is a sequence of cells.
LEMMA RowShape ==
    ASSUME NEW columns \in Rows
    PROVE  /\ columns \in Seq(Cell) /\ Len(columns) \in Nat
           /\ DOMAIN columns = 1 .. Len(columns)
           /\ \A c \in DOMAIN columns : columns[c] \in Cell
<1>1. PICK n \in 0 .. MaxColumns : columns \in [1 .. n -> Cell]
  BY DEF Rows
<1>2. n \in Nat
  BY WorkbookAssumption
<1>3. Seq(Cell) = UNION {[1 .. k -> Cell] : k \in Nat}
  BY SeqDef, Zenon
<1>4. [1 .. n -> Cell] \in {[1 .. k -> Cell] : k \in Nat}
  BY <1>2, Zenon
<1>5. columns \in Seq(Cell)
  BY <1>1, <1>3, <1>4, Zenon
<1>6. Len(columns) \in Nat /\ DOMAIN columns = 1 .. Len(columns)
  BY <1>5, LenProperties
<1>7. \A c \in DOMAIN columns : columns[c] \in Cell
  BY <1>1
<1> QED
  BY <1>5, <1>6, <1>7

\* A function on 1 .. n is a sequence.
LEMMA FunctionShape ==
    ASSUME NEW n \in Nat, NEW f, DOMAIN f = 1 .. n, f = [k \in 1 .. n |-> f[k]]
    PROVE  IsSequence(f) /\ Len(f) = n
<1>1. PICK S : S = {f[k] : k \in 1 .. n}
  OBVIOUS
<1>2. f \in [1 .. n -> S]
  BY <1>1
<1>3. Seq(S) = UNION {[1 .. k -> S] : k \in Nat}
  BY SeqDef, Zenon
<1>4. [1 .. n -> S] \in {[1 .. k -> S] : k \in Nat}
  BY Zenon
<1>5. f \in Seq(S)
  BY <1>2, <1>3, <1>4, Zenon
<1>6. Len(f) \in Nat /\ 1 .. Len(f) = 1 .. n
  BY <1>5, LenProperties
<1>7. Len(f) = n
  <2>1. PICK m \in Nat : m = Len(f)
    BY <1>6
  <2>2. \A k \in Nat : 1 <= k /\ k <= m <=> 1 <= k /\ k <= n
    BY <1>6, <2>1
  <2>3. m <= n
    BY <2>2
  <2>4. n <= m
    BY <2>2
  <2> QED
    BY <2>1, <2>3, <2>4
<1> QED
  BY <1>5, <1>7 DEF IsSequence

\* The domain of a sequence.
LEMMA SequenceShape ==
    ASSUME NEW x, IsSequence(x)
    PROVE  Len(x) \in Nat /\ DOMAIN x = 1 .. Len(x)
<1>1. PICK S : x \in Seq(S)
  BY DEF IsSequence
<1> QED
  BY <1>1, LenProperties

\* What Append does.
LEMMA AppendShape ==
    ASSUME NEW x, NEW e, IsSequence(x)
    PROVE  /\ IsSequence(Append(x, e)) /\ Len(Append(x, e)) = Len(x) + 1
           /\ Len(x) \in Nat /\ DOMAIN x = 1 .. Len(x)
           /\ DOMAIN Append(x, e) = 1 .. (Len(x) + 1)
           /\ Append(x, e)[Len(x) + 1] = e
           /\ \A i \in DOMAIN x : Append(x, e)[i] = x[i]
<1>1. PICK S : x \in Seq(S)
  BY DEF IsSequence
<1>2. PICK T : T = S \cup {e}
  OBVIOUS
<1>3. x \in Seq(T) /\ e \in T
  BY <1>1, <1>2, SeqMonotonic
<1>4. Append(x, e) \in Seq(T) /\ Len(Append(x, e)) = Len(x) + 1
  BY <1>3, AppendProperties
<1>5. Len(x) \in Nat /\ DOMAIN x = 1 .. Len(x)
  BY <1>3, LenProperties
<1>6. DOMAIN Append(x, e) = 1 .. (Len(x) + 1)
  BY <1>4, LenProperties
<1>7. Append(x, e)[Len(x) + 1] = e /\ \A i \in 1 .. Len(x) : Append(x, e)[i] = x[i]
  BY <1>3, AppendProperties
<1> QED
  BY <1>4, <1>5, <1>6, <1>7 DEF IsSequence

\* The empty sequence.
LEMMA EmptyShape == IsSequence(<< >>) /\ Len(<< >>) = 0 /\ DOMAIN << >> = {}
<1>1. << >> \in Seq({}) /\ Len(<< >>) = 0
  BY EmptySeq
<1> QED
  BY <1>1, LenProperties DEF IsSequence

\* A set of naturals that is not empty has a least element.
LEMMA LeastElement ==
    ASSUME NEW S \in SUBSET Nat, S # {}
    PROVE  \E m \in S : \A n \in S : m <= n
<1>1. PICK R : R = {ss \in Nat \X Nat : ss[1] < ss[2]}
  OBVIOUS
<1>2. IsWellFoundedOn(R, Nat)
  BY <1>1, NatLessThanWellFounded DEF OpToRel
<1>3. PICK m \in S : \A n \in S : ~(<<n, m>> \in R)
  BY <1>2, WFMin, Zenon
<1>4. \A n \in S : ~(n < m)
  BY <1>1, <1>3
<1> QED
  BY <1>4

\* A set of columns that is not empty has a last one.
LEMMA LastElement ==
    ASSUME NEW n \in Nat, NEW S \in SUBSET (1 .. n), S # {}
    PROVE  \E m \in S : \A k \in S : k <= m
<1>1. PICK T : T = {b \in Nat : \A k \in S : k <= b}
  OBVIOUS
<1>2. T \in SUBSET Nat /\ n \in T
  BY <1>1
<1>3. PICK b \in T : \A d \in T : b <= d
  BY <1>2, LeastElement
<1>4. b \in Nat /\ \A k \in S : k <= b /\ k \in Nat /\ k >= 1
  BY <1>1, <1>3
<1>5. SUFFICES ASSUME b \notin S PROVE FALSE
  BY <1>4
<1>6. b - 1 \in Nat /\ \A k \in S : k <= b - 1
  <2>1. PICK j : j \in S
    OBVIOUS
  <2>2. b >= 1
    BY <1>4, <2>1
  <2>3. \A k \in S : k # b
    BY <1>5
  <2> QED
    BY <1>4, <2>2, <2>3
<1>7. b - 1 \in T
  BY <1>1, <1>6
<1> QED
  BY <1>3, <1>4, <1>7

-----------------------------------------------------------------------------
(* Plans *)

\* A blank row is no header row.
LEMMA EmptyMisses ==
    ASSUME NEW profile, RequiredFields[profile] # {}, NEW columns, EmptyCells(columns)
    PROVE  MissingColumns(profile, columns)
<1>1. Labelled(columns) = {}
  BY WorkbookAssumption DEF Labelled, EmptyCells
<1>2. FieldColumns(profile, columns) = {}
  BY <1>1 DEF FieldColumns
<1> QED
  BY <1>2 DEF MissingColumns

\* The parts of a plan.
LEMMA PlanParts ==
    ASSUME NEW profile, NEW name, NEW order, NEW row, NEW headers,
           NEW plan, plan = BuildSheetPlan(profile, name, order, row, headers)
    PROVE  /\ plan.name = name /\ plan.order = order /\ plan.profile = profile
           /\ plan.headerRow = row /\ plan.secretColumns = SecretColumns(headers)
           /\ DOMAIN plan.headerMap = FieldColumns(profile, headers)
           /\ \A c \in DOMAIN plan.headerMap :
                plan.headerMap[c] = HeaderField(profile, headers, c)
           /\ DOMAIN plan.extraNames =
                Labelled(headers) \ (FieldColumns(profile, headers) \cup SecretColumns(headers))
           /\ \A c \in DOMAIN plan.extraNames :
                plan.extraNames[c] = NormalizeLabel[headers[c]]
BY DEF BuildSheetPlan

\* A plan survives the codec.
LEMMA CodecIsFaithful ==
    ASSUME NEW profile, NEW name, NEW order, NEW row, NEW headers,
           NEW plan, plan = BuildSheetPlan(profile, name, order, row, headers)
    PROVE  DecodedPlan(EncodedPlan(plan)) = plan
BY DEF DecodedPlan, EncodedPlan, BuildSheetPlan

\* The codec refuses no plan of a header row.
LEMMA BuiltPlanIsValid ==
    ASSUME NEW profile, NEW name, NEW order \in Nat, order > 0, NEW row \in Nat, row > 0,
           NEW headers, profile = ProfileForSheet[name], profile # NoProfile,
           RequiredFields[profile] # {},
           ~DuplicateColumn(profile, headers), ~MissingColumns(profile, headers),
           NEW plan, plan = BuildSheetPlan(profile, name, order, row, headers)
    PROVE  ValidStoredPlan(EncodedPlan(plan))
<1>1. PICK e : e = EncodedPlan(plan)
  OBVIOUS
<1>2. /\ e.name = name /\ e.order = order /\ e.profile = profile /\ e.headerRow = row
      /\ e.fields = plan.headerMap /\ e.extraFields = plan.extraNames
      /\ e.secretColumns = SecretColumns(headers)
  BY <1>1, PlanParts DEF EncodedPlan
<1>3. /\ DOMAIN e.fields = FieldColumns(profile, headers)
      /\ \A c \in DOMAIN e.fields : e.fields[c] = HeaderField(profile, headers, c)
      /\ DOMAIN e.extraFields =
            Labelled(headers) \ (FieldColumns(profile, headers) \cup SecretColumns(headers))
      /\ \A c \in DOMAIN e.extraFields : e.extraFields[c] = NormalizeLabel[headers[c]]
  BY <1>2, PlanParts
<1>4. DOMAIN e.fields # {}
  BY <1>3 DEF MissingColumns
<1>5. \A c, d \in DOMAIN e.fields : e.fields[c] = e.fields[d] => c = d
  BY <1>3 DEF DuplicateColumn
<1>6. \A c \in DOMAIN e.extraFields : e.extraFields[c] # <<>> /\ ~IsSecretHeader(e.extraFields[c])
  BY <1>3 DEF Labelled, SecretColumns
<1>7. DOMAIN e.fields \cap DOMAIN e.extraFields = {}
  BY <1>3
<1>8. (DOMAIN e.fields \cup DOMAIN e.extraFields) \cap e.secretColumns = {}
  BY <1>2, <1>3 DEF FieldColumns
<1>9. ValidStoredPlan(e)
  BY <1>2, <1>4, <1>5, <1>6, <1>7, <1>8 DEF ValidStoredPlan
<1> QED
  BY <1>1, <1>9

-----------------------------------------------------------------------------
(* Source rows *)

\* The extra columns of a row that extractSourceRow takes.
ExtraColumns(plan, columns) ==
    {c \in DOMAIN plan.extraNames \cap DOMAIN columns :
        columns[c] # Blank /\ ~IsSecretHeader(plan.extraNames[c])}

\* Every value of a source row is that of a column of its field or name.
LEMMA SourceParts ==
    ASSUME NEW plan, NEW row, NEW columns \in Rows,
           NEW e, e = ExtractSourceRow(plan, row, columns)
    PROVE  /\ e.sheet = plan.order /\ e.row = row
           /\ DOMAIN e.fields = {plan.headerMap[c] : c \in DOMAIN plan.headerMap \cap DOMAIN columns}
           /\ \A f \in DOMAIN e.fields : \E c \in DOMAIN plan.headerMap \cap DOMAIN columns :
                plan.headerMap[c] = f /\ e.fields[f] = columns[c]
           /\ DOMAIN e.extra = {plan.extraNames[c] : c \in ExtraColumns(plan, columns)}
           /\ \A n \in DOMAIN e.extra : \E c \in ExtraColumns(plan, columns) :
                plan.extraNames[c] = n /\ e.extra[n] = columns[c]
<1>1. PICK X : X = ExtraColumns(plan, columns)
  OBVIOUS
<1>2. PICK F : F = DOMAIN plan.headerMap \cap DOMAIN columns
  OBVIOUS
<1>3. /\ e.sheet = plan.order /\ e.row = row
      /\ e.fields = [f \in {plan.headerMap[c] : c \in F} |->
                       columns[CHOOSE c \in F : plan.headerMap[c] = f]]
      /\ e.extra = [n \in {plan.extraNames[c] : c \in X} |->
                      columns[CHOOSE c \in X : /\ plan.extraNames[c] = n
                                               /\ \A d \in X : plan.extraNames[d] = n => d <= c]]
  BY <1>1, <1>2 DEF ExtractSourceRow, ExtraColumns
<1>4. ASSUME NEW f \in DOMAIN e.fields
      PROVE  \E c \in F : plan.headerMap[c] = f /\ e.fields[f] = columns[c]
  <2>1. \E c \in F : plan.headerMap[c] = f
    BY <1>3
  <2> QED
    BY <1>3, <2>1
<1>5. ASSUME NEW n \in DOMAIN e.extra
      PROVE  \E c \in X : plan.extraNames[c] = n /\ e.extra[n] = columns[c]
  <2>1. PICK S : S = {c \in X : plan.extraNames[c] = n}
    OBVIOUS
  <2>2. S # {}
    BY <1>3, <2>1
  <2>3. Len(columns) \in Nat /\ S \in SUBSET (1 .. Len(columns))
    BY <1>1, <2>1, RowShape DEF ExtraColumns
  <2>4. PICK m \in S : \A k \in S : k <= m
    BY <2>2, <2>3, LastElement
  <2>5. \E c \in X : plan.extraNames[c] = n /\ \A d \in X : plan.extraNames[d] = n => d <= c
    BY <2>1, <2>4
  <2>6. e.extra[n] = columns[CHOOSE c \in X : /\ plan.extraNames[c] = n
                                              /\ \A d \in X : plan.extraNames[d] = n => d <= c]
    BY <1>3
  <2> QED
    BY <2>5, <2>6
<1> QED
  BY <1>1, <1>2, <1>3, <1>4, <1>5

\* Under SecretsAreRecognised a cell of a header row names a secret exactly when
\* isSecretHeader says so.
LEMMA SecretHeaders ==
    ASSUME SecretsAreRecognised, NEW headers \in Rows, NEW c \in DOMAIN headers
    PROVE  headers[c] \in SecretCell <=> IsSecretHeader(NormalizeLabel[headers[c]])
BY RowShape DEF SecretsAreRecognised

\* What is recognised is caught.
LEMMA RecognisedIsCaught == SecretsAreRecognised => SecretsAreCaught
BY DEF SecretsAreRecognised, SecretsAreCaught

\* The values of a source row stand under headers that name no secret.
LEMMA SourceHasNoSecrets ==
    ASSUME SecretsAreCaught, NEW profile, NEW name, NEW order, NEW top,
           NEW headers \in Rows, NEW row, NEW cells \in Rows,
           NEW plan, plan = BuildSheetPlan(profile, name, order, top, headers),
           NEW e, e = ExtractSourceRow(plan, row, cells)
    PROVE  /\ \A n \in DOMAIN e.extra : \E c \in DOMAIN headers \cap DOMAIN cells :
                /\ headers[c] \notin SecretCell
                /\ NormalizeLabel[headers[c]] = n
                /\ cells[c] = e.extra[n]
           /\ \A f \in DOMAIN e.fields : \E w \in DOMAIN FieldForHeader[profile] :
                /\ FieldForHeader[profile][w] = f
                /\ \E c \in DOMAIN headers \cap DOMAIN cells :
                     /\ headers[c] \notin SecretCell
                     /\ NormalizeLabel[headers[c]] = w
                     /\ cells[c] = e.fields[f]
<1>1. ASSUME NEW n \in DOMAIN e.extra
      PROVE  \E c \in DOMAIN headers \cap DOMAIN cells :
                /\ headers[c] \notin SecretCell
                /\ NormalizeLabel[headers[c]] = n
                /\ cells[c] = e.extra[n]
  <2>1. PICK c \in ExtraColumns(plan, cells) : plan.extraNames[c] = n /\ e.extra[n] = cells[c]
    BY SourceParts
  <2>2. /\ c \in DOMAIN plan.extraNames /\ c \in DOMAIN cells
        /\ ~IsSecretHeader(plan.extraNames[c])
    BY <2>1 DEF ExtraColumns
  <2>3. c \in Labelled(headers) /\ plan.extraNames[c] = NormalizeLabel[headers[c]]
    BY <2>2, PlanParts
  <2>4. c \in DOMAIN headers
    BY <2>3 DEF Labelled
  <2> QED
    BY <2>1, <2>2, <2>3, <2>4 DEF SecretsAreCaught
<1>2. ASSUME NEW f \in DOMAIN e.fields
      PROVE  \E w \in DOMAIN FieldForHeader[profile] :
                /\ FieldForHeader[profile][w] = f
                /\ \E c \in DOMAIN headers \cap DOMAIN cells :
                     /\ headers[c] \notin SecretCell
                     /\ NormalizeLabel[headers[c]] = w
                     /\ cells[c] = e.fields[f]
  <2>1. PICK c \in DOMAIN plan.headerMap \cap DOMAIN cells :
              plan.headerMap[c] = f /\ e.fields[f] = cells[c]
    BY SourceParts
  <2>2. c \in FieldColumns(profile, headers) /\ f = HeaderField(profile, headers, c)
    BY <2>1, PlanParts
  <2>3. /\ c \in DOMAIN headers /\ ~IsSecretHeader(NormalizeLabel[headers[c]])
        /\ NormalizeLabel[headers[c]] \in DOMAIN FieldForHeader[profile]
        /\ f = FieldForHeader[profile][NormalizeLabel[headers[c]]]
    BY <2>2 DEF FieldColumns, Labelled, SecretColumns, HeaderField
  <2>4. headers[c] \notin SecretCell
    BY <2>3 DEF SecretsAreCaught
  <2> QED
    BY <2>1, <2>3, <2>4
<1> QED
  BY <1>1, <1>2

\* A row yields a source row exactly when it has a value under a header that
\* names no secret.
LEMMA SourceHasData ==
    ASSUME SecretsAreRecognised, NEW profile, NEW name, NEW order, NEW top,
           NEW headers \in Rows, NEW row, NEW cells \in Rows,
           ~DuplicateColumn(profile, headers),
           NEW plan, plan = BuildSheetPlan(profile, name, order, top, headers),
           ~Unclassified(plan, cells)
    PROVE  ~SourceRowEmpty(ExtractSourceRow(plan, row, cells)) <=>
             \E c \in DOMAIN cells \cap DOMAIN headers :
                 cells[c] # Blank /\ headers[c] \notin SecretCell
<1>1. PICK e : e = ExtractSourceRow(plan, row, cells)
  OBVIOUS
<1>2. ASSUME NEW c \in DOMAIN cells \cap DOMAIN headers, cells[c] # Blank,
             headers[c] \notin SecretCell
      PROVE  ~SourceRowEmpty(e)
  <2>1. c \notin plan.secretColumns
    BY <1>2, SecretHeaders, PlanParts DEF SecretColumns, Labelled
  <2>2. c \in DOMAIN plan.headerMap \/ c \in DOMAIN plan.extraNames
    BY <1>2, <2>1 DEF Unclassified
  <2>3. CASE c \in DOMAIN plan.headerMap
    <3>1. plan.headerMap[c] \in DOMAIN e.fields
      BY <1>1, <2>3, SourceParts
    <3>2. PICK d \in DOMAIN plan.headerMap \cap DOMAIN cells :
              plan.headerMap[d] = plan.headerMap[c] /\ e.fields[plan.headerMap[c]] = cells[d]
      BY <1>1, <3>1, SourceParts
    <3>3. d = c
      BY <2>3, <3>2, PlanParts DEF DuplicateColumn
    <3> QED
      BY <1>2, <3>1, <3>2, <3>3 DEF SourceRowEmpty
  <2>4. CASE c \in DOMAIN plan.extraNames
    <3>1. ~IsSecretHeader(plan.extraNames[c])
      BY <1>2, <2>4, SecretHeaders, PlanParts
    <3>2. c \in ExtraColumns(plan, cells)
      BY <1>2, <2>4, <3>1 DEF ExtraColumns
    <3>3. plan.extraNames[c] \in DOMAIN e.extra
      BY <1>1, <3>2, SourceParts
    <3> QED
      BY <3>3 DEF SourceRowEmpty
  <2> QED
    BY <2>2, <2>3, <2>4
<1>3. ASSUME ~SourceRowEmpty(e)
      PROVE  \E c \in DOMAIN cells \cap DOMAIN headers :
                 cells[c] # Blank /\ headers[c] \notin SecretCell
  <2>1. CASE \E f \in DOMAIN e.fields : e.fields[f] # Blank
    <3>1. PICK f \in DOMAIN e.fields : e.fields[f] # Blank
      BY <2>1
    <3>2. \E c \in DOMAIN headers \cap DOMAIN cells :
              headers[c] \notin SecretCell /\ cells[c] = e.fields[f]
      BY <1>1, <3>1, RecognisedIsCaught, SourceHasNoSecrets
    <3> QED
      BY <3>1, <3>2
  <2>2. CASE DOMAIN e.extra # {}
    <3>1. PICK n : n \in DOMAIN e.extra
      BY <2>2
    <3>2. PICK c \in ExtraColumns(plan, cells) : plan.extraNames[c] = n
      BY <1>1, <3>1, SourceParts
    <3>3. /\ c \in DOMAIN cells /\ cells[c] # Blank /\ c \in DOMAIN plan.extraNames
          /\ ~IsSecretHeader(plan.extraNames[c])
      BY <3>2 DEF ExtraColumns
    <3>4. c \in DOMAIN headers /\ plan.extraNames[c] = NormalizeLabel[headers[c]]
      BY <3>3, PlanParts DEF Labelled
    <3> QED
      BY <3>3, <3>4, SecretHeaders
  <2> QED
    BY <1>3, <2>1, <2>2 DEF SourceRowEmpty
<1> QED
  BY <1>1, <1>2, <1>3

-----------------------------------------------------------------------------
(* Positions *)

\* The positions of rows, one by one.
LEMMA RowMember ==
    ASSUME NEW b
    PROVE  /\ \A s, r : <<s, r>> \in RowsOf(b) <=> s \in DOMAIN b /\ r \in DOMAIN b[s].rows
           /\ \A x \in RowsOf(b) : /\ x = <<x[1], x[2]>> /\ x[1] \in DOMAIN b
                                   /\ x[2] \in DOMAIN b[x[1]].rows
BY DEF RowsOf

\* The positions of cells, one by one.
LEMMA CellMember ==
    ASSUME NEW b
    PROVE  /\ \A s, r, c : <<s, r, c>> \in CellsOf(b) <=>
                <<s, r>> \in RowsOf(b) /\ c \in DOMAIN b[s].rows[r]
           /\ \A x \in CellsOf(b) : /\ x = <<x[1], x[2], x[3]>> /\ <<x[1], x[2]>> \in RowsOf(b)
                                    /\ x[3] \in DOMAIN b[x[1]].rows[x[2]]
<1>1. \A x \in CellsOf(b) : /\ x = <<x[1], x[2], x[3]>> /\ <<x[1], x[2]>> \in RowsOf(b)
                            /\ x[3] \in DOMAIN b[x[1]].rows[x[2]]
  <2> SUFFICES ASSUME NEW x \in CellsOf(b)
               PROVE  /\ x = <<x[1], x[2], x[3]>> /\ <<x[1], x[2]>> \in RowsOf(b)
                      /\ x[3] \in DOMAIN b[x[1]].rows[x[2]]
    OBVIOUS
  <2>1. PICK y \in RowsOf(b) : \E c \in DOMAIN b[y[1]].rows[y[2]] : x = <<y[1], y[2], c>>
    BY DEF CellsOf
  <2>2. y = <<y[1], y[2]>>
    BY RowMember
  <2> QED
    BY <2>1, <2>2
<1>2. ASSUME NEW s, NEW r, NEW c, <<s, r>> \in RowsOf(b), c \in DOMAIN b[s].rows[r]
      PROVE  <<s, r, c>> \in CellsOf(b)
  <2>1. PICK y \in RowsOf(b) : y = <<s, r>>
    BY <1>2
  <2>2. <<s, r, c>> = <<y[1], y[2], c>> /\ c \in DOMAIN b[y[1]].rows[y[2]]
    BY <1>2, <2>1
  <2> QED
    BY <2>2 DEF CellsOf
<1>3. ASSUME NEW s, NEW r, NEW c, <<s, r, c>> \in CellsOf(b)
      PROVE  <<s, r>> \in RowsOf(b) /\ c \in DOMAIN b[s].rows[r]
  BY <1>1, <1>3
<1> QED
  BY <1>1, <1>2, <1>3

CellsAt(s, r, n) == {<<s, r, c>> : c \in 1 .. n}

\* The positions of a row's cells are as many as the cells.
LEMMA CellCount ==
    ASSUME NEW s, NEW r, NEW n \in Nat
    PROVE  IsFiniteSet(CellsAt(s, r, n)) /\ Cardinality(CellsAt(s, r, n)) = n
<1>0. PICK S : S = CellsAt(s, r, n)
  OBVIOUS
<1>1. PICK f : f = [c \in 1 .. n |-> <<s, r, c>>]
  OBVIOUS
<1>2. f \in Bijection(1 .. n, S)
  <2>1. f \in [1 .. n -> S]
    BY <1>0, <1>1 DEF CellsAt
  <2>2. \A c, d \in 1 .. n : f[c] = f[d] => c = d
    BY <1>1
  <2>3. \A x \in S : \E c \in 1 .. n : f[c] = x
    BY <1>0, <1>1 DEF CellsAt
  <2> QED
    BY <2>1, <2>2, <2>3 DEF Bijection, Injection, Surjection, IsInjective
<1>3. ExistsBijection(1 .. n, S)
  BY <1>2 DEF ExistsBijection
<1>4. IsFiniteSet(1 .. n)
  BY FS_Interval
<1> QED
  BY <1>0, <1>3, <1>4, FS_Bijection, FS_CountingElements

WithRow(b, s, columns) == [b EXCEPT ![s].rows = Append(@, columns)]

\* d is workbook b with the row columns as row n of sheet s, its last.
RowAdded(b, d, s, columns, n) ==
    /\ n \in Nat /\ n > 0 /\ s \in DOMAIN b /\ DOMAIN d = DOMAIN b
    /\ \A t \in DOMAIN b : t # s => d[t] = b[t]
    /\ d[s].name = b[s].name
    /\ DOMAIN b[s].rows = 1 .. (n - 1) /\ DOMAIN d[s].rows = 1 .. n
    /\ d[s].rows[n] = columns /\ \A r \in 1 .. (n - 1) : d[s].rows[r] = b[s].rows[r]

\* What a row more does to the workbook.
LEMMA AddedRow ==
    ASSUME NEW b \in Seq(Sheet), NEW s \in DOMAIN b, NEW columns \in Rows,
           NEW d, d = WithRow(b, s, columns)
    PROVE  /\ d \in Seq(Sheet) /\ Len(d) = Len(b) /\ Len(d[s].rows) = Len(b[s].rows) + 1
           /\ RowAdded(b, d, s, columns, Len(b[s].rows) + 1)
<1>1. b \in [1 .. Len(b) -> Sheet] /\ Len(b) \in Nat /\ DOMAIN b = 1 .. Len(b)
  BY LenProperties
<1>2. b[s].rows \in Seq(Rows) /\ b[s].name \in SheetName
  BY <1>1 DEF Sheet
<1>3. PICK h : h = [b[s] EXCEPT !.rows = Append(b[s].rows, columns)]
  OBVIOUS
<1>4. /\ h \in Sheet /\ h.name = b[s].name /\ h.rows = Append(b[s].rows, columns)
  <2>1. Append(b[s].rows, columns) \in Seq(Rows)
    BY <1>2, AppendProperties
  <2>2. b[s] \in Sheet
    BY <1>1
  <2> QED
    BY <1>3, <2>1, <2>2 DEF Sheet
<1>5. d = [b EXCEPT ![s] = h]
  BY <1>3 DEF WithRow
<1>6. d \in [1 .. Len(b) -> Sheet] /\ d[s] = h /\ \A t \in DOMAIN b : t # s => d[t] = b[t]
  BY <1>1, <1>4, <1>5
<1>7. d \in Seq(Sheet) /\ Len(d) = Len(b) /\ DOMAIN d = DOMAIN b
  <2>1. Seq(Sheet) = UNION {[1 .. k -> Sheet] : k \in Nat}
    BY SeqDef, Zenon
  <2>2. [1 .. Len(b) -> Sheet] \in {[1 .. k -> Sheet] : k \in Nat}
    BY <1>1, Zenon
  <2>3. d \in Seq(Sheet)
    BY <1>6, <2>1, <2>2, Zenon
  <2>4. DOMAIN d = 1 .. Len(b) /\ d = [k \in 1 .. Len(b) |-> d[k]]
    BY <1>6
  <2>5. Len(d) = Len(b)
    BY <1>1, <2>4, FunctionShape
  <2> QED
    BY <1>1, <2>3, <2>4, <2>5
<1>8. PICK old, new : old = b[s].rows /\ new = Append(old, columns)
  OBVIOUS
<1>9. IsSequence(old)
  BY <1>2, <1>8 DEF IsSequence
<1>10. /\ Len(old) \in Nat /\ DOMAIN old = 1 .. Len(old) /\ DOMAIN new = 1 .. (Len(old) + 1)
       /\ Len(new) = Len(old) + 1 /\ new[Len(old) + 1] = columns /\ \A r \in 1 .. Len(old) : new[r] = old[r]
  BY <1>8, <1>9, AppendShape
<1>11. d[s].rows = new
  BY <1>4, <1>6, <1>8
<1>12. PICK n \in Nat : n = Len(old) + 1 /\ n > 0 /\ n - 1 = Len(old)
  BY <1>10
<1>13. /\ DOMAIN old = 1 .. (n - 1) /\ DOMAIN new = 1 .. n /\ new[n] = columns
       /\ \A r \in 1 .. (n - 1) : new[r] = old[r]
  BY <1>10, <1>12
<1>14. RowAdded(b, d, s, columns, n)
  BY <1>4, <1>6, <1>7, <1>8, <1>11, <1>12, <1>13 DEF RowAdded
<1> QED
  BY <1>7, <1>8, <1>10, <1>11, <1>12, <1>14

\* One row and its cells more.
LEMMA AddedPositions ==
    ASSUME NEW b, NEW d, NEW s, NEW columns \in Rows, NEW n, RowAdded(b, d, s, columns, n),
           IsFiniteSet(RowsOf(b)), IsFiniteSet(CellsOf(b))
    PROVE  /\ RowsOf(d) = RowsOf(b) \cup {<<s, n>>}
           /\ IsFiniteSet(RowsOf(d)) /\ Cardinality(RowsOf(d)) = Cardinality(RowsOf(b)) + 1
           /\ IsFiniteSet(CellsOf(d))
           /\ Cardinality(CellsOf(d)) = Cardinality(CellsOf(b)) + Len(columns)
<1> SUFFICES ASSUME n \in Nat, n > 0, s \in DOMAIN b, DOMAIN d = DOMAIN b,
                    \A t \in DOMAIN b : t # s => d[t] = b[t], d[s].name = b[s].name,
                    DOMAIN b[s].rows = 1 .. (n - 1), DOMAIN d[s].rows = 1 .. n,
                    d[s].rows[n] = columns,
                    \A r \in 1 .. (n - 1) : d[s].rows[r] = b[s].rows[r]
             PROVE  /\ RowsOf(d) = RowsOf(b) \cup {<<s, n>>}
                    /\ IsFiniteSet(RowsOf(d)) /\ Cardinality(RowsOf(d)) = Cardinality(RowsOf(b)) + 1
                    /\ IsFiniteSet(CellsOf(d))
                    /\ Cardinality(CellsOf(d)) = Cardinality(CellsOf(b)) + Len(columns)
  BY DEF RowAdded
<1>3. n \notin DOMAIN b[s].rows /\ \A r : r \in DOMAIN d[s].rows <=> r \in DOMAIN b[s].rows \/ r = n
  OBVIOUS
<1>4. \A t, r : <<t, r>> \in RowsOf(d) <=> <<t, r>> \in RowsOf(b) \/ <<t, r>> = <<s, n>>
  <2> SUFFICES ASSUME NEW t, NEW r
               PROVE  <<t, r>> \in RowsOf(d) <=> <<t, r>> \in RowsOf(b) \/ <<t, r>> = <<s, n>>
    OBVIOUS
  <2>1. <<t, r>> \in RowsOf(d) <=> t \in DOMAIN d /\ r \in DOMAIN d[t].rows
    BY RowMember
  <2>2. <<t, r>> \in RowsOf(b) <=> t \in DOMAIN b /\ r \in DOMAIN b[t].rows
    BY RowMember
  <2>3. CASE t = s
    BY <1>3, <2>1, <2>2, <2>3
  <2>4. CASE t # s
    BY <2>1, <2>2, <2>4
  <2> QED
    BY <2>3, <2>4
<1>5. RowsOf(d) = RowsOf(b) \cup {<<s, n>>}
  <2>1. \A x \in RowsOf(d) : x = <<x[1], x[2]>>
    BY RowMember
  <2>2. \A x \in RowsOf(b) : x = <<x[1], x[2]>>
    BY RowMember
  <2> QED
    BY <1>4, <2>1, <2>2
<1>6. <<s, n>> \notin RowsOf(b)
  BY <1>3, RowMember
<1>7. /\ IsFiniteSet(RowsOf(d)) /\ Cardinality(RowsOf(d)) = Cardinality(RowsOf(b)) + 1
  BY <1>5, <1>6, FS_AddElement
<1>9. Len(columns) \in Nat /\ DOMAIN columns = 1 .. Len(columns)
  BY RowShape
<1>8. PICK S : S = CellsAt(s, n, Len(columns)) /\ IsFiniteSet(S) /\ Cardinality(S) = Len(columns)
  BY <1>9, CellCount
<1>10. CellsOf(d) = CellsOf(b) \cup S
  <2>1. ASSUME NEW t, NEW r, NEW c
        PROVE  <<t, r, c>> \in CellsOf(d) <=> <<t, r, c>> \in CellsOf(b) \/ <<t, r, c>> \in S
    <3>1. <<t, r, c>> \in CellsOf(d) <=> <<t, r>> \in RowsOf(d) /\ c \in DOMAIN d[t].rows[r]
      BY CellMember
    <3>2. <<t, r, c>> \in CellsOf(b) <=> <<t, r>> \in RowsOf(b) /\ c \in DOMAIN b[t].rows[r]
      BY CellMember
    <3>3. <<t, r, c>> \in S <=> t = s /\ r = n /\ c \in DOMAIN columns
      BY <1>8, <1>9 DEF CellsAt
    <3>4. CASE t = s /\ r = n
      <4>1. <<t, r>> \in RowsOf(d) /\ <<t, r>> \notin RowsOf(b) /\ d[t].rows[r] = columns
        BY <1>4, <1>6, <3>4
      <4> QED
        BY <3>1, <3>2, <3>3, <3>4, <4>1
    <3>5. CASE ~(t = s /\ r = n)
      <4>1. <<t, r>> \in RowsOf(d) <=> <<t, r>> \in RowsOf(b)
        BY <1>4, <3>5
      <4>2. <<t, r>> \in RowsOf(b) => d[t].rows[r] = b[t].rows[r]
        BY <3>5, RowMember
      <4> QED
        BY <3>1, <3>2, <3>3, <3>5, <4>1, <4>2
    <3> QED
      BY <3>4, <3>5
  <2>2. \A x \in CellsOf(d) : x = <<x[1], x[2], x[3]>>
    BY CellMember
  <2>3. \A x \in CellsOf(b) : x = <<x[1], x[2], x[3]>>
    BY CellMember
  <2>4. \A x \in S : x = <<x[1], x[2], x[3]>>
    BY <1>8 DEF CellsAt
  <2> QED
    BY <2>1, <2>2, <2>3, <2>4
<1>11. CellsOf(b) \cap S = {}
  <2> SUFFICES ASSUME NEW c \in 1 .. Len(columns), <<s, n, c>> \in CellsOf(b) PROVE FALSE
    BY <1>8 DEF CellsAt
  <2> QED
    BY <1>6, CellMember
<1>12. IsFiniteSet(CellsOf(d)) /\ Cardinality(CellsOf(d)) = Cardinality(CellsOf(b)) + Cardinality(S)
  <2>1. Cardinality(CellsOf(b)) \in Nat /\ Cardinality(S) \in Nat
    BY <1>8, FS_CardinalityType
  <2>2. /\ IsFiniteSet(CellsOf(b) \cup S)
        /\ Cardinality(CellsOf(b) \cup S) =
             Cardinality(CellsOf(b)) + Cardinality(S) - Cardinality(CellsOf(b) \cap S)
    BY <1>8, FS_Union
  <2>3. Cardinality(CellsOf(b) \cap S) = 0
    BY <1>11, FS_EmptySet
  <2> QED
    BY <1>10, <2>1, <2>2, <2>3
<1> QED
  BY <1>5, <1>7, <1>8, <1>12

\* Parse reads one row more.
LEMMA PassedRow ==
    ASSUME NEW P, NEW a \in DOMAIN P, NEW n \in Nat, NEW t, NEW q \in Nat,
           \A i \in DOMAIN P : i \in Nat,
           \A i, j \in DOMAIN P : P[i].order = P[j].order => i = j
    PROVE  Passed(P, a, n + 1, t, q) <=>
             Passed(P, a, n, t, q) \/ (t = P[a].order /\ q = n + 1)
<1>1. \A i \in DOMAIN P : (i < a \/ (i = a /\ q <= n + 1)) <=>
                          ((i < a \/ (i = a /\ q <= n)) \/ (i = a /\ q = n + 1))
  OBVIOUS
<1> QED
  BY <1>1 DEF Passed

\* The last row of a sheet has been read: on to the next one.
LEMMA PassedSheet ==
    ASSUME NEW P, NEW a \in DOMAIN P, NEW n \in Nat, NEW t, NEW q \in Nat,
           \A i \in DOMAIN P : i \in Nat, q > 0, t = P[a].order => q <= n
    PROVE  Passed(P, a + 1, 0, t, q) <=> Passed(P, a, n, t, q)
<1>1. ASSUME NEW i \in DOMAIN P, P[i].order = t
      PROVE  (i < a + 1 \/ (i = a + 1 /\ q <= 0)) <=> (i < a \/ (i = a /\ q <= n))
  <2>1. CASE i = a
    BY <1>1, <2>1
  <2>2. CASE i # a
    BY <2>2
  <2> QED
    BY <2>1, <2>2
<1> QED
  BY <1>1 DEF Passed

-----------------------------------------------------------------------------
(* Workbooks and plans *)

\* The shape of a workbook.
LEMMA BookShape ==
    ASSUME NEW b \in Seq(Sheet)
    PROVE  /\ Len(b) \in Nat /\ DOMAIN b = 1 .. Len(b)
           /\ \A s \in DOMAIN b :
                /\ b[s].name \in SheetName /\ Len(b[s].rows) \in Nat
                /\ DOMAIN b[s].rows = 1 .. Len(b[s].rows)
                /\ \A r \in DOMAIN b[s].rows : b[s].rows[r] \in Rows
                /\ Range(b[s].rows) \subseteq Rows
<1>1. b \in [1 .. Len(b) -> Sheet] /\ Len(b) \in Nat /\ DOMAIN b = 1 .. Len(b)
  BY LenProperties
<1>2. ASSUME NEW s \in DOMAIN b
      PROVE  /\ b[s].name \in SheetName /\ Len(b[s].rows) \in Nat
             /\ DOMAIN b[s].rows = 1 .. Len(b[s].rows)
             /\ \A r \in DOMAIN b[s].rows : b[s].rows[r] \in Rows
             /\ Range(b[s].rows) \subseteq Rows
  <2>1. PICK f : f = b[s].rows
    OBVIOUS
  <2>2. f \in Seq(Rows) /\ b[s].name \in SheetName
    BY <1>1, <2>1 DEF Sheet
  <2>3. f \in [1 .. Len(f) -> Rows] /\ Len(f) \in Nat /\ DOMAIN f = 1 .. Len(f)
    BY <2>2, LenProperties
  <2>4. \A r \in DOMAIN f : f[r] \in Rows
    BY <2>3
  <2>5. Range(f) \subseteq Rows
    BY <2>4 DEF Range
  <2> QED
    BY <2>1, <2>2, <2>3, <2>4, <2>5
<1> QED
  BY <1>1, <1>2

\* A plan that fits a sheet has its order, and is not the missing plan.
LEMMA FittingPlan ==
    ASSUME NEW b, NEW plan, NEW s \in Nat, s > 0, PlanFits(b, plan, s)
    PROVE  plan.order = s /\ plan # NoPlan /\ ProfileIn(b, s) # NoProfile
<1>1. PICK r \in DOMAIN b[s].rows : plan = PlanAt(b, s, r)
  BY DEF PlanFits
<1>2. plan.order = s
  BY <1>1, PlanParts DEF PlanAt
<1>3. NoPlan.order = 0
  BY DEF NoPlan
<1> QED
  BY <1>2, <1>3 DEF PlanFits

\* The sheets of different plans are different, and so are their profiles.
LEMMA PlansDiffer ==
    ASSUME NEW b, NEW P, NEW n \in Nat, PlansBefore(b, P, n), IsSequence(P)
    PROVE  /\ \A i, j \in DOMAIN P : P[i].order = P[j].order => i = j
           /\ \A i, j \in DOMAIN P :
                ProfileIn(b, P[i].order) = ProfileIn(b, P[j].order) => i = j
           /\ \A i \in DOMAIN P : i \in Nat /\ P[i].order \in 1 .. (n - 1)
                                  /\ ProfileIn(b, P[i].order) # NoProfile
<1>1. Len(P) \in Nat /\ DOMAIN P = 1 .. Len(P)
  BY SequenceShape
<1>2. \A i \in DOMAIN P : i \in Nat
  BY <1>1
<1>3. \A i \in DOMAIN P : P[i].order \in 1 .. (n - 1) /\ ProfileIn(b, P[i].order) # NoProfile
  BY DEF PlansBefore, PlanFits
<1>4. \A i, j \in DOMAIN P : P[i].order = P[j].order => i = j
  <2>1. \A i, j \in DOMAIN P : i < j => P[i].order < P[j].order
    BY DEF PlansBefore
  <2>2. \A i \in DOMAIN P : P[i].order \in Int
    BY <1>3
  <2> QED
    BY <1>2, <2>1, <2>2
<1>5. \A i, j \in DOMAIN P : ProfileIn(b, P[i].order) = ProfileIn(b, P[j].order) => i = j
  <2>1. \A s, t \in 1 .. (n - 1) :
           ProfileIn(b, s) # NoProfile /\ ProfileIn(b, s) = ProfileIn(b, t) => s = t
    BY DEF PlansBefore
  <2> QED
    BY <1>3, <1>4, <2>1
<1> QED
  BY <1>2, <1>3, <1>4, <1>5

\* The numbers from 1 to n.
LEMMA Counting ==
    ASSUME NEW n \in Nat
    PROVE  IsFiniteSet(1 .. n) /\ Cardinality(1 .. n) = n
<1>1. n \in Int /\ 1 \in Int
  OBVIOUS
<1>2. IsFiniteSet(1 .. n) /\ Cardinality(1 .. n) = IF 1 > n THEN 0 ELSE n - 1 + 1
  BY <1>1, FS_Interval
<1> QED
  BY <1>2

\* There are no more plans than profiles, and no more than sheets.
LEMMA PlansAreFew ==
    ASSUME NEW b \in Seq(Sheet), NEW P, NEW n \in Nat, n > 0, n <= Len(b) + 1,
           PlansBefore(b, P, n), IsSequence(P)
    PROVE  Len(P) <= Cardinality(AllProfiles) /\ Len(P) <= n - 1
<1>1. Len(P) \in Nat /\ DOMAIN P = 1 .. Len(P)
  BY SequenceShape
<1>2. IsFiniteSet(1 .. Len(P)) /\ Cardinality(1 .. Len(P)) = Len(P)
  BY <1>1, Counting
<1>3. IsFiniteSet(AllProfiles)
  <2>1. AllProfiles \subseteq {ProfileForSheet[m] : m \in SheetName}
    BY ProfileAssumption DEF AllProfiles, Range
  <2> QED
    BY <2>1, ProfileAssumption, FS_Subset
<1>4. IsFiniteSet(1 .. (n - 1)) /\ Cardinality(1 .. (n - 1)) = n - 1
  <2>1. n - 1 \in Nat
    OBVIOUS
  <2> QED
    BY <2>1, Counting
<1>5. Len(P) <= Cardinality(AllProfiles)
  <2>1. PICK f : f = [i \in 1 .. Len(P) |-> ProfileIn(b, P[i].order)]
    OBVIOUS
  <2>2. ASSUME NEW i \in 1 .. Len(P) PROVE ProfileIn(b, P[i].order) \in AllProfiles
    <3>1. P[i].order \in 1 .. (n - 1) /\ ProfileIn(b, P[i].order) # NoProfile
      BY <1>1, PlansDiffer
    <3>2. P[i].order \in DOMAIN b
      BY <3>1, BookShape
    <3>3. b[P[i].order].name \in DOMAIN ProfileForSheet
      BY <3>2, BookShape, ProfileAssumption
    <3> QED
      BY <3>1, <3>3 DEF ProfileIn, AllProfiles, Range
  <2>3. f \in [1 .. Len(P) -> AllProfiles]
    BY <2>1, <2>2
  <2>4. \A i, j \in 1 .. Len(P) : f[i] = f[j] => i = j
    BY <1>1, <2>1, PlansDiffer
  <2>5. f \in Injection(1 .. Len(P), AllProfiles)
    BY <2>3, <2>4 DEF Injection, IsInjective
  <2>6. Cardinality(1 .. Len(P)) <= Cardinality(AllProfiles)
    BY <1>3, <2>5, FS_Injection
  <2> QED
    BY <1>2, <2>6
<1>6. Len(P) <= n - 1
  <2>1. PICK f : f = [i \in 1 .. Len(P) |-> P[i].order]
    OBVIOUS
  <2>2. \A i \in 1 .. Len(P) : P[i].order \in 1 .. (n - 1)
    BY <1>1, PlansDiffer
  <2>3. f \in [1 .. Len(P) -> 1 .. (n - 1)]
    BY <2>1, <2>2
  <2>4. \A i, j \in 1 .. Len(P) : f[i] = f[j] => i = j
    BY <1>1, <2>1, PlansDiffer
  <2>5. f \in Injection(1 .. Len(P), 1 .. (n - 1))
    BY <2>3, <2>4 DEF Injection, IsInjective
  <2>6. Cardinality(1 .. Len(P)) <= Cardinality(1 .. (n - 1))
    BY <1>4, <2>5, FS_Injection
  <2> QED
    BY <1>2, <1>4, <2>6
<1> QED
  BY <1>5, <1>6

-----------------------------------------------------------------------------
(* The archive *)

\* Refusing the workbook keeps the invariant.
LEMMA RefuseStep ==
    ASSUME WInv, phase \in {"archive", "opened", "preflight"}, Refuse
    PROVE  WInv'
<1>1. ShapeInv'
  BY DEF WInv, ShapeInv, TypeOK, Refuse, Phases, NoArchive
<1>2. ArchiveInv' /\ LimitsInv'
  BY DEF WInv, ArchiveInv, LimitsInv, Refuse
<1>3. BetweenInv' /\ AcceptedIsParsed'
  BY DEF WInv, BetweenInv, Refuse, AcceptedIsParsed
<1>4. UnopenedInv' /\ PreflightInv' /\ ParseInv' /\ SinkInv'
  BY DEF UnopenedInv, PreflightInv, ParseInv, SinkInv, Refuse
<1> QED
  BY <1>1, <1>2, <1>3, <1>4 DEF WInv

\* One more entry: the counter does not wrap, so it stays the true size.
LEMMA ValidateEntryStep ==
    ASSUME WInv, NEW kind \in EntryKinds, NEW size \in 0 .. (2^ByteBits - 1),
           ValidateEntry(kind, size)
    PROVE  WInv'
<1>1. CASE archive.count = MaxZIPEntries \/ kind = "forbidden" \/ SizeRefused(size)
  BY <1>1, RefuseStep DEF ValidateEntry
<1>2. CASE ~(archive.count = MaxZIPEntries \/ kind = "forbidden" \/ SizeRefused(size))
  <2>1. /\ archive' = [size  |-> archive.size + size,
                       total |-> AddSize(archive.total, size),
                       parts |-> archive.parts \cup ({kind} \cap RequiredParts),
                       count |-> archive.count + 1]
        /\ UNCHANGED <<phase, book, at, count, draft, plans, stored, line, emitted>>
        /\ phase = "archive" /\ ~SizeRefused(size)
    BY <1>2 DEF ValidateEntry
  <2>2. PICK m \in Nat : m = 2^ByteBits /\ MaxUncompressedBytes < m
    BY WorkbookAssumption
  <2>3. PICK tt \in Nat : tt = archive.total /\ tt <= MaxUncompressedBytes /\ archive.size = tt
    BY WorkbookAssumption DEF WInv, ArchiveInv
  <2>4. AddSize(archive.total, size) = tt + size /\ tt + size \in 0 .. MaxUncompressedBytes
    <3>1. size \in Nat /\ size <= m - 1 /\ tt + size <= m - 1
      BY <2>1, <2>2, <2>3 DEF SizeRefused
    <3>2. AddSize(archive.total, size) = (tt + size) % m
      BY <2>2, <2>3 DEF AddSize
    <3>3. (tt + size) % m = tt + size
      BY <3>1
    <3>4. ~(AddSize(archive.total, size) > MaxUncompressedBytes)
      BY <2>1 DEF SizeRefused
    <3>5. MaxUncompressedBytes \in Nat
      BY WorkbookAssumption
    <3> QED
      BY <3>1, <3>2, <3>3, <3>4, <3>5
  <2>5. archive'.total = tt + size /\ archive'.size = tt + size /\ archive'.parts \subseteq RequiredParts
    <3>1. archive.parts \subseteq RequiredParts
      BY DEF WInv, ShapeInv, TypeOK
    <3> QED
      BY <2>1, <2>3, <2>4, <3>1
  <2>6. ArchiveInv'
    BY <2>4, <2>5 DEF ArchiveInv
  <2>7. ShapeInv'
    BY <2>1, <2>4, <2>5 DEF WInv, ShapeInv, TypeOK
  <2>8. LimitsInv' /\ AcceptedIsParsed' /\ UnopenedInv'
    BY <2>1 DEF WInv, LimitsInv, AcceptedIsParsed, UnopenedInv
  <2>9. PreflightInv' /\ BetweenInv' /\ ParseInv' /\ SinkInv'
    BY <2>1 DEF WInv, PreflightInv, BetweenInv, ParseInv, SinkInv
  <2> QED
    BY <2>6, <2>7, <2>8, <2>9 DEF WInv
<1> QED
  BY <1>1, <1>2

\* The end of the directory.
LEMMA EndOfArchiveStep ==
    ASSUME WInv, EndOfArchive
    PROVE  WInv'
<1>1. CASE ~(RequiredParts \subseteq archive.parts)
  BY <1>1, RefuseStep DEF EndOfArchive
<1>2. CASE RequiredParts \subseteq archive.parts
  <2>1. /\ phase = "archive" /\ phase' = "opened"
        /\ UNCHANGED <<archive, book, at, count, draft, plans, stored, line, emitted>>
    BY <1>2 DEF EndOfArchive
  <2>2. ShapeInv'
    BY <2>1 DEF WInv, ShapeInv, TypeOK, Phases
  <2>3. ArchiveInv' /\ LimitsInv' /\ AcceptedIsParsed' /\ UnopenedInv'
    BY <2>1 DEF WInv, ArchiveInv, LimitsInv, AcceptedIsParsed, UnopenedInv
  <2>4. PreflightInv' /\ BetweenInv' /\ ParseInv' /\ SinkInv'
    BY <2>1 DEF WInv, PreflightInv, BetweenInv, ParseInv, SinkInv
  <2> QED
    BY <2>2, <2>3, <2>4 DEF WInv
<1> QED
  BY <1>1, <1>2

-----------------------------------------------------------------------------
(* Preflight *)

\* A list of sheets without rows is a workbook without positions.
LEMMA FreshBook ==
    ASSUME NEW names \in Seq(SheetName),
           NEW b, b = [i \in DOMAIN names |-> [name |-> names[i], rows |-> <<>>]]
    PROVE  /\ b \in Seq(Sheet) /\ Len(b) = Len(names)
           /\ \A s \in DOMAIN b : b[s].rows = <<>>
           /\ RowsOf(b) = {} /\ CellsOf(b) = {}
<1>1. /\ names \in [1 .. Len(names) -> SheetName] /\ Len(names) \in Nat
      /\ DOMAIN names = 1 .. Len(names)
  BY LenProperties
<1>2. DOMAIN b = 1 .. Len(names) /\ b = [k \in 1 .. Len(names) |-> b[k]]
  BY <1>1
<1>3. Len(b) = Len(names)
  BY <1>1, <1>2, FunctionShape
<1>4. <<>> \in Seq(Rows)
  BY EmptySeq
<1>5. b \in [1 .. Len(names) -> Sheet]
  BY <1>1, <1>4 DEF Sheet
<1>6. b \in Seq(Sheet)
  <2>1. Seq(Sheet) = UNION {[1 .. k -> Sheet] : k \in Nat}
    BY SeqDef, Zenon
  <2>2. [1 .. Len(names) -> Sheet] \in {[1 .. k -> Sheet] : k \in Nat}
    BY <1>1, Zenon
  <2> QED
    BY <1>5, <2>1, <2>2, Zenon
<1>7. \A s \in DOMAIN b : b[s].rows = <<>>
  OBVIOUS
<1>8. \A s \in DOMAIN b : DOMAIN b[s].rows = {}
  BY <1>7, EmptyShape
<1>9. RowsOf(b) = {}
  BY <1>8, RowMember
<1>10. CellsOf(b) = {}
  BY <1>9, CellMember
<1> QED
  BY <1>3, <1>6, <1>7, <1>9, <1>10

\* The sheets of the workbook are listed, within the limit.
LEMMA OpenWorkbookStep ==
    ASSUME WInv, NEW names \in SheetLists, OpenWorkbook(names)
    PROVE  WInv'
<1>1. CASE Len(names) > MaxSheets
  BY <1>1, RefuseStep DEF OpenWorkbook
<1>2. CASE ~(Len(names) > MaxSheets)
  <2>1. /\ phase = "opened" /\ phase' = "preflight" /\ archive' = NoArchive /\ at' = 1
        /\ book' = [i \in DOMAIN names |-> [name |-> names[i], rows |-> <<>>]]
        /\ UNCHANGED <<count, draft, plans, stored, line, emitted>>
    BY <1>2 DEF OpenWorkbook
  <2>2. names \in Seq(SheetName)
    BY WorkbookAssumption
  <2>3. PICK b : b = book' /\ b = [i \in DOMAIN names |-> [name |-> names[i], rows |-> <<>>]]
    BY <2>1
  <2>4. /\ b \in Seq(Sheet) /\ Len(b) = Len(names) /\ \A s \in DOMAIN b : b[s].rows = <<>>
        /\ RowsOf(b) = {} /\ CellsOf(b) = {}
    BY <2>2, <2>3, FreshBook
  <2>5. Len(b) \in Nat /\ Len(b) <= MaxSheets /\ MaxSheets \in Nat /\ MaxSheetRows \in Nat
    <3>1. Len(b) \in Nat /\ MaxSheets \in Nat /\ MaxSheetRows \in Nat
      BY <2>4, BookShape, WorkbookAssumption
    <3> QED
      BY <1>2, <2>4, <3>1
  <2>6. emitted = <<>> /\ line = 0 /\ plans = <<>> /\ draft = NoPlan /\ count = NoCount
    BY <2>1 DEF WInv, BetweenInv, UnopenedInv
  <2>7. DOMAIN <<>> = {} /\ Range(<<>>) = {} /\ Len(<<>>) = 0
    BY EmptyShape DEF Range
  <2>8. ShapeInv'
    <3>1. \A s \in DOMAIN b : b[s].name \in SheetName /\ Range(b[s].rows) \subseteq Rows
      BY <2>4, BookShape
    <3>2. archive'.total \in 0 .. MaxUncompressedBytes /\ archive'.parts \subseteq RequiredParts
      BY <2>1, WorkbookAssumption DEF NoArchive
    <3>3. at' \in 0 .. (MaxSheets + 1)
      BY <2>1, <2>5
    <3>4. \A s \in DOMAIN b : Len(b[s].rows) <= MaxSheetRows
      BY <2>4, <2>5, <2>7
    <3>5. \A e \in Range(emitted') : e.sheet \in DOMAIN book'
      BY <2>1, <2>6, <2>7
    <3>6. TypeOK'
      BY <2>1, <2>3, <3>1, <3>2, <3>3, <3>5 DEF WInv, ShapeInv, TypeOK, Phases
    <3> QED
      BY <2>1, <2>3, <2>4, <2>5, <3>4, <3>6 DEF WInv, ShapeInv
  <2>9. ArchiveInv'
    BY <2>1, WorkbookAssumption DEF ArchiveInv, NoArchive
  <2>10. LimitsInv'
    <3>1. IsFiniteSet({}) /\ Cardinality({}) = 0
      BY FS_EmptySet
    <3>2. MaxRows \in Nat /\ MaxCells \in Nat
      BY WorkbookAssumption
    <3>3. /\ IsFiniteSet(RowsOf(b)) /\ Cardinality(RowsOf(b)) <= MaxRows
          /\ IsFiniteSet(CellsOf(b)) /\ Cardinality(CellsOf(b)) <= MaxCells
      BY <2>4, <3>1, <3>2
    <3>4. \A x \in RowsOf(b) : ~AnyCellTooLong(b[x[1]].rows[x[2]])
      BY <2>4
    <3> QED
      BY <2>3, <3>3, <3>4 DEF LimitsInv
  <2>11. PreflightInv'
    <3>1. Cardinality({}) = 0
      BY FS_EmptySet
    <3>2. count'.rows = 0 /\ count'.cells = 0
      BY <2>1, <2>6 DEF NoCount
    <3>3. PlansBefore(b, plans', at')
      <4>1. DOMAIN plans' = {} /\ at' = 1
        BY <2>1, <2>6, <2>7
      <4>2. 1 .. (at' - 1) = {}
        BY <4>1
      <4> QED
        BY <4>1, <4>2 DEF PlansBefore
    <3>4. at' \in 1 .. (Len(b) + 1)
      BY <2>1, <2>5
    <3>5. at' <= Len(b) => DraftFits(b, at', draft')
      <4>1. SUFFICES ASSUME at' <= Len(b) PROVE DraftFits(b, at', draft')
        OBVIOUS
      <4>2. 1 \in DOMAIN b
        BY <2>1, <2>4, <4>1, BookShape
      <4>3. HeadersIn(b, 1) = {}
        BY <2>4, <2>7, <4>2 DEF HeadersIn
      <4> QED
        BY <2>1, <2>6, <4>3 DEF DraftFits
    <3>6. ~(at' > Len(b)) => at' <= Len(b)
      BY <2>1, <2>5
    <3> QED
      BY <2>1, <2>3, <2>4, <2>6, <3>1, <3>2, <3>3, <3>4, <3>5, <3>6 DEF PreflightInv
  <2>12. UnopenedInv' /\ BetweenInv' /\ ParseInv' /\ SinkInv' /\ AcceptedIsParsed'
    BY <2>1, <2>6 DEF UnopenedInv, BetweenInv, ParseInv, SinkInv, AcceptedIsParsed
  <2> QED
    BY <2>8, <2>9, <2>10, <2>11, <2>12 DEF WInv
<1> QED
  BY <1>1, <1>2

\* The plan of one sheet more.
LEMMA PlansGrow ==
    ASSUME NEW b, NEW P, NEW n \in Nat, n > 0, IsSequence(P), PlansBefore(b, P, n),
           NEW plan, PlanFits(b, plan, n),
           \A s \in 1 .. (n - 1) : ProfileIn(b, s) # ProfileIn(b, n),
           NEW Q, Q = Append(P, plan)
    PROVE  IsSequence(Q) /\ PlansBefore(b, Q, n + 1)
<1>1. /\ IsSequence(Q) /\ Len(P) \in Nat /\ DOMAIN P = 1 .. Len(P)
      /\ DOMAIN Q = 1 .. (Len(P) + 1) /\ Q[Len(P) + 1] = plan
      /\ \A i \in DOMAIN P : Q[i] = P[i]
  BY AppendShape
<1>2. plan.order = n
  BY FittingPlan
<1>3. \A i \in DOMAIN P : P[i].order \in 1 .. (n - 1) /\ PlanFits(b, P[i], P[i].order)
  BY DEF PlansBefore
<1>4. \A i \in DOMAIN Q : i \in DOMAIN P \/ i = Len(P) + 1
  BY <1>1
<1>5. (n + 1) - 1 = n /\ \A s : s \in 1 .. n <=> s \in 1 .. (n - 1) \/ s = n
  OBVIOUS
<1>6. \A i \in DOMAIN Q : Q[i].order \in 1 .. n /\ PlanFits(b, Q[i], Q[i].order)
  BY <1>1, <1>2, <1>3, <1>4, <1>5
<1>7. \A i, j \in DOMAIN Q : i < j => Q[i].order < Q[j].order
  <2> SUFFICES ASSUME NEW i \in DOMAIN Q, NEW j \in DOMAIN Q, i < j
               PROVE  Q[i].order < Q[j].order
    OBVIOUS
  <2>1. i \in DOMAIN P
    BY <1>1
  <2>2. P[i].order \in 1 .. (n - 1)
    BY <1>3, <2>1
  <2>3. CASE j \in DOMAIN P
    BY <1>1, <2>1, <2>3 DEF PlansBefore
  <2>4. CASE j = Len(P) + 1
    BY <1>1, <1>2, <2>1, <2>2, <2>4
  <2> QED
    BY <1>4, <2>3, <2>4
<1>8. \A s \in 1 .. n : ProfileIn(b, s) # NoProfile => \E i \in DOMAIN Q : Q[i].order = s
  <2> SUFFICES ASSUME NEW s \in 1 .. n, ProfileIn(b, s) # NoProfile
               PROVE  \E i \in DOMAIN Q : Q[i].order = s
    OBVIOUS
  <2>1. CASE s \in 1 .. (n - 1)
    <3>1. PICK i \in DOMAIN P : P[i].order = s
      BY <2>1 DEF PlansBefore
    <3>2. i \in DOMAIN Q
      BY <1>1
    <3> QED
      BY <1>1, <3>1, <3>2
  <2>2. CASE s = n
    BY <1>1, <1>2, <2>2
  <2> QED
    BY <1>5, <2>1, <2>2
<1>9. \A s, t \in 1 .. n :
        ProfileIn(b, s) # NoProfile /\ ProfileIn(b, s) = ProfileIn(b, t) => s = t
  <2>1. \A s, t \in 1 .. (n - 1) :
          ProfileIn(b, s) # NoProfile /\ ProfileIn(b, s) = ProfileIn(b, t) => s = t
    BY DEF PlansBefore
  <2> QED
    BY <1>5, <2>1
<1> QED
  BY <1>1, <1>5, <1>6, <1>7, <1>8, <1>9 DEF PlansBefore

\* A sheet without a plan.
LEMMA PlansSkip ==
    ASSUME NEW b, NEW P, NEW n \in Nat, n > 0, PlansBefore(b, P, n), ProfileIn(b, n) = NoProfile
    PROVE  PlansBefore(b, P, n + 1)
<1>1. (n + 1) - 1 = n /\ \A s : s \in 1 .. n <=> s \in 1 .. (n - 1) \/ s = n
  OBVIOUS
<1> QED
  BY <1>1 DEF PlansBefore

\* The sheet is over: its plan joins the others.
LEMMA EndOfSheetStep ==
    ASSUME WInv, EndOfSheet
    PROVE  WInv'
<1>1. CASE SheetRefused
  BY <1>1, RefuseStep DEF EndOfSheet
<1>2. CASE ~SheetRefused
  <2>1. /\ phase = "preflight" /\ at <= Len(book) /\ draft' = NoPlan /\ at' = at + 1
        /\ plans' = IF Supported THEN Append(plans, draft) ELSE plans
        /\ UNCHANGED <<phase, archive, book, count, stored, line, emitted>>
    BY <1>2 DEF EndOfSheet
  <2>2. /\ at \in 1 .. (Len(book) + 1) /\ count.rows = Cardinality(RowsOf(book))
        /\ count.cells = Cardinality(CellsOf(book)) /\ PlansBefore(book, plans, at)
        /\ \A s \in DOMAIN book : s > at => book[s].rows = <<>>
    BY <2>1 DEF WInv, PreflightInv
  <2>3. book \in Seq(Sheet) /\ IsSequence(plans) /\ Len(book) <= MaxSheets
    BY DEF WInv, ShapeInv
  <2>4. Len(book) \in Nat /\ DOMAIN book = 1 .. Len(book) /\ MaxSheets \in Nat
    BY <2>3, BookShape, WorkbookAssumption
  <2>5. at \in Nat /\ at > 0 /\ at \in DOMAIN book
    BY <2>1, <2>2, <2>4
  <2>6. DraftFits(book, at, draft)
    BY <2>1, <2>4, <2>5 DEF WInv, PreflightInv
  <2>7. PICK Q : Q = plans'
    OBVIOUS
  <2>8. IsSequence(Q) /\ PlansBefore(book, Q, at + 1)
    <3>1. CASE Supported
      <4>1. ~SeenBefore /\ draft # NoPlan /\ ProfileIn(book, at) # NoProfile
        BY <1>2, <3>1 DEF SheetRefused, Supported, Profile, ProfileIn
      <4>2. PlanFits(book, draft, at)
        BY <2>6, <4>1 DEF DraftFits
      <4>3. \A s \in 1 .. (at - 1) : ProfileIn(book, s) # ProfileIn(book, at)
        BY <4>1 DEF SeenBefore, ProfileIn, Profile
      <4>4. Q = Append(plans, draft)
        BY <2>1, <2>7, <3>1
      <4> QED
        BY <2>2, <2>3, <2>5, <4>2, <4>3, <4>4, PlansGrow
    <3>2. CASE ~Supported
      <4>1. ProfileIn(book, at) = NoProfile
        BY <3>2 DEF Supported, Profile, ProfileIn
      <4>2. Q = plans
        BY <2>1, <2>7, <3>2
      <4> QED
        BY <2>2, <2>3, <2>5, <4>1, <4>2, PlansSkip
    <3> QED
      BY <3>1, <3>2
  <2>9. ShapeInv'
    <3>1. Len(Q) <= Cardinality(AllProfiles)
      <4>1. at + 1 \in Nat /\ at + 1 > 0 /\ at + 1 <= Len(book) + 1
        BY <2>1, <2>4, <2>5
      <4> QED
        BY <2>3, <2>8, <4>1, PlansAreFew
    <3>2. at' \in 0 .. (MaxSheets + 1)
      BY <2>1, <2>3, <2>4, <2>5
    <3>3. TypeOK'
      BY <2>1, <2>7, <3>1, <3>2 DEF WInv, ShapeInv, TypeOK
    <3> QED
      BY <2>1, <2>7, <2>8, <3>3 DEF WInv, ShapeInv
  <2>10. PreflightInv'
    <3>1. at' \in 1 .. (Len(book) + 1)
      BY <2>1, <2>4, <2>5
    <3>2. \A s \in DOMAIN book : s > at' => book[s].rows = <<>>
      BY <2>1, <2>2, <2>4, <2>5
    <3>3. at' <= Len(book) => DraftFits(book, at', draft')
      <4>1. SUFFICES ASSUME at' <= Len(book) PROVE DraftFits(book, at', draft')
        OBVIOUS
      <4>2. at' \in DOMAIN book /\ at' > at
        BY <2>1, <2>4, <2>5, <4>1
      <4>3. DOMAIN book[at'].rows = {}
        BY <2>2, <4>2, EmptyShape
      <4>4. HeadersIn(book, at') = {}
        BY <4>3 DEF HeadersIn
      <4> QED
        BY <2>1, <4>4 DEF DraftFits
    <3>4. ~(at' > Len(book)) => at' <= Len(book)
      BY <2>1, <2>4, <2>5
    <3>5. PlansBefore(book, plans', at')
      BY <2>1, <2>7, <2>8
    <3> QED
      BY <2>1, <2>2, <3>1, <3>2, <3>3, <3>4, <3>5 DEF PreflightInv
  <2>11. ArchiveInv' /\ LimitsInv' /\ AcceptedIsParsed' /\ UnopenedInv'
    BY <2>1 DEF WInv, ArchiveInv, LimitsInv, AcceptedIsParsed, UnopenedInv
  <2>12. BetweenInv' /\ ParseInv' /\ SinkInv'
    BY <2>1 DEF WInv, BetweenInv, ParseInv, SinkInv
  <2> QED
    BY <2>9, <2>10, <2>11, <2>12 DEF WInv
<1> QED
  BY <1>1, <1>2

\* The workbook is over: every profile has its sheet.
LEMMA EndOfWorkbookStep ==
    ASSUME WInv, EndOfWorkbook
    PROVE  WInv'
<1>1. CASE ~(AllProfiles \subseteq {ProfileForSheet[book[i].name] : i \in DOMAIN book})
  BY <1>1, RefuseStep DEF EndOfWorkbook
<1>2. CASE AllProfiles \subseteq {ProfileForSheet[book[i].name] : i \in DOMAIN book}
  <2>1. /\ phase = "preflight" /\ at > Len(book) /\ phase' = "planned"
        /\ at' = 0 /\ count' = NoCount
        /\ UNCHANGED <<archive, book, draft, plans, stored, line, emitted>>
    BY <1>2 DEF EndOfWorkbook
  <2>2. at \in 1 .. (Len(book) + 1) /\ PlansBefore(book, plans, at) /\ line = 0 /\ emitted = <<>>
    BY <2>1 DEF WInv, PreflightInv, BetweenInv
  <2>3. Len(book) \in Nat
    BY BookShape DEF WInv, ShapeInv
  <2>4. at = Len(book) + 1
    BY <2>1, <2>2, <2>3
  <2>5. AllProfiles \subseteq {ProfileIn(book, s) : s \in DOMAIN book}
    BY <1>2 DEF ProfileIn
  <2>6. PlansComplete(book, plans)
    BY <2>2, <2>4, <2>5 DEF PlansComplete
  <2>7. ShapeInv'
    <3>1. at' \in 0 .. (MaxSheets + 1)
      BY <2>1, WorkbookAssumption
    <3>2. /\ count'.rows \in 0 .. MaxRows /\ count'.cells \in 0 .. MaxCells
          /\ count' \in [rows: Nat, cells: Nat]
      BY <2>1, WorkbookAssumption DEF NoCount
    <3> QED
      BY <2>1, <3>1, <3>2 DEF WInv, ShapeInv, TypeOK, Phases
  <2>8. BetweenInv'
    BY <2>1, <2>2, <2>6 DEF BetweenInv
  <2>9. ArchiveInv' /\ LimitsInv' /\ AcceptedIsParsed'
    BY <2>1 DEF WInv, ArchiveInv, LimitsInv, AcceptedIsParsed
  <2>10. UnopenedInv' /\ PreflightInv' /\ ParseInv' /\ SinkInv'
    BY <2>1 DEF UnopenedInv, PreflightInv, ParseInv, SinkInv
  <2> QED
    BY <2>7, <2>8, <2>9, <2>10 DEF WInv
<1> QED
  BY <1>1, <1>2

-----------------------------------------------------------------------------
(* Between the passes *)

\* What is known of a plan that fits a sheet of a workbook.
LEMMA FittingParts ==
    ASSUME NEW b \in Seq(Sheet), NEW s \in DOMAIN b, NEW plan, PlanFits(b, plan, s)
    PROVE  \E r \in DOMAIN b[s].rows :
             /\ r \in Nat /\ r > 0 /\ IsHeader(b, s, r) /\ plan = PlanAt(b, s, r)
             /\ plan.headerRow = r /\ b[s].rows[r] \in Rows
             /\ RequiredFields[ProfileIn(b, s)] # {}
             /\ ~MissingColumns(ProfileIn(b, s), b[s].rows[r])
             /\ ~DuplicateColumn(ProfileIn(b, s), b[s].rows[r])
             /\ \A q \in DOMAIN b[s].rows :
                  q > r /\ ~EmptyCells(b[s].rows[q]) => ~Unclassified(plan, b[s].rows[q])
<1>1. PICK r \in DOMAIN b[s].rows :
         /\ IsHeader(b, s, r) /\ plan = PlanAt(b, s, r)
         /\ \A q \in DOMAIN b[s].rows :
              q > r /\ ~EmptyCells(b[s].rows[q]) => ~Unclassified(plan, b[s].rows[q])
  BY DEF PlanFits
<1>2. r \in Nat /\ r > 0 /\ b[s].rows[r] \in Rows /\ b[s].name \in SheetName
  BY BookShape
<1>3. RequiredFields[ProfileIn(b, s)] # {}
  BY <1>2, ProfileAssumption DEF PlanFits, ProfileIn
<1>4. plan.headerRow = r
  BY <1>1, PlanParts DEF PlanAt
<1>5. /\ ~MissingColumns(ProfileIn(b, s), b[s].rows[r])
      /\ ~DuplicateColumn(ProfileIn(b, s), b[s].rows[r])
  BY <1>1 DEF IsHeader, HeadersIn
<1> QED
  BY <1>1, <1>2, <1>3, <1>4, <1>5

\* A plan that fits a sheet is stored and comes back.
LEMMA FittingIsStored ==
    ASSUME NEW b \in Seq(Sheet), NEW s \in DOMAIN b, NEW plan, PlanFits(b, plan, s)
    PROVE  ValidStoredPlan(EncodedPlan(plan)) /\ DecodedPlan(EncodedPlan(plan)) = plan
<1>1. PICK r \in DOMAIN b[s].rows :
         /\ r \in Nat /\ r > 0 /\ IsHeader(b, s, r) /\ plan = PlanAt(b, s, r)
         /\ RequiredFields[ProfileIn(b, s)] # {}
         /\ ~MissingColumns(ProfileIn(b, s), b[s].rows[r])
         /\ ~DuplicateColumn(ProfileIn(b, s), b[s].rows[r])
  BY FittingParts
<1>2. plan = BuildSheetPlan(ProfileIn(b, s), b[s].name, s, r, b[s].rows[r])
  BY <1>1 DEF PlanAt
<1>3. s \in Nat /\ s > 0
  BY BookShape
<1>4. ProfileIn(b, s) # NoProfile /\ ProfileIn(b, s) = ProfileForSheet[b[s].name]
  BY DEF PlanFits, ProfileIn
<1>5. ValidStoredPlan(EncodedPlan(plan))
  BY <1>1, <1>2, <1>3, <1>4, BuiltPlanIsValid
<1> QED
  BY <1>2, <1>5, CodecIsFaithful

\* The sheets of the plans of a whole workbook.
LEMMA CompletePlans ==
    ASSUME NEW b \in Seq(Sheet), NEW P, IsSequence(P), PlansComplete(b, P)
    PROVE  /\ Len(P) \in Nat /\ DOMAIN P = 1 .. Len(P) /\ Len(b) \in Nat
           /\ Len(P) <= Cardinality(AllProfiles) /\ Len(P) <= Len(b)
           /\ \A i \in DOMAIN P : P[i].order \in DOMAIN b /\ PlanFits(b, P[i], P[i].order)
           /\ \A i, j \in DOMAIN P : P[i].order = P[j].order => i = j
           /\ \A i, j \in DOMAIN P : i < j => P[i].order < P[j].order
           /\ \A s \in DOMAIN b : ProfileIn(b, s) # NoProfile =>
                \E i \in DOMAIN P : P[i].order = s
<1>1. Len(b) \in Nat /\ DOMAIN b = 1 .. Len(b)
  BY BookShape
<1>2. PICK n \in Nat : n = Len(b) + 1 /\ n - 1 = Len(b) /\ n > 0
  BY <1>1
<1>3. PlansBefore(b, P, n)
  BY <1>2 DEF PlansComplete
<1>4. Len(P) <= Cardinality(AllProfiles) /\ Len(P) <= n - 1
  BY <1>2, <1>3, PlansAreFew
<1>5. /\ \A i \in DOMAIN P : P[i].order \in DOMAIN b /\ PlanFits(b, P[i], P[i].order)
      /\ \A i, j \in DOMAIN P : i < j => P[i].order < P[j].order
      /\ \A s \in DOMAIN b : ProfileIn(b, s) # NoProfile => \E i \in DOMAIN P : P[i].order = s
  BY <1>1, <1>2, <1>3 DEF PlansBefore
<1>6. \A i, j \in DOMAIN P : P[i].order = P[j].order => i = j
  BY <1>3, PlansDiffer
<1> QED
  BY <1>1, <1>2, <1>4, <1>5, <1>6, SequenceShape

\* The plans are encoded: the codec accepts every one.
LEMMA EncodeSheetPlansStep ==
    ASSUME WInv, EncodeSheetPlans
    PROVE  WInv'
<1>1. PICK P, E : P = plans /\ E = [i \in DOMAIN P |-> EncodedPlan(P[i])]
  OBVIOUS
<1>2. /\ phase = "planned" /\ stored' = E /\ plans' = <<>>
      /\ phase' = IF \A i \in DOMAIN P : ValidStoredPlan(E[i]) THEN "stored" ELSE "failed"
      /\ UNCHANGED <<archive, book, at, count, draft, line, emitted>>
  BY <1>1 DEF EncodeSheetPlans
<1>3. book \in Seq(Sheet) /\ IsSequence(P) /\ PlansComplete(book, P)
  BY <1>1, <1>2 DEF WInv, ShapeInv, BetweenInv
<1>4. /\ Len(P) \in Nat /\ DOMAIN P = 1 .. Len(P)
      /\ \A i \in DOMAIN P : P[i].order \in DOMAIN book /\ PlanFits(book, P[i], P[i].order)
  BY <1>3, CompletePlans
<1>5. \A i \in DOMAIN P : ValidStoredPlan(EncodedPlan(P[i])) /\ DecodedPlan(EncodedPlan(P[i])) = P[i]
  BY <1>3, <1>4, FittingIsStored
<1>6. DOMAIN E = DOMAIN P /\ \A i \in DOMAIN P : E[i] = EncodedPlan(P[i])
  BY <1>1
<1>7. phase' = "stored"
  BY <1>2, <1>5, <1>6
<1>8. IsSequence(E)
  <2>1. DOMAIN E = 1 .. Len(P) /\ E = [k \in 1 .. Len(P) |-> E[k]]
    BY <1>1, <1>4
  <2> QED
    BY <1>4, <2>1, FunctionShape
<1>9. [i \in DOMAIN E |-> DecodedPlan(E[i])] = P
  <2>1. P = [i \in DOMAIN P |-> P[i]]
    <3>1. PICK S : P \in Seq(S)
      BY <1>3 DEF IsSequence
    <3>2. P \in [1 .. Len(P) -> S]
      BY <3>1, LenProperties
    <3> QED
      BY <3>2
  <2>2. \A i \in DOMAIN P : DecodedPlan(E[i]) = P[i]
    BY <1>5, <1>6
  <2> QED
    BY <1>6, <2>1, <2>2
<1>10. IsFiniteSet(AllProfiles) /\ Cardinality(AllProfiles) \in Nat
  <2>1. AllProfiles \subseteq {ProfileForSheet[m] : m \in SheetName}
    BY ProfileAssumption DEF AllProfiles, Range
  <2> QED
    BY <2>1, ProfileAssumption, FS_Subset, FS_CardinalityType
<1>11. ShapeInv'
  <2>1. Len(plans') <= Cardinality(AllProfiles) /\ IsSequence(plans')
    BY <1>2, <1>10, EmptyShape
  <2>2. TypeOK'
    BY <1>2, <1>7, <2>1 DEF WInv, ShapeInv, TypeOK, Phases
  <2> QED
    BY <1>2, <1>8, <2>1, <2>2 DEF WInv, ShapeInv
<1>12. BetweenInv'
  <2>1. PlansComplete(book', [i \in DOMAIN stored' |-> DecodedPlan(stored'[i])])
    BY <1>2, <1>3, <1>9
  <2>2. \A i \in DOMAIN stored' : ValidStoredPlan(stored'[i])
    BY <1>2, <1>5, <1>6
  <2> QED
    BY <1>2, <1>7, <2>1, <2>2 DEF WInv, BetweenInv
<1>13. ArchiveInv' /\ LimitsInv' /\ AcceptedIsParsed'
  BY <1>2, <1>7 DEF WInv, ArchiveInv, LimitsInv, AcceptedIsParsed
<1>14. UnopenedInv' /\ PreflightInv' /\ ParseInv' /\ SinkInv'
  BY <1>7 DEF UnopenedInv, PreflightInv, ParseInv, SinkInv
<1> QED
  BY <1>11, <1>12, <1>13, <1>14 DEF WInv

\* Before its first row Parse has read nothing.
LEMMA NothingPassed ==
    ASSUME NEW b \in Seq(Sheet), NEW P, IsSequence(P)
    PROVE  PassedRows(b, P, 1, 0) = {} /\ PassedCells(b, P, 1, 0) = {}
<1>1. Len(P) \in Nat /\ DOMAIN P = 1 .. Len(P)
  BY SequenceShape
<1>2. \A s, r : r \in Nat /\ r > 0 => ~Passed(P, 1, 0, s, r)
  BY <1>1 DEF Passed
<1>3. \A x \in RowsOf(b) : x[2] \in Nat /\ x[2] > 0
  BY RowMember, BookShape
<1>4. \A x \in CellsOf(b) : x[2] \in Nat /\ x[2] > 0
  <2> SUFFICES ASSUME NEW x \in CellsOf(b) PROVE x[2] \in Nat /\ x[2] > 0
    OBVIOUS
  <2>1. <<x[1], x[2]>> \in RowsOf(b)
    BY CellMember
  <2>2. x[1] \in DOMAIN b /\ x[2] \in DOMAIN b[x[1]].rows
    BY <2>1, RowMember
  <2> QED
    BY <2>2, BookShape
<1> QED
  BY <1>2, <1>3, <1>4 DEF PassedRows, PassedCells

\* The plans are decoded: Parse starts.
LEMMA DecodeSheetPlansStep ==
    ASSUME WInv, DecodeSheetPlans
    PROVE  WInv'
<1>1. PICK P : P = [i \in DOMAIN stored |-> DecodedPlan(stored[i])]
  OBVIOUS
<1>2. /\ phase = "stored" /\ plans' = P /\ at' = 1
      /\ phase' = IF \A i \in DOMAIN stored : ValidStoredPlan(stored[i]) THEN "parsing" ELSE "failed"
      /\ UNCHANGED <<archive, book, count, draft, stored, line, emitted>>
  BY <1>1 DEF DecodeSheetPlans
<1>3. /\ book \in Seq(Sheet) /\ IsSequence(stored) /\ PlansComplete(book, P)
      /\ phase' = "parsing" /\ count = NoCount /\ line = 0 /\ emitted = <<>>
  BY <1>1, <1>2 DEF WInv, ShapeInv, BetweenInv
<1>4. IsSequence(P)
  <2>1. Len(stored) \in Nat /\ DOMAIN stored = 1 .. Len(stored)
    BY <1>3, SequenceShape
  <2>2. DOMAIN P = 1 .. Len(stored) /\ P = [k \in 1 .. Len(stored) |-> P[k]]
    BY <1>1, <2>1
  <2> QED
    BY <2>1, <2>2, FunctionShape
<1>5. /\ Len(P) \in Nat /\ DOMAIN P = 1 .. Len(P) /\ Len(P) <= Cardinality(AllProfiles)
      /\ \A i \in DOMAIN P : P[i].order \in DOMAIN book
  BY <1>3, <1>4, CompletePlans
<1>6. PassedRows(book, P, 1, 0) = {} /\ PassedCells(book, P, 1, 0) = {}
  BY <1>3, <1>4, NothingPassed
<1>7. ShapeInv'
  <2>1. at' \in 0 .. (MaxSheets + 1)
    BY <1>2, WorkbookAssumption
  <2>2. TypeOK'
    BY <1>2, <1>3, <1>5, <2>1 DEF WInv, ShapeInv, TypeOK, Phases
  <2> QED
    BY <1>2, <1>4, <2>2 DEF WInv, ShapeInv
<1>8. ParseInv'
  <2>1. at' \in 1 .. (Len(P) + 1)
    BY <1>2, <1>5
  <2>2. ASSUME at' <= Len(P) PROVE line' <= Len(book[P[at'].order].rows)
    <3>1. P[at'].order \in DOMAIN book
      BY <1>2, <1>5, <2>1, <2>2
    <3>2. Len(book[P[at'].order].rows) \in Nat
      BY <1>3, <3>1, BookShape
    <3> QED
      BY <1>2, <1>3, <3>2
  <2>3. Cardinality({}) = 0
    BY FS_EmptySet
  <2>4. /\ count'.cells = Cardinality(PassedCells(book, P, at', line'))
        /\ count'.rows <= Cardinality(PassedRows(book, P, at', line'))
    <3>1. at' = 1 /\ line' = 0 /\ count'.cells = 0 /\ count'.rows = 0
      BY <1>2, <1>3 DEF NoCount
    <3>2. Cardinality(PassedCells(book, P, 1, 0)) = 0 /\ Cardinality(PassedRows(book, P, 1, 0)) = 0
      BY <1>6, <2>3
    <3> QED
      BY <3>1, <3>2
  <2> QED
    BY <1>2, <1>3, <2>1, <2>2, <2>4 DEF ParseInv
<1>9. SinkInv'
  <2>1. DOMAIN <<>> = {}
    BY EmptyShape
  <2>2. SinkHas(book, P, {}, <<>>)
    BY <2>1 DEF SinkHas
  <2> QED
    BY <1>2, <1>3, <1>6, <2>2 DEF SinkInv
<1>10. ArchiveInv' /\ LimitsInv' /\ AcceptedIsParsed'
  BY <1>2, <1>3 DEF WInv, ArchiveInv, LimitsInv, AcceptedIsParsed
<1>11. UnopenedInv' /\ PreflightInv' /\ BetweenInv'
  BY <1>3 DEF UnopenedInv, PreflightInv, BetweenInv
<1> QED
  BY <1>7, <1>8, <1>9, <1>10, <1>11 DEF WInv

-----------------------------------------------------------------------------
(* The rows of Preflight *)

\* What a plan says of a sheet depends on that sheet alone.
LEMMA PlanFitsElsewhere ==
    ASSUME NEW b, NEW d, NEW s, d[s] = b[s], NEW plan, PlanFits(b, plan, s)
    PROVE  PlanFits(d, plan, s)
BY DEF PlanFits, IsHeader, HeadersIn, PlanAt, ProfileIn

\* A row more in sheet n leaves the plans before it alone.
LEMMA PlansUnmoved ==
    ASSUME NEW b, NEW d, NEW P, NEW n \in Nat, PlansBefore(b, P, n),
           \A s \in 1 .. (n - 1) : d[s] = b[s]
    PROVE  PlansBefore(d, P, n)
<1>1. \A s \in 1 .. (n - 1) : ProfileIn(d, s) = ProfileIn(b, s)
  BY DEF ProfileIn
<1>2. \A i \in DOMAIN P : P[i].order \in 1 .. (n - 1) /\ PlanFits(b, P[i], P[i].order)
  BY DEF PlansBefore
<1>3. \A i \in DOMAIN P : PlanFits(d, P[i], P[i].order)
  BY <1>2, PlanFitsElsewhere
<1> QED
  BY <1>1, <1>2, <1>3 DEF PlansBefore

\* The plan of the sheet that Preflight is in, after a row more.
LEMMA DraftGrows ==
    ASSUME NEW b, NEW d, NEW s \in Nat, s > 0, NEW columns, NEW n,
           RowAdded(b, d, s, columns, n), b[s].name \in SheetName,
           NEW pr, pr = ProfileIn(b, s),
           NEW old, DraftFits(b, s, old),
           ~EmptyCells(columns) /\ pr # NoProfile =>
               IF old = NoPlan /\ n <= MaxHeaderRows THEN ~DuplicateColumn(pr, columns)
               ELSE old # NoPlan => ~Unclassified(old, columns),
           NEW new,
           new = IF /\ ~EmptyCells(columns) /\ pr # NoProfile
                    /\ old = NoPlan /\ n <= MaxHeaderRows /\ ~MissingColumns(pr, columns)
                 THEN BuildSheetPlan(pr, b[s].name, s, n, columns) ELSE old
    PROVE  DraftFits(d, s, new)
<1> SUFFICES ASSUME n \in Nat, n > 0, s \in DOMAIN b, DOMAIN d = DOMAIN b,
                    \A t \in DOMAIN b : t # s => d[t] = b[t], d[s].name = b[s].name,
                    DOMAIN b[s].rows = 1 .. (n - 1), DOMAIN d[s].rows = 1 .. n,
                    d[s].rows[n] = columns,
                    \A r \in 1 .. (n - 1) : d[s].rows[r] = b[s].rows[r]
             PROVE  DraftFits(d, s, new)
  BY DEF RowAdded
<1>1. ProfileIn(d, s) = pr
  BY DEF ProfileIn
<1>2. \A r : r \in DOMAIN d[s].rows <=> r \in DOMAIN b[s].rows \/ r = n
  OBVIOUS
<1>3. \A r \in DOMAIN b[s].rows : d[s].rows[r] = b[s].rows[r] /\ r # n /\ r < n /\ r \in Nat
  OBVIOUS
<1>4. \A r : r \in HeadersIn(d, s) <=>
         r \in HeadersIn(b, s) \/ (r = n /\ n <= MaxHeaderRows /\ ~MissingColumns(pr, columns))
  BY <1>1, <1>2, <1>3 DEF HeadersIn
<1>5. CASE pr = NoProfile
  BY <1>1, <1>5 DEF DraftFits
<1>6. CASE pr # NoProfile /\ old = NoPlan
  <2>1. HeadersIn(b, s) = {}
    <3>1. ~PlanFits(b, NoPlan, s)
      BY FittingPlan
    <3> QED
      BY <1>6, <3>1 DEF DraftFits
  <2>2. CASE n <= MaxHeaderRows /\ ~MissingColumns(pr, columns)
    <3>1. RequiredFields[pr] # {}
      BY <1>6, ProfileAssumption DEF ProfileIn
    <3>2. ~EmptyCells(columns)
      BY <2>2, <3>1, EmptyMisses
    <3>3. new = BuildSheetPlan(pr, b[s].name, s, n, columns) /\ ~DuplicateColumn(pr, columns)
      BY <1>6, <2>2, <3>2
    <3>4. new = PlanAt(d, s, n)
      BY <1>1, <3>3 DEF PlanAt
    <3>5. n \in HeadersIn(d, s) /\ \A q \in HeadersIn(d, s) : n <= q
      BY <1>4, <2>1, <2>2
    <3>6. IsHeader(d, s, n) /\ n \in DOMAIN d[s].rows
      BY <1>1, <3>3, <3>5 DEF IsHeader
    <3>7. \A q \in DOMAIN d[s].rows : ~(q > n)
      OBVIOUS
    <3>8. PlanFits(d, new, s)
      BY <1>1, <1>6, <3>4, <3>6, <3>7 DEF PlanFits
    <3>9. new # NoPlan
      BY <3>8, FittingPlan
    <3> QED
      BY <1>1, <1>6, <3>8, <3>9 DEF DraftFits
  <2>3. CASE ~(n <= MaxHeaderRows /\ ~MissingColumns(pr, columns))
    <3>1. new = NoPlan
      BY <1>6, <2>3
    <3>2. HeadersIn(d, s) = {}
      BY <1>4, <2>1, <2>3
    <3> QED
      BY <1>1, <1>6, <3>1, <3>2 DEF DraftFits
  <2> QED
    BY <2>2, <2>3
<1>7. CASE pr # NoProfile /\ old # NoPlan
  <2>1. new = old /\ PlanFits(b, old, s)
    BY <1>7 DEF DraftFits
  <2>2. PICK r \in DOMAIN b[s].rows :
          /\ IsHeader(b, s, r) /\ old = PlanAt(b, s, r)
          /\ \A q \in DOMAIN b[s].rows :
               q > r /\ ~EmptyCells(b[s].rows[q]) => ~Unclassified(old, b[s].rows[q])
    BY <2>1 DEF PlanFits
  <2>3. r < n /\ r \in DOMAIN d[s].rows /\ d[s].rows[r] = b[s].rows[r]
    BY <1>2, <1>3
  <2>4. IsHeader(d, s, r)
    <3>1. r \in HeadersIn(d, s)
      BY <1>4, <2>2 DEF IsHeader
    <3>2. \A q \in HeadersIn(d, s) : r <= q
      BY <1>4, <2>2, <2>3 DEF IsHeader
    <3> QED
      BY <1>1, <2>2, <2>3, <3>1, <3>2 DEF IsHeader
  <2>5. old = PlanAt(d, s, r)
    BY <1>1, <2>2, <2>3 DEF PlanAt
  <2>6. \A q \in DOMAIN d[s].rows :
          q > r /\ ~EmptyCells(d[s].rows[q]) => ~Unclassified(old, d[s].rows[q])
    <3> SUFFICES ASSUME NEW q \in DOMAIN d[s].rows, q > r, ~EmptyCells(d[s].rows[q])
                 PROVE  ~Unclassified(old, d[s].rows[q])
      OBVIOUS
    <3>1. CASE q = n
      BY <1>7, <3>1
    <3>2. CASE q \in DOMAIN b[s].rows
      BY <1>3, <2>2, <3>2
    <3> QED
      BY <1>2, <3>1, <3>2
  <2>7. PlanFits(d, old, s)
    BY <1>1, <1>7, <2>3, <2>4, <2>5, <2>6 DEF PlanFits
  <2> QED
    BY <1>1, <1>7, <2>1, <2>7 DEF DraftFits
<1> QED
  BY <1>5, <1>6, <1>7

\* One row of the first pass.
LEMMA PreflightRowStep ==
    ASSUME WInv, NEW columns \in Rows, PreflightRow(columns)
    PROVE  WInv'
<1>1. PICK n : n = Len(book[at].rows) + 1
  OBVIOUS
<1>2. CASE RowRefused(n, columns)
  BY <1>1, <1>2, RefuseStep DEF PreflightRow
<1>3. CASE ~RowRefused(n, columns)
  <2>1. /\ phase = "preflight" /\ at <= Len(book) /\ n <= MaxSheetRows
        /\ book' = [book EXCEPT ![at].rows = Append(@, columns)]
        /\ count' = [rows |-> count.rows + 1, cells |-> count.cells + Len(columns)]
        /\ draft' = IF /\ ~EmptyCells(columns) /\ Supported /\ MayBeHeader(n)
                       /\ ~MissingColumns(Profile, columns)
                    THEN BuildSheetPlan(Profile, book[at].name, at, n, columns)
                    ELSE draft
        /\ UNCHANGED <<phase, archive, at, plans, stored, line, emitted>>
    BY <1>1, <1>3 DEF PreflightRow
  <2>2. /\ at \in 1 .. (Len(book) + 1) /\ count.rows = Cardinality(RowsOf(book))
        /\ count.cells = Cardinality(CellsOf(book)) /\ PlansBefore(book, plans, at)
        /\ \A s \in DOMAIN book : s > at => book[s].rows = <<>>
    BY <2>1 DEF WInv, PreflightInv
  <2>3. PICK b, s : b = book /\ s = at
    OBVIOUS
  <2>4. b \in Seq(Sheet) /\ Len(b) \in Nat /\ DOMAIN b = 1 .. Len(b)
    BY <2>3, BookShape DEF WInv, ShapeInv
  <2>5. s \in Nat /\ s > 0 /\ s \in DOMAIN b /\ s <= Len(b)
    BY <2>1, <2>2, <2>3, <2>4
  <2>6. PICK d : d = book' /\ d = WithRow(b, s, columns)
    BY <2>1, <2>3 DEF WithRow
  <2>7. /\ d \in Seq(Sheet) /\ Len(d) = Len(b) /\ Len(d[s].rows) = Len(b[s].rows) + 1
        /\ RowAdded(b, d, s, columns, Len(b[s].rows) + 1)
    BY <2>4, <2>5, <2>6, AddedRow
  <2>8. RowAdded(b, d, s, columns, n) /\ Len(d[s].rows) = n
    BY <1>1, <2>3, <2>7
  <2>9. /\ n \in Nat /\ n > 0 /\ DOMAIN d = DOMAIN b /\ d[s].name = b[s].name
        /\ \A t \in DOMAIN b : t # s => d[t] = b[t]
        /\ DOMAIN b[s].rows = 1 .. (n - 1) /\ DOMAIN d[s].rows = 1 .. n
        /\ d[s].rows[n] = columns /\ \A r \in 1 .. (n - 1) : d[s].rows[r] = b[s].rows[r]
    BY <2>8 DEF RowAdded
  <2>10. IsFiniteSet(RowsOf(b)) /\ IsFiniteSet(CellsOf(b))
    BY <2>3 DEF WInv, LimitsInv
  <2>11. /\ RowsOf(d) = RowsOf(b) \cup {<<s, n>>}
         /\ IsFiniteSet(RowsOf(d)) /\ Cardinality(RowsOf(d)) = Cardinality(RowsOf(b)) + 1
         /\ IsFiniteSet(CellsOf(d))
         /\ Cardinality(CellsOf(d)) = Cardinality(CellsOf(b)) + Len(columns)
    BY <2>8, <2>10, AddedPositions
  <2>12. /\ Cardinality(RowsOf(b)) \in Nat /\ Cardinality(CellsOf(b)) \in Nat /\ Len(columns) \in Nat
         /\ MaxRows \in Nat /\ MaxCells \in Nat
    BY <2>10, FS_CardinalityType, RowShape, WorkbookAssumption
  <2>13. /\ count'.rows = Cardinality(RowsOf(d)) /\ count'.rows \in 0 .. MaxRows
         /\ count'.cells = Cardinality(CellsOf(d)) /\ count'.cells \in 0 .. MaxCells
         /\ count' \in [rows: Nat, cells: Nat]
    <3>1. count.rows = Cardinality(RowsOf(b)) /\ count.cells = Cardinality(CellsOf(b))
      BY <2>2, <2>3
    <3>2. ~(count.rows + 1 > MaxRows) /\ ~(count.cells + Len(columns) > MaxCells)
      BY <1>3 DEF RowRefused
    <3> QED
      BY <2>1, <2>11, <2>12, <3>1, <3>2
  <2>14. LimitsInv'
    <3>1. \A x \in RowsOf(d) : ~AnyCellTooLong(d[x[1]].rows[x[2]])
      <4> SUFFICES ASSUME NEW x \in RowsOf(d) PROVE ~AnyCellTooLong(d[x[1]].rows[x[2]])
        OBVIOUS
      <4>1. CASE x = <<s, n>>
        BY <1>3, <2>9, <4>1 DEF RowRefused
      <4>2. CASE x \in RowsOf(b)
        <5>1. x[1] \in DOMAIN b /\ x[2] \in DOMAIN b[x[1]].rows
          BY <4>2, RowMember
        <5>2. d[x[1]].rows[x[2]] = b[x[1]].rows[x[2]]
          <6>1. CASE x[1] = s
            BY <2>9, <5>1, <6>1
          <6>2. CASE x[1] # s
            BY <2>9, <5>1, <6>2
          <6> QED
            BY <6>1, <6>2
        <5> QED
          BY <2>3, <4>2, <5>2 DEF WInv, LimitsInv
      <4> QED
        BY <2>11, <4>1, <4>2
    <3>2. Cardinality(RowsOf(d)) <= MaxRows /\ Cardinality(CellsOf(d)) <= MaxCells
      BY <2>13
    <3> QED
      BY <2>6, <2>11, <3>1, <3>2 DEF LimitsInv
  <2>15. ShapeInv'
    <3>1. \A t \in DOMAIN d : d[t].name \in SheetName /\ Range(d[t].rows) \subseteq Rows
      BY <2>7, BookShape
    <3>2. \A t \in DOMAIN d : Len(d[t].rows) <= MaxSheetRows
      <4> SUFFICES ASSUME NEW t \in DOMAIN d PROVE Len(d[t].rows) <= MaxSheetRows
        OBVIOUS
      <4>1. CASE t # s
        BY <2>3, <2>9, <4>1 DEF WInv, ShapeInv
      <4>2. CASE t = s
        BY <2>1, <2>8, <4>2
      <4> QED
        BY <4>1, <4>2
    <3>3. \A e \in Range(emitted') : e.sheet \in DOMAIN book'
      BY <2>1, <2>3, <2>6, <2>9 DEF WInv, ShapeInv, TypeOK
    <3>4. TypeOK'
      BY <2>1, <2>6, <2>13, <3>1, <3>3 DEF WInv, ShapeInv, TypeOK
    <3>5. d \in Seq(Sheet) /\ Len(d) <= MaxSheets
      BY <2>3, <2>7 DEF WInv, ShapeInv
    <3> QED
      BY <2>1, <2>6, <2>13, <3>2, <3>4, <3>5 DEF WInv, ShapeInv
  <2>16. DraftFits(d, s, draft')
    <3>1. PICK pr, old, new : pr = Profile /\ old = draft /\ new = draft'
      OBVIOUS
    <3>2. pr = ProfileIn(b, s) /\ (Supported <=> pr # NoProfile)
      BY <2>3, <3>1 DEF Profile, ProfileIn, Supported
    <3>3. DraftFits(b, s, old)
      <4>1. ~(at > Len(book))
        BY <2>3, <2>4, <2>5
      <4> QED
        BY <2>1, <2>3, <3>1, <4>1 DEF WInv, PreflightInv
    <3>4. ~EmptyCells(columns) /\ pr # NoProfile =>
               IF old = NoPlan /\ n <= MaxHeaderRows THEN ~DuplicateColumn(pr, columns)
               ELSE old # NoPlan => ~Unclassified(old, columns)
      BY <1>3, <3>1, <3>2 DEF RowRefused, MayBeHeader
    <3>5. new = IF /\ ~EmptyCells(columns) /\ pr # NoProfile
                   /\ old = NoPlan /\ n <= MaxHeaderRows /\ ~MissingColumns(pr, columns)
                THEN BuildSheetPlan(pr, b[s].name, s, n, columns) ELSE old
      BY <2>1, <2>3, <3>1, <3>2 DEF MayBeHeader
    <3>6. DraftFits(d, s, new)
      <4>1. b[s].name \in SheetName
        BY <2>4, <2>5, BookShape
      <4> QED
        BY <2>5, <2>8, <3>2, <3>3, <3>4, <3>5, <4>1, DraftGrows
    <3> QED
      BY <3>1, <3>6
  <2>17. PreflightInv'
    <3>1. PlansBefore(d, plans, s)
      <4>1. \A t \in 1 .. (s - 1) : d[t] = b[t]
        BY <2>4, <2>5, <2>9
      <4>2. PlansBefore(b, plans, s)
        BY <2>2, <2>3
      <4> QED
        BY <2>5, <4>1, <4>2, PlansUnmoved
    <3>2. \A t \in DOMAIN d : t > s => d[t].rows = <<>>
      <4> SUFFICES ASSUME NEW t \in DOMAIN d, t > s PROVE d[t].rows = <<>>
        OBVIOUS
      <4>1. t # s
        BY <2>5
      <4> QED
        BY <2>2, <2>3, <2>9, <4>1
    <3>3. s \in 1 .. (Len(d) + 1) /\ ~(s > Len(d))
      BY <2>4, <2>5, <2>7
    <3>4. at' = s /\ plans' = plans /\ phase' = "preflight" /\ book' = d
      BY <2>1, <2>3, <2>6
    <3> QED
      BY <2>13, <2>16, <3>1, <3>2, <3>3, <3>4 DEF PreflightInv
  <2>18. ArchiveInv' /\ AcceptedIsParsed' /\ UnopenedInv'
    BY <2>1 DEF WInv, ArchiveInv, AcceptedIsParsed, UnopenedInv
  <2>19. BetweenInv' /\ ParseInv' /\ SinkInv'
    BY <2>1 DEF WInv, BetweenInv, ParseInv, SinkInv
  <2> QED
    BY <2>14, <2>15, <2>17, <2>18, <2>19 DEF WInv
<1> QED
  BY <1>2, <1>3

-----------------------------------------------------------------------------
(* The second pass *)

\* After the last row of a sheet, the first row of the next one: nothing more is read.
LEMMA PassedSheets ==
    ASSUME NEW b \in Seq(Sheet), NEW P, IsSequence(P), NEW a \in DOMAIN P,
           P[a].order \in DOMAIN b, NEW n, n = Len(b[P[a].order].rows)
    PROVE  /\ PassedRows(b, P, a + 1, 0) = PassedRows(b, P, a, n)
           /\ PassedCells(b, P, a + 1, 0) = PassedCells(b, P, a, n)
<1>1. \A i \in DOMAIN P : i \in Nat
  BY SequenceShape
<1>2. n \in Nat
  BY BookShape
<1>3. \A s, r : <<s, r>> \in RowsOf(b) => r \in Nat /\ r > 0 /\ (s = P[a].order => r <= n)
  <2> SUFFICES ASSUME NEW s, NEW r, <<s, r>> \in RowsOf(b)
               PROVE  r \in Nat /\ r > 0 /\ (s = P[a].order => r <= n)
    OBVIOUS
  <2>1. s \in DOMAIN b /\ r \in DOMAIN b[s].rows
    BY RowMember
  <2> QED
    BY <2>1, BookShape
<1>4. \A s, r : <<s, r>> \in RowsOf(b) => (Passed(P, a + 1, 0, s, r) <=> Passed(P, a, n, s, r))
  BY <1>1, <1>2, <1>3, PassedSheet
<1>5. \A x \in RowsOf(b) : <<x[1], x[2]>> \in RowsOf(b)
  BY RowMember
<1>6. \A x \in CellsOf(b) : <<x[1], x[2]>> \in RowsOf(b)
  BY CellMember
<1> QED
  BY <1>4, <1>5, <1>6 DEF PassedRows, PassedCells

\* The next sheet of the second pass.
LEMMA ParseNextSheetStep ==
    ASSUME WInv, ParseNextSheet
    PROVE  WInv'
<1>1. /\ phase = "parsing" /\ at <= Len(plans) /\ line = Len(book[plans[at].order].rows)
      /\ at' = at + 1 /\ line' = 0
      /\ UNCHANGED <<phase, archive, book, count, draft, plans, stored, emitted>>
  BY DEF ParseNextSheet
<1>2. /\ PlansComplete(book, plans) /\ at \in 1 .. (Len(plans) + 1)
      /\ count.cells = Cardinality(PassedCells(book, plans, at, line))
      /\ count.rows <= Cardinality(PassedRows(book, plans, at, line))
      /\ SinkHas(book, plans, PassedRows(book, plans, at, line), emitted)
  BY <1>1 DEF WInv, ParseInv, SinkInv
<1>3. /\ book \in Seq(Sheet) /\ IsSequence(plans) /\ Len(book) <= MaxSheets
  BY DEF WInv, ShapeInv
<1>4. /\ Len(plans) \in Nat /\ DOMAIN plans = 1 .. Len(plans) /\ Len(book) \in Nat
      /\ Len(plans) <= Len(book) /\ \A i \in DOMAIN plans : plans[i].order \in DOMAIN book
  BY <1>2, <1>3, CompletePlans
<1>5. at \in Nat /\ at > 0 /\ at \in DOMAIN plans
  BY <1>1, <1>2, <1>4
<1>6. PassedRows(book, plans, at + 1, 0) = PassedRows(book, plans, at, line)
      /\ PassedCells(book, plans, at + 1, 0) = PassedCells(book, plans, at, line)
  BY <1>1, <1>3, <1>4, <1>5, PassedSheets
<1>7. ShapeInv'
  <2>1. at' \in 0 .. (MaxSheets + 1) /\ line' \in 0 .. MaxSheetRows
    BY <1>1, <1>3, <1>4, <1>5, WorkbookAssumption
  <2> QED
    BY <1>1, <2>1 DEF WInv, ShapeInv, TypeOK
<1>8. ParseInv'
  <2>1. at' \in 1 .. (Len(plans) + 1)
    BY <1>1, <1>4, <1>5
  <2>2. ASSUME at' <= Len(plans) PROVE line' <= Len(book[plans[at'].order].rows)
    <3>1. at' \in DOMAIN plans
      BY <1>4, <2>1, <2>2
    <3>2. Len(book[plans[at'].order].rows) \in Nat
      BY <1>3, <1>4, <3>1, BookShape
    <3> QED
      BY <1>1, <3>2
  <2>3. /\ count'.cells = Cardinality(PassedCells(book, plans, at', line'))
        /\ count'.rows <= Cardinality(PassedRows(book, plans, at', line'))
    BY <1>1, <1>2, <1>6
  <2> QED
    BY <1>1, <1>2, <2>1, <2>2, <2>3 DEF ParseInv
<1>9. SinkInv'
  BY <1>1, <1>2, <1>6 DEF SinkInv
<1>10. ArchiveInv' /\ LimitsInv' /\ AcceptedIsParsed'
  BY <1>1 DEF WInv, ArchiveInv, LimitsInv, AcceptedIsParsed
<1>11. UnopenedInv' /\ PreflightInv' /\ BetweenInv'
  BY <1>1 DEF UnopenedInv, PreflightInv, BetweenInv
<1> QED
  BY <1>7, <1>8, <1>9, <1>10, <1>11 DEF WInv

\* The end of the second pass.
LEMMA ParseEndsStep ==
    ASSUME WInv, ParseEnds
    PROVE  WInv'
<1>1. /\ phase = "parsing" /\ at > Len(plans) /\ phase' = "done"
      /\ UNCHANGED <<archive, book, at, count, draft, plans, stored, line, emitted>>
  BY DEF ParseEnds
<1>2. ShapeInv'
  BY <1>1 DEF WInv, ShapeInv, TypeOK, Phases
<1>3. ParseInv' /\ SinkInv'
  BY <1>1 DEF WInv, ParseInv, SinkInv
<1>4. ArchiveInv' /\ LimitsInv' /\ AcceptedIsParsed'
  BY <1>1 DEF WInv, ArchiveInv, LimitsInv, AcceptedIsParsed
<1>5. UnopenedInv' /\ PreflightInv' /\ BetweenInv'
  BY <1>1 DEF UnopenedInv, PreflightInv, BetweenInv
<1> QED
  BY <1>2, <1>3, <1>4, <1>5 DEF WInv

\* Parse reads next row n + 1, columns, of sheet s, whose plan is plan a of P.
ParseAt(b, P, a, n, s, columns) ==
    /\ b \in Seq(Sheet) /\ IsSequence(P) /\ PlansComplete(b, P)
    /\ a \in DOMAIN P /\ n \in Nat /\ s = P[a].order /\ s \in DOMAIN b
    /\ n + 1 \in DOMAIN b[s].rows /\ columns \in Rows /\ columns = b[s].rows[n + 1]

\* What one row more adds to the rows and cells that Parse has read.
LEMMA PassedCount ==
    ASSUME NEW b, NEW P, NEW a, NEW n, NEW s, NEW columns, ParseAt(b, P, a, n, s, columns),
           IsFiniteSet(RowsOf(b)), IsFiniteSet(CellsOf(b))
    PROVE  /\ PassedRows(b, P, a, n + 1) = PassedRows(b, P, a, n) \cup {<<s, n + 1>>}
           /\ Cardinality(PassedRows(b, P, a, n)) \in Nat
           /\ Cardinality(PassedRows(b, P, a, n + 1)) = Cardinality(PassedRows(b, P, a, n)) + 1
           /\ Cardinality(PassedRows(b, P, a, n + 1)) <= Cardinality(RowsOf(b))
           /\ Cardinality(PassedCells(b, P, a, n)) \in Nat
           /\ Cardinality(PassedCells(b, P, a, n + 1)) =
                Cardinality(PassedCells(b, P, a, n)) + Len(columns)
           /\ Cardinality(PassedCells(b, P, a, n + 1)) <= Cardinality(CellsOf(b))
<1> SUFFICES ASSUME NEW R, R = PassedRows(b, P, a, n), NEW T, T = PassedRows(b, P, a, n + 1),
                    NEW C, C = PassedCells(b, P, a, n), NEW D, D = PassedCells(b, P, a, n + 1),
                    b \in Seq(Sheet), IsSequence(P), PlansComplete(b, P), a \in DOMAIN P,
                    n \in Nat, s = P[a].order, s \in DOMAIN b, n + 1 \in DOMAIN b[s].rows,
                    columns \in Rows, columns = b[s].rows[n + 1]
             PROVE  /\ T = R \cup {<<s, n + 1>>}
                    /\ Cardinality(R) \in Nat /\ Cardinality(T) = Cardinality(R) + 1
                    /\ Cardinality(C) \in Nat /\ Cardinality(D) = Cardinality(C) + Len(columns)
                    /\ Cardinality(T) <= Cardinality(RowsOf(b))
                    /\ Cardinality(D) <= Cardinality(CellsOf(b))
  BY DEF ParseAt
<1>a. \A i \in DOMAIN P : i \in Nat
  BY SequenceShape
<1>b. \A i, j \in DOMAIN P : P[i].order = P[j].order => i = j
  BY CompletePlans
<1>c. \A t \in DOMAIN b : DOMAIN b[t].rows \subseteq Nat
  BY BookShape
<1>d. /\ \A x : x \in R <=> x \in RowsOf(b) /\ Passed(P, a, n, x[1], x[2])
      /\ \A x : x \in T <=> x \in RowsOf(b) /\ Passed(P, a, n + 1, x[1], x[2])
      /\ \A x : x \in C <=> x \in CellsOf(b) /\ Passed(P, a, n, x[1], x[2])
      /\ \A x : x \in D <=> x \in CellsOf(b) /\ Passed(P, a, n + 1, x[1], x[2])
  BY DEF PassedRows, PassedCells
<1>1. PICK m \in Nat : m = n + 1
  OBVIOUS
<1>2. \A x \in RowsOf(b) : x = <<x[1], x[2]>> /\ x[2] \in Nat
  BY <1>c, RowMember
<1>3. <<s, m>> \in RowsOf(b) /\ \A t, q : <<t, q>>[1] = t /\ <<t, q>>[2] = q
  BY <1>1, RowMember
<1>4. ~Passed(P, a, n, s, m)
  BY <1>1, <1>a, <1>b DEF Passed
<1>5. \A t, q : q \in Nat => (Passed(P, a, n + 1, t, q) <=>
                                Passed(P, a, n, t, q) \/ (t = s /\ q = m))
  BY <1>1, <1>a, <1>b, PassedRow
<1>6. T = R \cup {<<s, m>>} /\ <<s, m>> \notin R
  <2>1. \A x \in RowsOf(b) : x \in T <=> x \in R \/ x = <<s, m>>
    BY <1>2, <1>5, <1>d
  <2>2. <<s, m>> \notin R
    BY <1>3, <1>4, <1>d
  <2>3. \A x : x \in T <=> x \in R \/ x = <<s, m>>
    BY <1>3, <1>d, <2>1
  <2> QED
    BY <2>2, <2>3
<1>7. R \subseteq RowsOf(b) /\ T \subseteq RowsOf(b) /\ C \subseteq CellsOf(b) /\ D \subseteq CellsOf(b)
  BY <1>d
<1>8. /\ IsFiniteSet(R) /\ IsFiniteSet(C) /\ Cardinality(T) <= Cardinality(RowsOf(b))
      /\ Cardinality(D) <= Cardinality(CellsOf(b))
  BY <1>7, FS_Subset
<1>9. Cardinality(R) \in Nat /\ Cardinality(C) \in Nat
  BY <1>8, FS_CardinalityType
<1>10. Cardinality(T) = Cardinality(R) + 1
  BY <1>6, <1>8, FS_AddElement
<1>11. PICK k \in Nat : k = Len(columns) /\ DOMAIN columns = 1 .. k
  BY RowShape
<1>12. PICK S : S = CellsAt(s, m, k)
  OBVIOUS
<1>13. IsFiniteSet(S) /\ Cardinality(S) = k
  BY <1>12, CellCount
<1>14. D = C \cup S
  <2>1. ASSUME NEW t, NEW q, NEW c
        PROVE  <<t, q, c>> \in D <=> <<t, q, c>> \in C \/ <<t, q, c>> \in S
    <3>0. <<t, q, c>>[1] = t /\ <<t, q, c>>[2] = q
      OBVIOUS
    <3>1. <<t, q, c>> \in CellsOf(b) <=> <<t, q>> \in RowsOf(b) /\ c \in DOMAIN b[t].rows[q]
      BY CellMember
    <3>2. <<t, q, c>> \in S <=> t = s /\ q = m /\ c \in DOMAIN columns
      BY <1>11, <1>12 DEF CellsAt
    <3>3. <<t, q>> \in RowsOf(b) => q \in Nat
      BY <1>2
    <3>4. <<t, q, c>> \in D <=> <<t, q, c>> \in CellsOf(b) /\ Passed(P, a, n + 1, t, q)
      BY <1>d, <3>0
    <3>5. <<t, q, c>> \in C <=> <<t, q, c>> \in CellsOf(b) /\ Passed(P, a, n, t, q)
      BY <1>d, <3>0
    <3>6. t = s /\ q = m => (<<t, q, c>> \in CellsOf(b) <=> c \in DOMAIN columns)
      BY <1>1, <1>3, <3>1
    <3> QED
      BY <1>5, <3>1, <3>2, <3>3, <3>4, <3>5, <3>6
  <2>2. \A x \in D : x = <<x[1], x[2], x[3]>>
    BY <1>7, CellMember
  <2>3. \A x \in C : x = <<x[1], x[2], x[3]>>
    BY <1>7, CellMember
  <2>4. \A x \in S : x = <<x[1], x[2], x[3]>>
    BY <1>12 DEF CellsAt
  <2> QED
    BY <2>1, <2>2, <2>3, <2>4
<1>15. C \cap S = {}
  <2> SUFFICES ASSUME NEW x \in C, x \in S PROVE FALSE
    OBVIOUS
  <2>1. x[1] = s /\ x[2] = m
    BY <1>12 DEF CellsAt
  <2> QED
    BY <1>4, <1>d, <2>1
<1>16. Cardinality(D) = Cardinality(C) + k
  <2>1. Cardinality(C \cup S) = Cardinality(C) + Cardinality(S) - Cardinality(C \cap S)
    BY <1>8, <1>13, FS_Union
  <2>2. Cardinality(C \cap S) = 0
    BY <1>15, FS_EmptySet
  <2>3. PICK x \in Nat : x = Cardinality(C)
    BY <1>9
  <2>4. Cardinality(D) = x + k - 0
    BY <1>13, <1>14, <2>1, <2>2, <2>3
  <2> QED
    BY <2>3, <2>4
<1> QED
  BY <1>1, <1>6, <1>8, <1>9, <1>10, <1>11, <1>16

\* The sink after a row more: it follows the rows that were read before it.
LEMMA SinkGrows ==
    ASSUME NEW b, NEW P, NEW a, NEW n, NEW s, NEW columns, ParseAt(b, P, a, n, s, columns),
           NEW E, IsSequence(E), SinkHas(b, P, PassedRows(b, P, a, n), E),
           NEW F, F = IF Emits(P[a], n + 1, columns)
                      THEN Append(E, ExtractSourceRow(P[a], n + 1, columns)) ELSE E
    PROVE  /\ SinkHas(b, P, PassedRows(b, P, a, n) \cup {<<s, n + 1>>}, F)
           /\ IsSequence(F)
<1> SUFFICES ASSUME NEW R, R = PassedRows(b, P, a, n), NEW T, T = R \cup {<<s, n + 1>>},
                    b \in Seq(Sheet), IsSequence(P), PlansComplete(b, P), a \in DOMAIN P,
                    n \in Nat, s = P[a].order, s \in DOMAIN b,
                    columns \in Rows, columns = b[s].rows[n + 1], SinkHas(b, P, R, E)
             PROVE  SinkHas(b, P, T, F) /\ IsSequence(F)
  BY DEF ParseAt
<1>1. /\ \A i, j \in DOMAIN P : P[i].order = P[j].order => i = j
      /\ \A i, j \in DOMAIN P : i < j => P[i].order < P[j].order
      /\ \A i \in DOMAIN P : i \in Nat /\ PlanFits(b, P[i], P[i].order)
  BY CompletePlans
<1>2. PICK m \in Nat : m = n + 1 /\ columns = b[s].rows[m]
  OBVIOUS
<1>3. <<s, m>>[1] = s /\ <<s, m>>[2] = m
  OBVIOUS
<1>4. YieldsRow(b, P, <<s, m>>) <=> Emits(P[a], m, columns)
  BY <1>1, <1>2, <1>3 DEF YieldsRow
<1>5. CASE ~Emits(P[a], m, columns)
  <2>1. F = E
    BY <1>2, <1>5
  <2>2. \A k \in DOMAIN E : Source(E[k]) \in T /\ IsSourceRow(b, P, E[k])
    BY DEF SinkHas
  <2>3. \A j, k \in DOMAIN E : j < k => Precedes(Source(E[j]), Source(E[k]))
    BY DEF SinkHas
  <2>4. \A x \in T : YieldsRow(b, P, x) => \E k \in DOMAIN E : Source(E[k]) = x
    BY <1>2, <1>4, <1>5 DEF SinkHas
  <2> QED
    BY <2>1, <2>2, <2>3, <2>4 DEF SinkHas
<1>6. CASE Emits(P[a], m, columns)
  <2>1. PICK e : e = ExtractSourceRow(P[a], m, columns)
    OBVIOUS
  <2>2. F = Append(E, e)
    BY <1>2, <1>6, <2>1
  <2>3. /\ IsSequence(F) /\ Len(E) \in Nat /\ DOMAIN E = 1 .. Len(E)
        /\ DOMAIN F = 1 .. (Len(E) + 1) /\ F[Len(E) + 1] = e
        /\ \A k \in DOMAIN E : F[k] = E[k]
    BY <2>2, AppendShape
  <2>4. \A k \in DOMAIN F : k \in DOMAIN E \/ k = Len(E) + 1
    BY <2>3
  <2>5. e.sheet = s /\ e.row = m
    BY <2>1, SourceParts
  <2>6. Source(e) = <<s, m>> /\ Source(e) \in T
    BY <1>2, <2>5 DEF Source
  <2>7. IsSourceRow(b, P, e)
    BY <1>2, <1>6, <2>1, <2>5 DEF IsSourceRow
  <2>8. \A k \in DOMAIN E : Source(E[k]) \in R /\ IsSourceRow(b, P, E[k])
    BY DEF SinkHas
  <2>9. \A k \in DOMAIN F : Source(F[k]) \in T /\ IsSourceRow(b, P, F[k])
    BY <2>3, <2>4, <2>6, <2>7, <2>8
  <2>10. \A x \in R : Precedes(x, <<s, m>>)
    <3> SUFFICES ASSUME NEW x \in R PROVE Precedes(x, <<s, m>>)
      OBVIOUS
    <3>1. x \in RowsOf(b) /\ Passed(P, a, n, x[1], x[2])
      BY DEF PassedRows
    <3>2. PICK i \in DOMAIN P : P[i].order = x[1] /\ (i < a \/ (i = a /\ x[2] <= n))
      BY <3>1 DEF Passed
    <3>3. x[2] \in Nat
      BY <3>1, RowMember, BookShape
    <3>4. CASE i < a
      BY <1>1, <3>2, <3>4 DEF Precedes
    <3>5. CASE i = a /\ x[2] <= n
      <4>1. x[1] = s /\ x[2] < m
        BY <1>2, <3>2, <3>3, <3>5
      <4> QED
        BY <4>1 DEF Precedes
    <3> QED
      BY <3>2, <3>4, <3>5
  <2>11. \A j, k \in DOMAIN F : j < k => Precedes(Source(F[j]), Source(F[k]))
    <3> SUFFICES ASSUME NEW j \in DOMAIN F, NEW k \in DOMAIN F, j < k
                 PROVE  Precedes(Source(F[j]), Source(F[k]))
      OBVIOUS
    <3>1. j \in DOMAIN E
      BY <2>3
    <3>2. CASE k \in DOMAIN E
      BY <2>3, <3>1, <3>2 DEF SinkHas
    <3>3. CASE k = Len(E) + 1
      BY <2>3, <2>6, <2>8, <2>10, <3>1, <3>3
    <3> QED
      BY <2>4, <3>2, <3>3
  <2>12. \A x \in T : YieldsRow(b, P, x) => \E k \in DOMAIN F : Source(F[k]) = x
    <3> SUFFICES ASSUME NEW x \in T, YieldsRow(b, P, x)
                 PROVE  \E k \in DOMAIN F : Source(F[k]) = x
      OBVIOUS
    <3>1. CASE x \in R
      <4>1. PICK k \in DOMAIN E : Source(E[k]) = x
        BY <3>1 DEF SinkHas
      <4>2. k \in DOMAIN F
        BY <2>3
      <4> QED
        BY <2>3, <4>1, <4>2
    <3>2. CASE x = <<s, m>>
      <4>1. Len(E) + 1 \in DOMAIN F
        BY <2>3
      <4> QED
        BY <2>3, <2>6, <3>2, <4>1
    <3> QED
      BY <1>2, <3>1, <3>2
  <2> QED
    BY <2>3, <2>9, <2>11, <2>12 DEF SinkHas
<1> QED
  BY <1>5, <1>6

\* One row of the second pass: it is never refused.
LEMMA ParseRowStep ==
    ASSUME WInv, ParseRow
    PROVE  WInv'
<1>1. PICK b, P, a, n, s, columns :
         /\ b = book /\ P = plans /\ a = at /\ n = line
         /\ s = P[a].order /\ columns = b[s].rows[n + 1]
  OBVIOUS
<1>2. /\ phase = "parsing" /\ a <= Len(P) /\ n < Len(b[s].rows)
      /\ phase' = IF ParseRefused(P[a], n + 1, columns) THEN "failed" ELSE phase
      /\ line' = n + 1
      /\ count' = [rows  |-> count.rows + (IF Emits(P[a], n + 1, columns) THEN 1 ELSE 0),
                   cells |-> count.cells + Len(columns)]
      /\ emitted' = IF Emits(P[a], n + 1, columns) /\ ~ParseRefused(P[a], n + 1, columns)
                    THEN Append(emitted, ExtractSourceRow(P[a], n + 1, columns))
                    ELSE emitted
      /\ UNCHANGED <<archive, book, at, draft, plans, stored>>
  BY <1>1 DEF ParseRow
<1>3. /\ b \in Seq(Sheet) /\ IsSequence(P) /\ IsSequence(emitted)
      /\ \A t \in DOMAIN b : Len(b[t].rows) <= MaxSheetRows
      /\ count.rows \in Nat /\ count.cells \in Nat
  BY <1>1 DEF WInv, ShapeInv
<1>4. /\ PlansComplete(b, P) /\ a \in 1 .. (Len(P) + 1) /\ n \in Nat
      /\ count.cells = Cardinality(PassedCells(b, P, a, n))
      /\ count.rows <= Cardinality(PassedRows(b, P, a, n))
      /\ SinkHas(b, P, PassedRows(b, P, a, n), emitted)
  BY <1>1, <1>2 DEF WInv, ParseInv, SinkInv
<1>5. /\ IsFiniteSet(RowsOf(b)) /\ Cardinality(RowsOf(b)) <= MaxRows
      /\ IsFiniteSet(CellsOf(b)) /\ Cardinality(CellsOf(b)) <= MaxCells
      /\ \A x \in RowsOf(b) : ~AnyCellTooLong(b[x[1]].rows[x[2]])
  BY <1>1 DEF WInv, LimitsInv
<1>6. /\ Len(P) \in Nat /\ DOMAIN P = 1 .. Len(P)
      /\ \A i \in DOMAIN P : P[i].order \in DOMAIN b /\ PlanFits(b, P[i], P[i].order)
  BY <1>3, <1>4, CompletePlans
<1>7. a \in DOMAIN P
  BY <1>2, <1>4, <1>6
<1>8. s \in DOMAIN b /\ PlanFits(b, P[a], s)
  BY <1>1, <1>6, <1>7
<1>9. /\ Len(b[s].rows) \in Nat /\ DOMAIN b[s].rows = 1 .. Len(b[s].rows)
      /\ \A r \in DOMAIN b[s].rows : b[s].rows[r] \in Rows
  BY <1>3, <1>8, BookShape
<1>10. n + 1 \in DOMAIN b[s].rows /\ n + 1 <= Len(b[s].rows)
  BY <1>2, <1>4, <1>9
<1>11. columns \in Rows /\ Len(columns) \in Nat
  BY <1>1, <1>9, <1>10, RowShape
<1>x. ParseAt(b, P, a, n, s, columns)
  BY <1>1, <1>3, <1>4, <1>7, <1>8, <1>10, <1>11 DEF ParseAt
<1>12. PICK R, T, C, D :
         /\ R = PassedRows(b, P, a, n) /\ T = PassedRows(b, P, a, n + 1)
         /\ C = PassedCells(b, P, a, n) /\ D = PassedCells(b, P, a, n + 1)
  OBVIOUS
<1>13. /\ T = R \cup {<<s, n + 1>>}
       /\ Cardinality(R) \in Nat /\ Cardinality(T) = Cardinality(R) + 1
       /\ Cardinality(C) \in Nat /\ Cardinality(D) = Cardinality(C) + Len(columns)
       /\ Cardinality(T) <= Cardinality(RowsOf(b)) /\ Cardinality(D) <= Cardinality(CellsOf(b))
  BY <1>5, <1>x, <1>12, PassedCount
<1>14. /\ Cardinality(RowsOf(b)) \in Nat /\ Cardinality(CellsOf(b)) \in Nat
       /\ MaxRows \in Nat /\ MaxCells \in Nat
  BY <1>5, FS_CardinalityType, WorkbookAssumption
<1>15. /\ count.cells + Len(columns) = Cardinality(D) /\ count.cells + Len(columns) <= MaxCells
       /\ count.rows + 1 <= Cardinality(T) /\ count.rows + 1 <= MaxRows
  <2>1. count.cells = Cardinality(C) /\ count.rows <= Cardinality(R)
    BY <1>4, <1>12
  <2> QED
    BY <1>3, <1>5, <1>11, <1>13, <1>14, <2>1
<1>16. ~ParseRefused(P[a], n + 1, columns)
  <2>1. ~AnyCellTooLong(columns)
    <3>1. <<s, n + 1>> \in RowsOf(b)
      BY <1>8, <1>10, RowMember
    <3> QED
      BY <1>1, <1>5, <3>1
  <2>2. n + 1 > P[a].headerRow /\ ~EmptyCells(columns) => ~Unclassified(P[a], columns)
    <3>1. PICK r \in DOMAIN b[s].rows :
            /\ P[a].headerRow = r
            /\ \A q \in DOMAIN b[s].rows :
                 q > r /\ ~EmptyCells(b[s].rows[q]) => ~Unclassified(P[a], b[s].rows[q])
      BY <1>3, <1>8, FittingParts
    <3> QED
      BY <1>1, <1>10, <3>1
  <2>3. ~(count.cells + Len(columns) > MaxCells) /\ ~(count.rows + 1 > MaxRows)
    BY <1>3, <1>11, <1>14, <1>15
  <2> QED
    BY <2>1, <2>2, <2>3 DEF ParseRefused
<1>17. /\ phase' = "parsing" /\ line' = n + 1 /\ at' = a /\ plans' = P /\ book' = b
       /\ emitted' = IF Emits(P[a], n + 1, columns)
                     THEN Append(emitted, ExtractSourceRow(P[a], n + 1, columns)) ELSE emitted
  BY <1>1, <1>2, <1>16
<1>18. SinkHas(b, P, T, emitted') /\ IsSequence(emitted')
  <2>1. PICK E, F : E = emitted /\ F = emitted'
    OBVIOUS
  <2>2. F = IF Emits(P[a], n + 1, columns)
            THEN Append(E, ExtractSourceRow(P[a], n + 1, columns)) ELSE E
    BY <1>17, <2>1
  <2>3. SinkHas(b, P, PassedRows(b, P, a, n), E) /\ IsSequence(E)
    BY <1>3, <1>4, <2>1
  <2>4. SinkHas(b, P, PassedRows(b, P, a, n) \cup {<<s, n + 1>>}, F) /\ IsSequence(F)
    BY <1>x, <2>2, <2>3, SinkGrows
  <2> QED
    BY <1>12, <1>13, <2>1, <2>4
<1>19. /\ count'.cells = Cardinality(D) /\ count'.cells \in 0 .. MaxCells
       /\ count'.rows <= Cardinality(T) /\ count'.rows \in 0 .. MaxRows
       /\ count' \in [rows: Nat, cells: Nat]
  <2>1. CASE Emits(P[a], n + 1, columns)
    <3>1. count' = [rows |-> count.rows + 1, cells |-> count.cells + Len(columns)]
      BY <1>2, <2>1
    <3> QED
      BY <1>3, <1>11, <1>14, <1>15, <3>1
  <2>2. CASE ~Emits(P[a], n + 1, columns)
    <3>1. count' = [rows |-> count.rows, cells |-> count.cells + Len(columns)]
      <4>1. count.rows + 0 = count.rows
        BY <1>3
      <4> QED
        BY <1>2, <2>2, <4>1
    <3>2. count.rows <= Cardinality(T) /\ count.rows <= MaxRows
      BY <1>3, <1>13, <1>14, <1>15
    <3> QED
      BY <1>3, <1>11, <1>14, <1>15, <3>1, <3>2
  <2> QED
    BY <2>1, <2>2
<1>20. ShapeInv'
  <2>1. line' \in 0 .. MaxSheetRows
    <3>1. Len(b[s].rows) <= MaxSheetRows /\ MaxSheetRows \in Nat
      BY <1>3, <1>8, WorkbookAssumption
    <3> QED
      BY <1>4, <1>9, <1>10, <1>17, <3>1
  <2>2. \A e \in Range(emitted') : e.sheet \in DOMAIN book'
    <3> SUFFICES ASSUME NEW k \in DOMAIN emitted' PROVE emitted'[k].sheet \in DOMAIN b
      BY <1>17 DEF Range
    <3>1. Source(emitted'[k]) \in T
      BY <1>18 DEF SinkHas
    <3>2. <<emitted'[k].sheet, emitted'[k].row>> \in RowsOf(b)
      BY <1>12, <3>1 DEF Source, PassedRows
    <3> QED
      BY <3>2, RowMember
  <2>3. TypeOK'
    BY <1>2, <1>17, <1>19, <2>1, <2>2 DEF WInv, ShapeInv, TypeOK, Phases
  <2> QED
    BY <1>2, <1>17, <1>18, <1>19, <2>3 DEF WInv, ShapeInv
<1>21. ParseInv'
  <2>1. n + 1 \in Nat /\ ~(a > Len(P))
    BY <1>2, <1>4, <1>6
  <2>2. n + 1 <= Len(b[P[a].order].rows)
    BY <1>1, <1>10
  <2> QED
    BY <1>4, <1>12, <1>17, <1>19, <2>1, <2>2 DEF ParseInv
<1>22. SinkInv'
  BY <1>12, <1>17, <1>18 DEF SinkInv
<1>23. ArchiveInv' /\ LimitsInv' /\ AcceptedIsParsed'
  BY <1>2, <1>17 DEF WInv, ArchiveInv, LimitsInv, AcceptedIsParsed
<1>24. UnopenedInv' /\ PreflightInv' /\ BetweenInv'
  BY <1>17 DEF UnopenedInv, PreflightInv, BetweenInv
<1> QED
  BY <1>20, <1>21, <1>22, <1>23, <1>24 DEF WInv

-----------------------------------------------------------------------------
(* The theorems *)

\* The first state.
LEMMA InitInv == Init => WInv
<1> SUFFICES ASSUME Init PROVE WInv
  OBVIOUS
<1>1. /\ phase = "archive" /\ archive = NoArchive /\ book = <<>> /\ at = 0 /\ count = NoCount
      /\ draft = NoPlan /\ plans = <<>> /\ stored = <<>> /\ line = 0 /\ emitted = <<>>
  BY DEF Init
<1>2. <<>> \in Seq(Sheet) /\ IsSequence(<<>>) /\ Len(<<>>) = 0 /\ DOMAIN <<>> = {}
  BY EmptyShape, EmptySeq
<1>3. IsFiniteSet(AllProfiles) /\ Cardinality(AllProfiles) \in Nat
  <2>1. AllProfiles \subseteq {ProfileForSheet[m] : m \in SheetName}
    BY ProfileAssumption DEF AllProfiles, Range
  <2> QED
    BY <2>1, ProfileAssumption, FS_Subset, FS_CardinalityType
<1>4. ShapeInv
  <2>1. Range(<<>>) = {}
    BY <1>2 DEF Range
  <2>2. at \in 0 .. (MaxSheets + 1) /\ line \in 0 .. MaxSheetRows /\ Len(book) <= MaxSheets
    BY <1>1, <1>2, WorkbookAssumption
  <2>3. /\ archive.total \in 0 .. MaxUncompressedBytes /\ archive.parts \subseteq RequiredParts
    BY <1>1, WorkbookAssumption DEF NoArchive
  <2>4. /\ count.rows \in 0 .. MaxRows /\ count.cells \in 0 .. MaxCells
        /\ count \in [rows: Nat, cells: Nat]
    BY <1>1, WorkbookAssumption DEF NoCount
  <2>5. Len(plans) <= Cardinality(AllProfiles)
    BY <1>1, <1>2, <1>3
  <2>6. TypeOK
    BY <1>1, <1>2, <2>1, <2>2, <2>3, <2>4, <2>5 DEF TypeOK, Phases
  <2> QED
    BY <1>1, <1>2, <2>2, <2>4, <2>6 DEF ShapeInv
<1>5. ArchiveInv
  BY <1>1, WorkbookAssumption DEF ArchiveInv, NoArchive
<1>6. LimitsInv
  <2>1. RowsOf(<<>>) = {}
    BY <1>2, RowMember
  <2>2. CellsOf(<<>>) = {}
    BY <2>1, CellMember
  <2>3. IsFiniteSet({}) /\ Cardinality({}) = 0
    BY FS_EmptySet
  <2>4. MaxRows \in Nat /\ MaxCells \in Nat
    BY WorkbookAssumption
  <2>5. /\ IsFiniteSet(RowsOf(book)) /\ Cardinality(RowsOf(book)) <= MaxRows
        /\ IsFiniteSet(CellsOf(book)) /\ Cardinality(CellsOf(book)) <= MaxCells
    <3>1. /\ IsFiniteSet(RowsOf(book)) /\ Cardinality(RowsOf(book)) = 0
          /\ IsFiniteSet(CellsOf(book)) /\ Cardinality(CellsOf(book)) = 0
      BY <1>1, <2>1, <2>2, <2>3, Zenon
    <3> QED
      BY <2>4, <3>1
  <2>6. \A x \in RowsOf(book) : ~AnyCellTooLong(book[x[1]].rows[x[2]])
    BY <1>1, <2>1
  <2> QED
    BY <2>5, <2>6 DEF LimitsInv
<1>7. UnopenedInv /\ PreflightInv /\ BetweenInv /\ ParseInv /\ SinkInv /\ AcceptedIsParsed
  BY <1>1 DEF UnopenedInv, PreflightInv, BetweenInv, ParseInv, SinkInv, AcceptedIsParsed
<1> QED
  BY <1>4, <1>5, <1>6, <1>7 DEF WInv

\* A step that changes nothing keeps the invariant.
LEMMA StutterStep ==
    ASSUME WInv, UNCHANGED vars
    PROVE  WInv'
<1>1. ShapeInv'
  BY DEF WInv, ShapeInv, TypeOK, vars
<1>2. ArchiveInv' /\ LimitsInv' /\ AcceptedIsParsed' /\ UnopenedInv'
  BY DEF WInv, ArchiveInv, LimitsInv, AcceptedIsParsed, UnopenedInv, vars
<1>3. PreflightInv' /\ BetweenInv'
  BY DEF WInv, PreflightInv, BetweenInv, vars
<1>4. ParseInv' /\ SinkInv'
  BY DEF WInv, ParseInv, SinkInv, vars
<1> QED
  BY <1>1, <1>2, <1>3, <1>4 DEF WInv

\* The inductive invariant: both passes of Preflight and Parse keep it.
THEOREM WorkbookInvariance == Spec => []WInv
<1>1. WInv /\ [Next]_vars => WInv'
  <2> SUFFICES ASSUME WInv, [Next]_vars PROVE WInv'
    OBVIOUS
  <2>1. CASE \E kind \in EntryKinds, size \in 0 .. (2^ByteBits - 1) : ValidateEntry(kind, size)
    BY <2>1, ValidateEntryStep
  <2>2. CASE EndOfArchive
    BY <2>2, EndOfArchiveStep
  <2>3. CASE \E names \in SheetLists : OpenWorkbook(names)
    BY <2>3, OpenWorkbookStep
  <2>4. CASE \E columns \in Rows : PreflightRow(columns)
    BY <2>4, PreflightRowStep
  <2>5. CASE EndOfSheet
    BY <2>5, EndOfSheetStep
  <2>6. CASE EndOfWorkbook
    BY <2>6, EndOfWorkbookStep
  <2>7. CASE EncodeSheetPlans
    BY <2>7, EncodeSheetPlansStep
  <2>8. CASE DecodeSheetPlans
    BY <2>8, DecodeSheetPlansStep
  <2>9. CASE ParseRow
    BY <2>9, ParseRowStep
  <2>10. CASE ParseNextSheet
    BY <2>10, ParseNextSheetStep
  <2>11. CASE ParseEnds
    BY <2>11, ParseEndsStep
  <2>12. CASE UNCHANGED vars
    BY <2>12, StutterStep
  <2> QED
    BY <2>1, <2>2, <2>3, <2>4, <2>5, <2>6, <2>7, <2>8, <2>9, <2>10, <2>11, <2>12 DEF Next
<1> QED
  BY <1>1, InitInv, PTL DEF Spec

\* An archive that validateArchive accepts unpacks to at most MaxUncompressedBytes.
THEOREM ArchiveSafety == Spec => []ArchiveIsBounded
<1>1. WInv => ArchiveIsBounded
  BY WorkbookAssumption DEF WInv, ArchiveInv, ArchiveIsBounded
<1> QED
  BY <1>1, WorkbookInvariance, PTL

\* The header row of a sheet is the one that its plan was built from.
LEMMA HeaderIsFirst ==
    ASSUME book \in Seq(Sheet), NEW s \in DOMAIN book, NEW r, IsHeader(book, s, r)
    PROVE  HeaderRowOf(s) = r /\ HeaderOf(s) = book[s].rows[r]
<1>1. HeaderRows(s) = HeadersIn(book, s)
  BY DEF HeaderRows, HeadersIn, SheetProfileOf, ProfileIn
<1>2. \A q \in HeadersIn(book, s) : q \in Nat
  BY BookShape DEF HeadersIn
<1>3. r \in HeaderRows(s) /\ \A q \in HeaderRows(s) : r <= q
  BY <1>1 DEF IsHeader
<1>4. \A q \in HeaderRows(s) : (\A p \in HeaderRows(s) : q <= p) => q = r
  BY <1>1, <1>2, <1>3
<1>5. HeaderRowOf(s) = r
  BY <1>3, <1>4 DEF HeaderRowOf
<1> QED
  BY <1>5 DEF HeaderOf

\* In the second pass the plans are those of the file.
LEMMA PlansAreTheFiles ==
    ASSUME WInv, phase \in {"parsing", "done"}
    PROVE  /\ book \in Seq(Sheet) /\ IsSequence(plans) /\ PlansComplete(book, plans)
           /\ \A i \in DOMAIN plans :
                /\ plans[i].order \in DOMAIN book
                /\ PlanFits(book, plans[i], plans[i].order)
                /\ plans[i] = BuildSheetPlan(SheetProfileOf(plans[i].order),
                                 book[plans[i].order].name, plans[i].order,
                                 HeaderRowOf(plans[i].order), HeaderOf(plans[i].order))
<1>1. book \in Seq(Sheet) /\ IsSequence(plans) /\ PlansComplete(book, plans)
  BY DEF WInv, ShapeInv, ParseInv
<1>2. \A i \in DOMAIN plans :
        plans[i].order \in DOMAIN book /\ PlanFits(book, plans[i], plans[i].order)
  BY <1>1, CompletePlans
<1>3. ASSUME NEW i \in DOMAIN plans, NEW s, s = plans[i].order
      PROVE  plans[i] = BuildSheetPlan(SheetProfileOf(s), book[s].name, s,
                                       HeaderRowOf(s), HeaderOf(s))
  <2>1. PICK r : IsHeader(book, s, r) /\ plans[i] = PlanAt(book, s, r)
    BY <1>2, <1>3 DEF PlanFits
  <2>2. HeaderRowOf(s) = r /\ HeaderOf(s) = book[s].rows[r]
    BY <1>1, <1>2, <1>3, <2>1, HeaderIsFirst
  <2>3. SheetProfileOf(s) = ProfileIn(book, s)
    BY DEF SheetProfileOf, ProfileIn
  <2> QED
    BY <2>1, <2>2, <2>3 DEF PlanAt
<1> QED
  BY <1>1, <1>2, <1>3

\* The plans that come back from the database are right and suffice: Preflight's
\* counters, the codec and Parse agree, for every workbook that Preflight accepts.
THEOREM PlansSafety == Spec => []StoredPlansSuffice
<1>1. WInv => StoredPlansSuffice
  <2> SUFFICES ASSUME WInv PROVE StoredPlansSuffice
    OBVIOUS
  <2>1. TypeOK /\ AcceptedIsParsed
    BY DEF WInv, ShapeInv
  <2>2. ASSUME phase \in {"parsing", "done"}
        PROVE  /\ {plans[i].profile : i \in DOMAIN plans} = AllProfiles
               /\ \A i \in DOMAIN plans :
                     LET s == plans[i].order
                     IN plans[i] = BuildSheetPlan(SheetProfileOf(s), book[s].name, s,
                                                  HeaderRowOf(s), HeaderOf(s))
    <3>1. /\ book \in Seq(Sheet) /\ IsSequence(plans) /\ PlansComplete(book, plans)
          /\ \A i \in DOMAIN plans :
                /\ plans[i].order \in DOMAIN book
                /\ PlanFits(book, plans[i], plans[i].order)
                /\ plans[i] = BuildSheetPlan(SheetProfileOf(plans[i].order),
                                 book[plans[i].order].name, plans[i].order,
                                 HeaderRowOf(plans[i].order), HeaderOf(plans[i].order))
      BY <2>2, PlansAreTheFiles
    <3>2. \A i \in DOMAIN plans : plans[i].profile = ProfileIn(book, plans[i].order)
      BY <3>1, PlanParts DEF SheetProfileOf, ProfileIn
    <3>3. \A i \in DOMAIN plans : plans[i].profile \in AllProfiles
      <4> SUFFICES ASSUME NEW i \in DOMAIN plans PROVE plans[i].profile \in AllProfiles
        OBVIOUS
      <4>1. book[plans[i].order].name \in DOMAIN ProfileForSheet
        BY <3>1, BookShape, ProfileAssumption
      <4>2. ProfileIn(book, plans[i].order) # NoProfile
        BY <3>1 DEF PlanFits
      <4> QED
        BY <3>2, <4>1, <4>2 DEF ProfileIn, AllProfiles, Range
    <3>4. ASSUME NEW x \in AllProfiles PROVE \E i \in DOMAIN plans : plans[i].profile = x
      <4>1. PICK s \in DOMAIN book : x = ProfileIn(book, s)
        BY <3>1 DEF PlansComplete
      <4>2. x # NoProfile
        BY DEF AllProfiles
      <4>3. PICK i \in DOMAIN plans : plans[i].order = s
        BY <3>1, <4>1, <4>2, CompletePlans
      <4> QED
        BY <3>2, <4>1, <4>3
    <3>5. {plans[i].profile : i \in DOMAIN plans} = AllProfiles
      BY <3>3, <3>4
    <3> QED
      BY <3>1, <3>5
  <2> QED
    BY <2>1, <2>2 DEF StoredPlansSuffice, PlansMatchTheFile
<1> QED
  BY <1>1, WorkbookInvariance, PTL

\* The source row e of the sink, with the plan, header and row that it comes from.
LEMMA SinkRow ==
    ASSUME WInv, NEW k \in DOMAIN emitted
    PROVE  \E i \in DOMAIN plans :
             LET e == emitted[k]
                 s == e.sheet
             IN /\ plans[i].order = s /\ s \in DOMAIN book /\ e.row \in DOMAIN book[s].rows
                /\ HeaderOf(s) \in Rows /\ book[s].rows[e.row] \in Rows
                /\ plans[i] = BuildSheetPlan(SheetProfileOf(s), book[s].name, s,
                                             HeaderRowOf(s), HeaderOf(s))
                /\ e = ExtractSourceRow(plans[i], e.row, book[s].rows[e.row])
                /\ Emits(plans[i], e.row, book[s].rows[e.row])
<1>1. phase \in {"parsing", "done"}
  BY EmptyShape DEF WInv, BetweenInv
<1>2. PICK e, s : e = emitted[k] /\ s = e.sheet
  OBVIOUS
<1>3. Source(e) \in PassedRows(book, plans, at, line) /\ IsSourceRow(book, plans, e)
  BY <1>1, <1>2 DEF WInv, SinkInv, SinkHas
<1>4. PICK i \in DOMAIN plans :
        /\ plans[i].order = s
        /\ e = ExtractSourceRow(plans[i], e.row, book[s].rows[e.row])
        /\ Emits(plans[i], e.row, book[s].rows[e.row])
  BY <1>2, <1>3 DEF IsSourceRow
<1>5. <<s, e.row>> \in RowsOf(book)
  BY <1>2, <1>3 DEF Source, PassedRows
<1>6. s \in DOMAIN book /\ e.row \in DOMAIN book[s].rows
  BY <1>5, RowMember
<1>7. /\ book \in Seq(Sheet) /\ PlanFits(book, plans[i], s)
      /\ plans[i] = BuildSheetPlan(SheetProfileOf(s), book[s].name, s, HeaderRowOf(s), HeaderOf(s))
  BY <1>1, <1>4, PlansAreTheFiles
<1>8. PICK r \in DOMAIN book[s].rows : IsHeader(book, s, r)
  BY <1>7 DEF PlanFits
<1>9. HeaderOf(s) \in Rows /\ book[s].rows[e.row] \in Rows
  BY <1>6, <1>7, <1>8, HeaderIsFirst, BookShape
<1> QED
  BY <1>2, <1>4, <1>6, <1>7, <1>9

\* No value from below a header that names a secret is handed to the sink, when
\* isSecretHeader recognises the headers that name one; it may take others for
\* secret, too (isSecretHeader, buildSheetPlan, extractSourceRow).
THEOREM SecretsSafety == SecretsAreCaught => (Spec => []SecretsStayInTheFile)
<1> SUFFICES ASSUME SecretsAreCaught PROVE Spec => []SecretsStayInTheFile
  OBVIOUS
<1>1. WInv => SecretsStayInTheFile
  <2> SUFFICES ASSUME WInv, NEW e \in Range(emitted)
               PROVE  LET header == HeaderOf(e.sheet)
                          cells == book[e.sheet].rows[e.row]
                          From(words, value) ==
                              \E c \in DOMAIN header \cap DOMAIN cells :
                                  /\ header[c] \notin SecretCell
                                  /\ NormalizeLabel[header[c]] = words
                                  /\ cells[c] = value
                      IN /\ \A n \in DOMAIN e.extra : From(n, e.extra[n])
                         /\ \A f \in DOMAIN e.fields :
                              \E w \in DOMAIN FieldForHeader[SheetProfileOf(e.sheet)] :
                                  /\ FieldForHeader[SheetProfileOf(e.sheet)][w] = f
                                  /\ From(w, e.fields[f])
    BY DEF SecretsStayInTheFile
  <2>1. PICK k \in DOMAIN emitted : e = emitted[k]
    BY DEF Range
  <2>2. PICK header, cells, profile : /\ header = HeaderOf(e.sheet)
                                      /\ cells = book[e.sheet].rows[e.row]
                                      /\ profile = SheetProfileOf(e.sheet)
    OBVIOUS
  <2>3. PICK i \in DOMAIN plans :
          /\ header \in Rows /\ cells \in Rows
          /\ plans[i] = BuildSheetPlan(profile, book[e.sheet].name, e.sheet,
                                       HeaderRowOf(e.sheet), header)
          /\ e = ExtractSourceRow(plans[i], e.row, cells)
    BY <2>1, <2>2, SinkRow
  <2>4. PICK plan, name, top : /\ plan = BuildSheetPlan(profile, name, e.sheet, top, header)
                               /\ e = ExtractSourceRow(plan, e.row, cells)
    BY <2>3
  <2>5. /\ \A n \in DOMAIN e.extra : \E c \in DOMAIN header \cap DOMAIN cells :
             /\ header[c] \notin SecretCell
             /\ NormalizeLabel[header[c]] = n
             /\ cells[c] = e.extra[n]
        /\ \A f \in DOMAIN e.fields : \E w \in DOMAIN FieldForHeader[profile] :
             /\ FieldForHeader[profile][w] = f
             /\ \E c \in DOMAIN header \cap DOMAIN cells :
                  /\ header[c] \notin SecretCell
                  /\ NormalizeLabel[header[c]] = w
                  /\ cells[c] = e.fields[f]
    BY <2>3, <2>4, SourceHasNoSecrets
  <2> QED
    BY <2>2, <2>5
<1> QED
  BY <1>1, WorkbookInvariance, PTL

\* Parse hands on the rows that carry data, by the file's own account.
LEMMA EmitsCarriesData ==
    ASSUME SecretsAreRecognised, WInv, phase \in {"parsing", "done"},
           NEW i \in DOMAIN plans, NEW s, s = plans[i].order, NEW q \in DOMAIN book[s].rows
    PROVE  Emits(plans[i], q, book[s].rows[q]) <=> CarriesData(s, q)
<1>1. PICK plan, cells, headers, pr :
        /\ plan = plans[i] /\ cells = book[s].rows[q]
        /\ headers = HeaderOf(s) /\ pr = SheetProfileOf(s)
  OBVIOUS
<1>2. /\ book \in Seq(Sheet) /\ s \in DOMAIN book /\ PlanFits(book, plan, s)
      /\ plan = BuildSheetPlan(pr, book[s].name, s, HeaderRowOf(s), headers)
  BY <1>1, PlansAreTheFiles
<1>3. PICK r \in DOMAIN book[s].rows :
        /\ IsHeader(book, s, r) /\ plan.headerRow = r /\ book[s].rows[r] \in Rows
        /\ ~DuplicateColumn(ProfileIn(book, s), book[s].rows[r])
        /\ \A p \in DOMAIN book[s].rows :
             p > r /\ ~EmptyCells(book[s].rows[p]) => ~Unclassified(plan, book[s].rows[p])
  BY <1>2, FittingParts
<1>4. HeaderRowOf(s) = r /\ headers = book[s].rows[r]
  BY <1>1, <1>2, <1>3, HeaderIsFirst
<1>5. headers \in Rows /\ cells \in Rows /\ ~DuplicateColumn(pr, headers)
  <2>1. pr = ProfileIn(book, s)
    BY <1>1 DEF SheetProfileOf, ProfileIn
  <2> QED
    BY <1>1, <1>2, <1>3, <1>4, <2>1, BookShape
<1>6. CASE ~(q > r) \/ EmptyCells(cells)
  BY <1>1, <1>3, <1>4, <1>6 DEF Emits, CarriesData, EmptyCells
<1>7. CASE q > r /\ ~EmptyCells(cells)
  <2>1. ~Unclassified(plan, cells)
    BY <1>1, <1>3, <1>7
  <2>2. PICK name, order, top : plan = BuildSheetPlan(pr, name, order, top, headers)
    BY <1>2
  <2>3. ~SourceRowEmpty(ExtractSourceRow(plan, q, cells)) <=>
          \E c \in DOMAIN cells \cap DOMAIN headers : cells[c] # Blank /\ headers[c] \notin SecretCell
    BY <1>5, <2>1, <2>2, SourceHasData
  <2>4. Emits(plan, q, cells) <=> ~SourceRowEmpty(ExtractSourceRow(plan, q, cells))
    BY <1>3, <1>7 DEF Emits
  <2>5. CarriesData(s, q) <=>
          \E c \in DOMAIN cells \cap DOMAIN headers : cells[c] # Blank /\ headers[c] \notin SecretCell
    BY <1>1, <1>4, <1>7 DEF CarriesData
  <2> QED
    BY <1>1, <2>3, <2>4, <2>5
<1> QED
  BY <1>6, <1>7

\* The sink gets every data row once and in the order of the file, and no other row,
\* when isSecretHeader recognises the headers that name a secret.
THEOREM RowsSafety == SecretsAreRecognised => (Spec => []RowsFollowTheFile)
<1> SUFFICES ASSUME SecretsAreRecognised PROVE Spec => []RowsFollowTheFile
  OBVIOUS
<1>1. WInv => RowsFollowTheFile
  <2> SUFFICES ASSUME WInv PROVE RowsFollowTheFile
    OBVIOUS
  <2>1. ASSUME NEW i \in DOMAIN emitted, NEW j \in DOMAIN emitted, i < j
        PROVE  \/ emitted[i].sheet < emitted[j].sheet
               \/ emitted[i].sheet = emitted[j].sheet /\ emitted[i].row < emitted[j].row
    <3>1. phase \in {"parsing", "done"}
      BY EmptyShape DEF WInv, BetweenInv
    <3>2. Precedes(Source(emitted[i]), Source(emitted[j]))
      BY <2>1, <3>1 DEF WInv, SinkInv, SinkHas
    <3> QED
      BY <3>2 DEF Precedes, Source
  <2>2. ASSUME phase = "done", NEW k \in DOMAIN emitted, NEW s, NEW r,
               s = emitted[k].sheet, r = emitted[k].row
        PROVE  /\ s \in DOMAIN book /\ SheetProfileOf(s) # NoProfile
               /\ r \in DOMAIN book[s].rows /\ CarriesData(s, r)
    <3>1. PICK i \in DOMAIN plans : /\ plans[i].order = s /\ s \in DOMAIN book
                                    /\ r \in DOMAIN book[s].rows
                                    /\ Emits(plans[i], r, book[s].rows[r])
      BY <2>2, SinkRow
    <3>2. CarriesData(s, r)
      BY <2>2, <3>1, EmitsCarriesData
    <3>3. SheetProfileOf(s) # NoProfile
      BY <2>2, <3>1, PlansAreTheFiles DEF PlanFits, SheetProfileOf, ProfileIn
    <3> QED
      BY <3>1, <3>2, <3>3
  <2>3. ASSUME phase = "done", NEW s \in DOMAIN book, SheetProfileOf(s) # NoProfile,
               NEW r \in DOMAIN book[s].rows, CarriesData(s, r)
        PROVE  \E k \in DOMAIN emitted : Source(emitted[k]) = <<s, r>>
    <3>1. book \in Seq(Sheet) /\ IsSequence(plans) /\ PlansComplete(book, plans)
      BY <2>3, PlansAreTheFiles
    <3>2. PICK i \in DOMAIN plans : plans[i].order = s
      BY <2>3, <3>1, CompletePlans DEF SheetProfileOf, ProfileIn
    <3>3. Emits(plans[i], r, book[s].rows[r])
      BY <2>3, <3>2, EmitsCarriesData
    <3>4. YieldsRow(book, plans, <<s, r>>)
      BY <3>2, <3>3 DEF YieldsRow
    <3>5. i < at
      <4>1. at > Len(plans) /\ at \in 1 .. (Len(plans) + 1)
        BY <2>3 DEF WInv, ParseInv
      <4>2. Len(plans) \in Nat /\ DOMAIN plans = 1 .. Len(plans)
        BY <3>1, SequenceShape
      <4> QED
        BY <4>1, <4>2
    <3>6. <<s, r>> \in PassedRows(book, plans, at, line)
      <4>1. <<s, r>> \in RowsOf(book)
        BY <2>3, RowMember
      <4>2. Passed(plans, at, line, s, r)
        BY <3>2, <3>5 DEF Passed
      <4> QED
        BY <4>1, <4>2 DEF PassedRows
    <3> QED
      BY <2>3, <3>4, <3>6 DEF WInv, SinkInv, SinkHas
  <2>4. ASSUME phase = "done"
        PROVE  {<<e.sheet, e.row>> : e \in Range(emitted)}
                 = UNION {{<<s, r>> : r \in {q \in DOMAIN book[s].rows : CarriesData(s, q)}} :
                           s \in {t \in DOMAIN book : SheetProfileOf(t) # NoProfile}}
    <3>1. PICK A, B :
            /\ A = {<<e.sheet, e.row>> : e \in Range(emitted)}
            /\ B = UNION {{<<s, r>> : r \in {q \in DOMAIN book[s].rows : CarriesData(s, q)}} :
                           s \in {t \in DOMAIN book : SheetProfileOf(t) # NoProfile}}
      OBVIOUS
    <3>2. ASSUME NEW x \in A PROVE x \in B
      <4>1. PICK e \in Range(emitted) : x = <<e.sheet, e.row>>
        BY <3>1
      <4>2. PICK k \in DOMAIN emitted : e = emitted[k]
        BY DEF Range
      <4>3. PICK s, r : s = e.sheet /\ r = e.row
        OBVIOUS
      <4>4. /\ s \in DOMAIN book /\ SheetProfileOf(s) # NoProfile
            /\ r \in DOMAIN book[s].rows /\ CarriesData(s, r)
        BY <2>2, <2>4, <4>2, <4>3
      <4>5. <<s, r>> \in B
        BY <3>1, <4>4
      <4> QED
        BY <4>1, <4>3, <4>5
    <3>3. ASSUME NEW x \in B PROVE x \in A
      <4>1. PICK s \in DOMAIN book : /\ SheetProfileOf(s) # NoProfile
                                     /\ \E r \in DOMAIN book[s].rows : CarriesData(s, r) /\ x = <<s, r>>
        BY <3>1
      <4>2. PICK r \in DOMAIN book[s].rows : CarriesData(s, r) /\ x = <<s, r>>
        BY <4>1
      <4>3. PICK k \in DOMAIN emitted : Source(emitted[k]) = <<s, r>>
        BY <2>3, <2>4, <4>1, <4>2
      <4>4. emitted[k] \in Range(emitted) /\ x = <<emitted[k].sheet, emitted[k].row>>
        BY <4>2, <4>3 DEF Source, Range
      <4> QED
        BY <3>1, <4>4
    <3> QED
      BY <3>1, <3>2, <3>3
  <2> QED
    BY <2>1, <2>4 DEF RowsFollowTheFile
<1> QED
  BY <1>1, WorkbookInvariance, PTL

=============================================================================
