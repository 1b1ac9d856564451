-------------------------- MODULE DocumentArchive --------------------------
(***************************************************************************)
(* The DOCX archive of a registry set: CreateDocx makes one document per   *)
(* program code (backend/documents/legacy/gen_docx.go), and zipDocs names  *)
(* the entries by a list of codes that it computes on its own              *)
(* (backend/documents/docx.go).                                            *)
(***************************************************************************)
EXTENDS Documents, FiniteSets, Functions

\* The i-th element of a set of numbers, in ascending order.
NthOf(S, i) == CHOOSE k \in S : Cardinality({j \in S : j <= k}) = i

\* What a loop over s keeps when it keeps the elements at positions P.
KeptBy(s, P) == [i \in 1 .. Cardinality(P) |-> s[NthOf(P, i)]]

Codes(set) == {set[n].code : n \in DOMAIN set}

\* The group of a code: its records, in the order of the set.
RecordsWith(set, k) == KeptBy(set, {n \in DOMAIN set : set[n].code = k})

\* CreateDocx: the groups, in the order of their sorted keys.
CreateDocx(set) ==
    [i \in 1 .. Cardinality(Codes(set)) |-> RecordsWith(set, NthOf(Codes(set), i))]

\* The positions of the records whose code no earlier record has: the others are
\* skipped, their code is in seen.
FirstSeen(set) ==
    {n \in DOMAIN set : \A m \in 1 .. (n - 1) : set[m].code # set[n].code}

\* The codes in the order in which they appear first.
ProgramKeys(set) ==
    LET kept == KeptBy(set, FirstSeen(set)) IN [i \in DOMAIN kept |-> kept[i].code]

\* The place of keys[j] after the insertion sort: a key passes the keys before it
\* that are greater and stops behind the others.
Place(keys, j) ==
    Cardinality({m \in DOMAIN keys : keys[m] < keys[j] \/ (keys[m] = keys[j] /\ m <= j)})

\* Mutant: the keys are not sorted.
UnsortedProgramKeys(set) == ProgramKeys(set)

SortedProgramKeys(set) ==
    LET keys == ProgramKeys(set)
    IN  [i \in DOMAIN keys |-> keys[CHOOSE j \in DOMAIN keys : Place(keys, j) = i]]

\* zipDocs: entry i gets key i as its name.
ZipDocs(set) ==
    LET parts == CreateDocx(set)
        keys == SortedProgramKeys(set)
    IN  [i \in DOMAIN parts |-> [name |-> keys[i], records |-> parts[i]]]

\* Every document of an archive is stored under the code of all its records, and
\* the archive has everybody of the registry set once, in whatever order the
\* programs were met and whichever codes were edited meanwhile (zipDocs).
EntriesMatchTheirNames ==
    \A g \in Generator :
        InStep(g, "insert") /\ job[g].type = "docx" =>
            LET zip == ZipDocs(job[g].set) IN
            /\ \A i \in DOMAIN zip : zip[i].records # << >>
            /\ \A i \in DOMAIN zip : \A n \in DOMAIN zip[i].records :
                 zip[i].records[n].code = zip[i].name
            /\ \A i, j \in DOMAIN zip : zip[i].name = zip[j].name => i = j
            /\ Range(job[g].set) = UNION {Range(zip[i].records) : i \in DOMAIN zip}

============================================================================
