------------------------- MODULE DirectoriesProofs -------------------------
(***************************************************************************)
(* Proofs about module Directories, for any number of concurrent requests, *)
(* keys and rows: a deactivation is final, and the action log accounts for *)
(* every row and repeats no end without need.                              *)
(***************************************************************************)
EXTENDS Directories, FiniteSetTheorems, TLAPS

USE ClientAssumption

TableOK == table \in [Kind -> Seq(Row)]

\* A request names a row that exists, and has a form to write.
CallOK(j) ==
    /\ j \in Call
    /\ j.step # "idle" => j.id \in DOMAIN table[j.kind]
    /\ j.step \in {"group", "update"} => j.form \in Form
    /\ j.step = "deactivate" => j.action = "deactivate"

CallsOK == call = [c \in Client |-> call[c]] /\ \A c \in Client : CallOK(call[c])

LogOK ==
    /\ actionLog \in [DOMAIN actionLog -> Nat \ {0}]
    /\ DOMAIN actionLog \subseteq Entry
    /\ lost \in Nat

Gone(k, i) == i \in DOMAIN table[k] /\ table[k][i].status = "inactive"

\* What an entry shows of an end is true, and a deactivation shows nothing else.
TrueEntry(e) ==
    /\ e \in Entry
    /\ e.status = "inactive" => Gone(e.kind, e.id)
    /\ e.action = "deactivate" => e = EndOf(e.kind, e.id)

TruthInv == \A e \in Said : TrueEntry(e)

\* How often the end of a row is logged, and the requests that may log it again:
\* those that read the row before its end.
Copies(k, i) == IF EndOf(k, i) \in DOMAIN actionLog THEN actionLog[EndOf(k, i)] ELSE 0
Enders(k, i) ==
    {c \in Client : /\ call[c].step \in {"deactivate", "log"}
                    /\ call[c].action = "deactivate"
                    /\ call[c].kind = k /\ call[c].id = i}

CountInv ==
    \A k \in Kind, i \in Nat :
        Copies(k, i) + Cardinality(Enders(k, i)) <= Cardinality(Client)

\* Request c is about to log the end of the employer with id i.
Ending(c, i) == At(c, "log") /\ EntryOf(call[c]) = EndOf("employer", i)

\* The end of an employer is in the log, or about to be, or neither: never
\* twice.  It is inactive from then on, so that no statement matches it again.
LeaveInv ==
    /\ \A i \in Nat : Copies("employer", i) <= 1
    /\ \A i \in Nat, c \in Client : Ending(c, i) => Copies("employer", i) = 0
    /\ \A i \in Nat, c, d \in Client : Ending(c, i) /\ Ending(d, i) => c = d

\* The log, or a request that is about to log, accounts for row i of kind k.
Explained(k, i) ==
    /\ \E e \in Said : e.kind = k /\ e.id = i /\ e.form = FormOf(table[k][i])
    /\ Gone(k, i) => EndOf(k, i) \in Said

ExplainInv == lost > 0 \/ \A k \in Kind : \A i \in DOMAIN table[k] : Explained(k, i)

\* The inductive invariant.
DirectoriesInv ==
    TableOK /\ CallsOK /\ LogOK /\ TruthInv /\ CountInv /\ LeaveInv /\ ExplainInv

----------------------------------------------------------------------------
(* How a table changes *)

\* Every row stays where it is.
RowsStay == \A k \in Kind : DOMAIN table[k] \subseteq DOMAIN table'[k]

\* An inactive row stays inactive.
StatusStays ==
    \A k \in Kind : \A i \in DOMAIN table[k] :
        table[k][i].status = "inactive" => table'[k][i].status = "inactive"

\* Only row i of kind k may differ, and it is r.
Changed(k, i, r) ==
    /\ i \in DOMAIN table'[k] /\ table'[k][i] = r
    /\ \A m \in Kind : \A j \in DOMAIN table'[m] :
         (m # k \/ j # i) => j \in DOMAIN table[m] /\ table'[m][j] = table[m][j]

\* An UPDATE.
LEMMA Stored ==
    ASSUME TableOK, NEW k \in Kind, NEW i \in DOMAIN table[k], NEW r \in Row,
           Store(k, i, r)
    PROVE  TableOK' /\ RowsStay /\ Changed(k, i, r)
<1>1. PICK new : new = [table[k] EXCEPT ![i] = r]
  OBVIOUS
<1>2. table[k] \in Seq(Row) /\ new \in Seq(Row) /\ DOMAIN new = DOMAIN table[k]
  BY <1>1 DEF TableOK
<1>3. \A j \in DOMAIN new : new[j] = IF j = i THEN r ELSE table[k][j]
  BY <1>1, <1>2
<1>4. table' = [table EXCEPT ![k] = new]
  BY <1>1 DEF Store
<1>5. TableOK' /\ \A m \in Kind : table'[m] = IF m = k THEN new ELSE table[m]
  BY <1>2, <1>4 DEF TableOK
<1>6. RowsStay /\ Changed(k, i, r)
  BY <1>2, <1>3, <1>5 DEF RowsStay, Changed
<1> QED
  BY <1>5, <1>6

\* An INSERT.
LEMMA Appended ==
    ASSUME TableOK, NEW k \in Kind, NEW r \in Row,
           table' = [table EXCEPT ![k] = Append(@, r)]
    PROVE  /\ TableOK' /\ RowsStay
           /\ Changed(k, Len(table[k]) + 1, r)
           /\ \A m \in Kind : \A j \in DOMAIN table[m] : table'[m][j] = table[m][j]
           /\ Len(table[k]) + 1 \in Nat
<1>1. PICK old, new : old = table[k] /\ new = Append(old, r)
  OBVIOUS
<1>2. old \in Seq(Row) /\ new \in Seq(Row)
  BY <1>1 DEF TableOK
<1>3. /\ DOMAIN new = DOMAIN old \cup {Len(old) + 1}
      /\ Len(old) + 1 \notin DOMAIN old /\ Len(old) + 1 \in Nat
      /\ new[Len(old) + 1] = r
      /\ \A j \in DOMAIN old : new[j] = old[j]
  BY <1>1, <1>2
<1>4. table' = [table EXCEPT ![k] = new]
  BY <1>1
<1>5. TableOK' /\ \A m \in Kind : table'[m] = IF m = k THEN new ELSE table[m]
  BY <1>2, <1>4 DEF TableOK
<1>6. RowsStay /\ Changed(k, Len(old) + 1, r)
  BY <1>1, <1>3, <1>5 DEF RowsStay, Changed
<1>7. \A m \in Kind : \A j \in DOMAIN table[m] : table'[m][j] = table[m][j]
  BY <1>1, <1>3, <1>5
<1> QED
  BY <1>1, <1>3, <1>5, <1>6, <1>7

----------------------------------------------------------------------------
(* Kinds of steps *)

\* The requests after one of them went on.
LEMMA Becomes ==
    ASSUME CallsOK, RowsStay, NEW c \in Client, NEW j, Become(c, j), CallOK(j)'
    PROVE  CallsOK' /\ \A d \in Client : call'[d] = IF d = c THEN j ELSE call[d]
<1>1. /\ call' = [d \in Client |-> call'[d]]
      /\ \A d \in Client : call'[d] = IF d = c THEN j ELSE call[d]
  BY DEF CallsOK, Become
<1>2. \A d \in Client : CallOK(call[d]) /\ call[d].kind \in Kind
  BY DEF CallsOK, CallOK, Call
<1>3. \A d \in Client : CallOK(call[d])'
  <2>1. ASSUME NEW d \in Client, d # c PROVE CallOK(call[d])'
    BY <1>1, <1>2, <2>1 DEF CallOK, RowsStay
  <2>2. CallOK(call[c])'
    BY <1>1 DEF CallOK
  <2> QED
    BY <2>1, <2>2
<1> QED
  BY <1>1, <1>3 DEF CallsOK

\* The number of entries of an end grows only by requests that were counted.
LEMMA CountStays ==
    ASSUME CountInv, LogOK, actionLog' = actionLog,
           \A k \in Kind, i \in Nat :
             Enders(k, i)' \subseteq Enders(k, i) \/ Copies(k, i) = 0
    PROVE  CountInv'
<1> SUFFICES ASSUME NEW k \in Kind, NEW i \in Nat
             PROVE  Copies(k, i)' + Cardinality(Enders(k, i)') <= Cardinality(Client)
  BY DEF CountInv
<1>1. Copies(k, i)' = Copies(k, i) /\ Copies(k, i) \in Nat
  BY DEF Copies, EndOf, LogOK
<1>2. Enders(k, i)' \in SUBSET Client /\ Enders(k, i) \in SUBSET Client
  BY DEF Enders
<1>3. /\ IsFiniteSet(Enders(k, i)) /\ Cardinality(Enders(k, i)) \in Nat
      /\ Cardinality(Enders(k, i)') \in Nat /\ Cardinality(Client) \in Nat
      /\ Cardinality(Enders(k, i)') <= Cardinality(Client)
  BY <1>2, FS_Subset, FS_CardinalityType
<1>4. CASE Enders(k, i)' \subseteq Enders(k, i)
  <2>1. Cardinality(Enders(k, i)') <= Cardinality(Enders(k, i))
    BY <1>3, <1>4, FS_Subset
  <2>2. Copies(k, i) + Cardinality(Enders(k, i)) <= Cardinality(Client)
    BY DEF CountInv
  <2> QED
    BY <1>1, <1>3, <2>1, <2>2
<1>5. CASE Copies(k, i) = 0
  BY <1>1, <1>3, <1>5
<1> QED
  BY <1>4, <1>5

\* An end that is logged is the end of an inactive row.
LEMMA CopiesGone ==
    ASSUME TruthInv, LogOK, NEW k \in Kind, NEW i \in Nat, ~Gone(k, i)
    PROVE  Copies(k, i) = 0
<1>1. EndOf(k, i).kind = k /\ EndOf(k, i).id = i /\ EndOf(k, i).status = "inactive"
  BY DEF EndOf
<1>2. EndOf(k, i) \notin DOMAIN actionLog
  BY <1>1 DEF TruthInv, TrueEntry, Said, BagToSet
<1> QED
  BY <1>2 DEF Copies

\* A statement that reads, a refusal, or the end of a request that has nothing to
\* log.
LEMMA Reads ==
    ASSUME DirectoriesInv, NEW c \in Client, ~At(c, "log"), NEW j, Become(c, j),
           CallOK(j), j.step # "log", j.step = "deactivate" => ~Gone(j.kind, j.id),
           UNCHANGED <<table, actionLog, lost>>
    PROVE  DirectoriesInv'
<1>1. RowsStay
  BY DEF RowsStay
<1>2. CallsOK' /\ \A d \in Client : call'[d] = IF d = c THEN j ELSE call[d]
  <2>1. CallOK(j)'
    BY DEF CallOK
  <2> QED
    BY <1>1, <2>1, Becomes DEF DirectoriesInv
<1>3. \A d \in Client : /\ At(d, "log")' <=> At(d, "log")
                        /\ At(d, "log") => call'[d] = call[d]
  BY <1>2 DEF At
<1>4. TableOK' /\ LogOK'
  BY DEF DirectoriesInv, TableOK, LogOK
<1>5. Said' = Said
  BY <1>3 DEF Said, EntryOf
<1>6. TruthInv' /\ ExplainInv'
  BY <1>5 DEF DirectoriesInv, TruthInv, TrueEntry, ExplainInv, Explained, Gone
<1>7. LeaveInv'
  <2>1. \A n \in Nat, d \in Client : Ending(d, n)' => Ending(d, n)
    BY <1>3 DEF Ending, EntryOf, EndOf
  <2>2. \A n \in Nat : Copies("employer", n)' = Copies("employer", n)
    BY DEF Copies, EndOf
  <2> QED
    BY <2>1, <2>2 DEF DirectoriesInv, LeaveInv
<1>8. CountInv'
  <2>1. ASSUME NEW k \in Kind, NEW i \in Nat
        PROVE  Enders(k, i)' \subseteq Enders(k, i) \/ Copies(k, i) = 0
    <3>1. CASE j.step = "deactivate" /\ j.kind = k /\ j.id = i
      BY <3>1, CopiesGone DEF DirectoriesInv
    <3>2. CASE ~(j.step = "deactivate" /\ j.kind = k /\ j.id = i)
      BY <1>2, <3>2 DEF Enders
    <3> QED
      BY <3>1, <3>2
  <2> QED
    BY <2>1, CountStays DEF DirectoriesInv
<1> QED
  BY <1>2, <1>4, <1>6, <1>7, <1>8 DEF DirectoriesInv

\* A statement that writes row i of kind k; its request goes on to the log.
LEMMA Writes ==
    ASSUME DirectoriesInv, NEW c \in Client, ~At(c, "log"),
           NEW k \in Kind, NEW i \in Nat, NEW r \in Row, NEW action \in Action,
           Become(c, Logging(k, i, action, r)),
           TableOK', RowsStay, Changed(k, i, r), StatusStays,
           r.status = "inactive" => action = "deactivate" \/ Gone(k, i),
           action = "deactivate" =>
             /\ c \in Enders(k, i) /\ r.status = "inactive"
             /\ i \in DOMAIN table[k] /\ FormOf(r) = FormOf(table[k][i])
             /\ k = "employer" => ~Gone(k, i),
           UNCHANGED <<actionLog, lost>>
    PROVE  DirectoriesInv'
<1>1. PICK j, e : j = Logging(k, i, action, r) /\ e = EntryOf(j)
  OBVIOUS
<1>2. /\ j.step = "log" /\ j.kind = k /\ j.id = i /\ j.action = action
      /\ j.form = (IF action = "deactivate" THEN NoForm ELSE FormOf(r))
      /\ j.status = (IF ShowsStatus(k, action) THEN r.status ELSE "none")
  BY <1>1 DEF Logging
<1>3. FormOf(r) \in Form /\ r.status \in Status
  BY DEF FormOf, Form, Row, Status
<1>4. j \in Call
  <2>1. j.form \in Form \cup {NoForm} /\ j.status \in Status
    BY <1>2, <1>3 DEF Status
  <2> QED
    BY <1>1, <1>2, <2>1 DEF Logging, Call
<1>5. /\ e.kind = k /\ e.id = i /\ e.action = action /\ e.form = j.form
      /\ e.status = j.status /\ e \in Entry
  BY <1>1, <1>2, <1>4 DEF EntryOf, Call, Entry
<1>6. i \in DOMAIN table'[k] /\ table'[k][i] = r
  BY DEF Changed
<1>7. CallsOK' /\ \A d \in Client : call'[d] = IF d = c THEN j ELSE call[d]
  <2>1. CallOK(j)'
    BY <1>2, <1>4, <1>6 DEF CallOK
  <2> QED
    BY <1>1, <2>1, Becomes DEF DirectoriesInv
<1>8. \A d \in Client : d # c => /\ At(d, "log")' <=> At(d, "log")
                                 /\ call'[d] = call[d]
  BY <1>7 DEF At
<1>9. At(c, "log")' /\ call'[c] = j
  BY <1>2, <1>7 DEF At
<1>10. LogOK'
  BY DEF DirectoriesInv, LogOK
<1>11. Said' = Said \cup {e}
  <2>1. \A x : x \in Said' <=> x \in Said \/ x = e
    BY <1>1, <1>8, <1>9 DEF Said
  <2> QED
    BY <2>1
<1>12. \A m \in Kind : \A n : Gone(m, n) => Gone(m, n)'
  BY DEF Gone, RowsStay, StatusStays
<1>13. action = "deactivate" => e = EndOf(k, i) /\ Gone(k, i)'
  <2> SUFFICES ASSUME action = "deactivate" PROVE e = EndOf(k, i) /\ Gone(k, i)'
    OBVIOUS
  <2>1. e.form = NoForm /\ e.status = "inactive"
    BY <1>2, <1>5 DEF ShowsStatus
  <2> QED
    BY <1>1, <1>2, <1>5, <1>6, <2>1 DEF EntryOf, EndOf, Gone
<1>14. TruthInv'
  <2>1. TrueEntry(e)'
    <3>1. e.status = "inactive" => Gone(k, i)'
      BY <1>2, <1>5, <1>6 DEF Gone
    <3> QED
      BY <1>5, <1>13, <3>1 DEF TrueEntry, EndOf
  <2>2. ASSUME NEW x \in Said PROVE TrueEntry(x)'
    <3>1. TrueEntry(x) /\ x.kind \in Kind
      BY DEF DirectoriesInv, TruthInv, TrueEntry, Entry
    <3> QED
      BY <1>12, <3>1 DEF TrueEntry, EndOf
  <2> QED
    BY <1>11, <2>1, <2>2 DEF TruthInv
<1>15. CountInv'
  <2>1. ASSUME NEW m \in Kind, NEW n \in Nat PROVE Enders(m, n)' \subseteq Enders(m, n)
    <3>1. ASSUME NEW d \in Client, d \in Enders(m, n)' PROVE d \in Enders(m, n)
      <4>1. CASE d # c
        BY <1>8, <3>1, <4>1 DEF Enders
      <4>2. CASE d = c
        <5>1. action = "deactivate" /\ m = k /\ n = i
          BY <1>2, <1>9, <3>1, <4>2 DEF Enders
        <5> QED
          BY <4>2, <5>1
      <4> QED
        BY <4>1, <4>2
    <3> QED
      BY <3>1 DEF Enders
  <2> QED
    BY <2>1, CountStays DEF DirectoriesInv
<1>16. LeaveInv'
  <2>1. \A n \in Nat : Copies("employer", n)' = Copies("employer", n)
    BY DEF Copies, EndOf
  <2>2. \A n \in Nat, d \in Client : Ending(d, n)' =>
          IF d = c THEN n = i /\ k = "employer" /\ action = "deactivate" ELSE Ending(d, n)
    <3>1. ASSUME NEW n \in Nat, Ending(c, n)'
          PROVE  n = i /\ k = "employer" /\ action = "deactivate"
      BY <1>1, <1>5, <1>9, <3>1 DEF Ending, EndOf
    <3>2. ASSUME NEW n \in Nat, NEW d \in Client, d # c, Ending(d, n)' PROVE Ending(d, n)
      BY <1>8, <3>2 DEF Ending, EntryOf, EndOf
    <3> QED
      BY <3>1, <3>2
  <2>3. k = "employer" /\ action = "deactivate" => Copies("employer", i) = 0
    BY CopiesGone DEF DirectoriesInv
  <2>4. ASSUME NEW d \in Client, Ending(d, i) PROVE Gone("employer", i)
    <3>1. EndOf("employer", i) \in Said
      BY <2>4 DEF Ending, Said
    <3> QED
      BY <3>1 DEF DirectoriesInv, TruthInv, TrueEntry, EndOf
  <2>5. \A n \in Nat, d \in Client : Ending(d, n)' => Copies("employer", n)' = 0
    BY <2>1, <2>2, <2>3 DEF DirectoriesInv, LeaveInv
  <2>6. \A n \in Nat, d, f \in Client : Ending(d, n)' /\ Ending(f, n)' => d = f
    BY <2>2, <2>4 DEF DirectoriesInv, LeaveInv
  <2> QED
    BY <2>1, <2>5, <2>6 DEF DirectoriesInv, LeaveInv
<1>17. ExplainInv'
  <2> SUFFICES ASSUME ~(lost > 0), NEW m \in Kind, NEW n \in DOMAIN table'[m]
               PROVE  Explained(m, n)'
    BY DEF ExplainInv
  <2>1. \A x \in DOMAIN table[m] : Explained(m, x)
    BY DEF DirectoriesInv, ExplainInv
  <2>2. CASE m # k \/ n # i
    <3>1. n \in DOMAIN table[m] /\ table'[m][n] = table[m][n]
      BY <2>2 DEF Changed
    <3>2. Explained(m, n) /\ (Gone(m, n)' => Gone(m, n)) /\ EndOf(m, n)' = EndOf(m, n)
      BY <2>1, <3>1 DEF Gone, EndOf
    <3> QED
      BY <1>11, <3>1, <3>2 DEF Explained
  <2>3. CASE m = k /\ n = i
    <3>1. \E x \in Said' : x.kind = k /\ x.id = i /\ x.form = FormOf(r)
      <4>1. CASE action # "deactivate"
        BY <1>2, <1>5, <1>11, <4>1
      <4>2. CASE action = "deactivate"
        BY <1>11, <2>1, <2>3, <4>2 DEF Explained
      <4> QED
        BY <4>1, <4>2
    <3>2. Gone(k, i)' => EndOf(k, i) \in Said'
      <4>1. CASE action = "deactivate"
        BY <1>11, <1>13, <4>1
      <4>2. CASE Gone(k, i)
        BY <1>11, <2>1, <2>3, <4>2 DEF Explained, Gone
      <4> QED
        BY <1>6, <4>1, <4>2 DEF Gone
    <3>3. FormOf(table[m][n])' = FormOf(r) /\ EndOf(k, i)' = EndOf(k, i)
      BY <1>6, <2>3 DEF FormOf, EndOf
    <3> QED
      BY <2>3, <3>1, <3>2, <3>3 DEF Explained
  <2> QED
    BY <2>2, <2>3
<1> QED
  BY <1>7, <1>10, <1>14, <1>15, <1>16, <1>17 DEF DirectoriesInv

\* The form in which an idle request stands.
LEMMA IdleOK == Idle \in Call /\ CallOK(Idle) /\ Idle.step = "idle" /\ Idle.action = "create"
<1>1. /\ Idle \in Call /\ Idle.step = "idle" /\ Idle.action = "create"
  BY DEF Idle, Call, Form, NoForm, Status, Action, Kind
<1> QED
  BY <1>1 DEF CallOK

----------------------------------------------------------------------------
(* The statements *)

\* A creation.
LEMMA CreateInv ==
    ASSUME DirectoriesInv, NEW c \in Client, NEW k \in Kind, NEW o \in Nat,
           NEW x \in Nat, Create(c, k, o, x)
    PROVE  DirectoriesInv' /\ StatusStays
<1>1. PICK row, i : /\ row = [owner |-> o, key |-> x, status |-> "active"]
                    /\ i = Len(table[k]) + 1
  OBVIOUS
<1>2. row \in Row
  BY <1>1 DEF Row
<1>3. /\ ~At(c, "log")
      /\ table' = [table EXCEPT ![k] = Append(@, row)]
      /\ Become(c, Logging(k, i, "create", row))
      /\ UNCHANGED <<actionLog, lost>>
  BY <1>1 DEF Create, MayBegin, At
<1>4. /\ TableOK' /\ RowsStay /\ Changed(k, i, row) /\ i \in Nat
      /\ \A m \in Kind : \A j \in DOMAIN table[m] : table'[m][j] = table[m][j]
  BY <1>1, <1>2, <1>3, Appended DEF DirectoriesInv
<1>5. StatusStays
  BY <1>4 DEF StatusStays
<1>6. row.status = "active" /\ "create" \in Action
  BY <1>1 DEF Action
<1> QED
  BY <1>2, <1>3, <1>4, <1>5, <1>6, Writes

\* The read before an update.
LEMMA ReadForUpdateInv ==
    ASSUME DirectoriesInv, NEW c \in Client, NEW k \in Kind, NEW i \in DOMAIN table[k],
           NEW o \in Nat, NEW x \in Nat, ReadForUpdate(c, k, i, o, x)
    PROVE  DirectoriesInv'
<1>1. PICK step, form, status :
        /\ step = IF k = "program" THEN "group" ELSE "update"
        /\ form = [owner |-> o, key |-> x]
        /\ status = table[k][i].status
  OBVIOUS
<1>2. table[k][i] \in Row /\ i \in Nat
  BY DEF DirectoriesInv, TableOK
<1>3. form \in Form /\ status \in Status /\ step \in {"group", "update"}
  BY <1>1, <1>2 DEF Row, Form, Status
<1>4. PICK j : j = [step |-> step, kind |-> k, id |-> i, action |-> "update",
                    form |-> form, status |-> status]
  OBVIOUS
<1>5. /\ j \in Call /\ j.step \in {"group", "update"} /\ j.id = i /\ j.kind = k
      /\ j.form \in Form
  BY <1>2, <1>3, <1>4 DEF Call, Action
<1>6. ~At(c, "log") /\ Become(c, j) /\ UNCHANGED <<table, actionLog, lost>>
  BY <1>1, <1>4 DEF ReadForUpdate, MayBegin, At
<1>7. CallOK(j)
  BY <1>5 DEF CallOK
<1> QED
  BY <1>5, <1>6, <1>7, Reads

\* The fields of a request that is under way.
LEMMA CallFields ==
    ASSUME DirectoriesInv, NEW c \in Client, ~At(c, "idle")
    PROVE  /\ call[c] \in Call /\ CallOK(call[c])
           /\ call[c].kind \in Kind /\ call[c].id \in Nat
           /\ call[c].id \in DOMAIN table[call[c].kind]
           /\ table[call[c].kind][call[c].id] \in Row
<1>1. CallOK(call[c]) /\ call[c] \in Call /\ call[c].id \in DOMAIN table[call[c].kind]
  BY DEF DirectoriesInv, CallsOK, CallOK, At
<1>2. call[c].kind \in Kind /\ call[c].id \in Nat
  BY <1>1 DEF Call
<1>3. table[call[c].kind][call[c].id] \in Row
  BY <1>1, <1>2 DEF DirectoriesInv, TableOK
<1> QED
  BY <1>1, <1>2, <1>3

\* A request that is refused or cancelled.
LEMMA GivesUp ==
    ASSUME DirectoriesInv, NEW c \in Client, ~At(c, "log"), Become(c, Idle),
           UNCHANGED <<table, actionLog, lost>>
    PROVE  DirectoriesInv'
BY IdleOK, Reads

\* The check of the group.
LEMMA CheckGroupInv ==
    ASSUME DirectoriesInv, NEW c \in Client, CheckGroup(c)
    PROVE  DirectoriesInv'
<1>1. ~At(c, "log") /\ ~At(c, "idle") /\ UNCHANGED <<table, actionLog, lost>>
  BY DEF CheckGroup, At
<1>2. CASE Become(c, [call[c] EXCEPT !.step = "update"])
  <2>1. PICK j : j = [call[c] EXCEPT !.step = "update"]
    OBVIOUS
  <2>2. /\ j \in Call /\ j.step = "update" /\ j.id = call[c].id /\ j.kind = call[c].kind
        /\ j.form = call[c].form
    BY <1>1, <2>1, CallFields DEF Call
  <2>3. call[c].form \in Form /\ j.id \in DOMAIN table[j.kind]
    BY <1>1, <2>2, CallFields DEF CallOK, CheckGroup, At
  <2>4. CallOK(j)
    BY <2>2, <2>3 DEF CallOK
  <2> QED
    BY <1>1, <1>2, <2>1, <2>2, <2>4, Reads
<1> QED
  BY <1>1, <1>2, GivesUp DEF CheckGroup

\* The statement of an update.
LEMMA WriteUpdateInv ==
    ASSUME DirectoriesInv, NEW c \in Client, WriteUpdate(c)
    PROVE  DirectoriesInv' /\ StatusStays
<1>1. ~At(c, "log") /\ ~At(c, "idle") /\ UNCHANGED <<actionLog, lost>>
  BY DEF WriteUpdate, At
<1>2. PICK k, i, row : /\ k = call[c].kind /\ i = call[c].id
                       /\ row = RowOf(call[c].form, table[k][i].status)
  OBVIOUS
<1>3. k \in Kind /\ i \in Nat /\ i \in DOMAIN table[k] /\ table[k][i] \in Row
  BY <1>1, <1>2, CallFields
<1>4. row \in Row /\ row.status = table[k][i].status
  <2>1. call[c].form \in Form
    BY <1>1, CallFields DEF CallOK, WriteUpdate, At
  <2> QED
    BY <1>2, <1>3, <2>1 DEF Row, RowOf, Form
<1>5. CASE Store(k, i, row) /\ Become(c, Logging(k, i, "update", row))
  <2>1. TableOK' /\ RowsStay /\ Changed(k, i, row)
    BY <1>3, <1>4, <1>5, Stored DEF DirectoriesInv
  <2>2. StatusStays
    BY <1>4, <2>1 DEF StatusStays, Changed, RowsStay
  <2>3. row.status = "inactive" => Gone(k, i)
    BY <1>3, <1>4 DEF Gone
  <2>4. "update" \in Action
    BY DEF Action
  <2> QED
    BY <1>1, <1>3, <1>4, <1>5, <2>1, <2>2, <2>3, <2>4, Writes
<1>6. CASE Become(c, Idle) /\ UNCHANGED table
  BY <1>1, <1>6, GivesUp DEF StatusStays
<1> QED
  BY <1>2, <1>5, <1>6 DEF WriteUpdate

\* The read before a deactivation.
LEMMA ReadForDeactivateInv ==
    ASSUME DirectoriesInv, NEW c \in Client, NEW k \in Kind, NEW i \in DOMAIN table[k],
           ReadForDeactivate(c, k, i)
    PROVE  DirectoriesInv'
<1>1. PICK j : j = [Idle EXCEPT !.step = "deactivate", !.kind = k, !.id = i,
                                !.action = "deactivate"]
  OBVIOUS
<1>2. j = [step |-> "deactivate", kind |-> k, id |-> i, action |-> "deactivate",
           form |-> NoForm, status |-> "none"]
  BY <1>1 DEF Idle
<1>3. i \in Nat
  BY DEF DirectoriesInv, TableOK
<1>4. /\ j \in Call /\ j.step = "deactivate" /\ j.action = "deactivate"
      /\ j.id = i /\ j.kind = k
  BY <1>2, <1>3 DEF Call, Action, Status
<1>5. /\ ~At(c, "log") /\ Become(c, j) /\ UNCHANGED <<table, actionLog, lost>>
      /\ ~Gone(k, i)
  BY <1>1 DEF ReadForDeactivate, MayBegin, At, Gone
<1>6. CallOK(j)
  BY <1>4 DEF CallOK
<1> QED
  BY <1>4, <1>5, <1>6, Reads

\* The statement of a deactivation.
LEMMA WriteDeactivateInv ==
    ASSUME DirectoriesInv, NEW c \in Client, WriteDeactivate(c)
    PROVE  DirectoriesInv' /\ StatusStays
<1>1. ~At(c, "log") /\ ~At(c, "idle") /\ UNCHANGED <<actionLog, lost>>
  BY DEF WriteDeactivate, At
<1>2. PICK k, i, row : /\ k = call[c].kind /\ i = call[c].id
                       /\ row = [table[k][i] EXCEPT !.status = "inactive"]
  OBVIOUS
<1>3. k \in Kind /\ i \in Nat /\ i \in DOMAIN table[k] /\ table[k][i] \in Row
  BY <1>1, <1>2, CallFields
<1>4. /\ row \in Row /\ row.status = "inactive"
      /\ row.key = table[k][i].key /\ row.owner = table[k][i].owner
  BY <1>2, <1>3 DEF Row
<1>5. CASE /\ DeactivateMatches(k, table[k][i]) /\ Store(k, i, row)
           /\ Become(c, Logging(k, i, "deactivate", row))
  <2>1. TableOK' /\ RowsStay /\ Changed(k, i, row)
    BY <1>3, <1>4, <1>5, Stored DEF DirectoriesInv
  <2>2. StatusStays
    BY <1>4, <2>1 DEF StatusStays, Changed, RowsStay
  <2>3. k = "employer" => ~Gone(k, i)
    BY <1>5 DEF DeactivateMatches, Gone
  <2>4. c \in Enders(k, i)
    <3>1. call[c].step = "deactivate" /\ call[c].action = "deactivate"
      BY <1>1, CallFields DEF CallOK, WriteDeactivate, At
    <3> QED
      BY <1>2, <3>1 DEF Enders
  <2>5. "deactivate" \in Action /\ FormOf(row) = FormOf(table[k][i])
    BY <1>4 DEF Action, FormOf
  <2> QED
    BY <1>1, <1>3, <1>4, <1>5, <2>1, <2>2, <2>3, <2>4, <2>5, Writes
<1>6. CASE Become(c, Idle) /\ UNCHANGED table
  BY <1>1, <1>6, GivesUp DEF StatusStays
<1> QED
  BY <1>2, <1>5, <1>6 DEF WriteDeactivate

\* The action log.
LEMMA RecordAuditInv ==
    ASSUME DirectoriesInv, NEW c \in Client, RecordAudit(c)
    PROVE  DirectoriesInv'
<1>1. UNCHANGED table /\ Become(c, Idle) /\ At(c, "log") /\ ~At(c, "idle")
  BY DEF RecordAudit, At
<1>2. RowsStay
  BY <1>1 DEF RowsStay
<1>3. CallsOK' /\ \A d \in Client : call'[d] = IF d = c THEN Idle ELSE call[d]
  <2>1. CallOK(Idle)'
    BY IdleOK DEF CallOK
  <2> QED
    BY <1>1, <1>2, <2>1, Becomes DEF DirectoriesInv
<1>4. \A d \in Client : At(d, "log")' => d # c /\ At(d, "log") /\ call'[d] = call[d]
  BY <1>3, IdleOK DEF At
<1>5. PICK e : e = EntryOf(call[c])
  OBVIOUS
<1>6. /\ e \in Said /\ TrueEntry(e) /\ e \in Entry
      /\ e.kind = call[c].kind /\ e.id = call[c].id /\ e.action = call[c].action
  <2>1. e \in Said
    BY <1>1, <1>5 DEF Said
  <2>2. TrueEntry(e)
    BY <2>1 DEF DirectoriesInv, TruthInv
  <2> QED
    BY <1>5, <2>1, <2>2 DEF EntryOf, TrueEntry
<1>7. TableOK' /\ \A k \in Kind : \A n : Gone(k, n)' <=> Gone(k, n)
  BY <1>1 DEF DirectoriesInv, TableOK, Gone
<1>8. \A n \in Nat, d \in Client : Ending(d, n)' => d # c /\ Ending(d, n)
  BY <1>4 DEF Ending, EntryOf, EndOf
<1>9. ASSUME NEW k \in Kind, NEW n \in Nat
      PROVE  /\ Enders(k, n)' = Enders(k, n) \ {c}
             /\ e = EndOf(k, n) => c \in Enders(k, n)
  <2>1. \A d \in Client : d \in Enders(k, n)' <=> d \in Enders(k, n) /\ d # c
    BY <1>3, IdleOK DEF Enders
  <2>2. e = EndOf(k, n) => c \in Enders(k, n)
    BY <1>1, <1>6 DEF EndOf, Enders, At
  <2> QED
    BY <2>1, <2>2 DEF Enders
<1>10. CASE lost' = lost + 1 /\ UNCHANGED actionLog
  <2>1. LogOK' /\ ExplainInv'
    BY <1>10 DEF DirectoriesInv, LogOK, ExplainInv
  <2>2. \A x \in Said' : x \in Said
    BY <1>4, <1>10 DEF Said, EntryOf
  <2>3. TruthInv'
    BY <1>1, <2>2 DEF DirectoriesInv, TruthInv, TrueEntry, Gone, EndOf
  <2>4. CountInv'
    BY <1>9, <1>10, CountStays DEF DirectoriesInv
  <2>5. \A n \in Nat : Copies("employer", n)' = Copies("employer", n)
    BY <1>10 DEF Copies, EndOf
  <2>6. LeaveInv'
    BY <1>8, <2>5 DEF DirectoriesInv, LeaveInv
  <2> QED
    BY <1>3, <1>7, <2>1, <2>3, <2>4, <2>6 DEF DirectoriesInv
<1>11. CASE actionLog' = actionLog (+) SetToBag({e}) /\ UNCHANGED lost
  <2>1. PICK D : D = DOMAIN actionLog
    OBVIOUS
  <2>2. actionLog' = [f \in D \cup {e} |->
          (IF f \in D THEN actionLog[f] ELSE 0) + (IF f \in {e} THEN 1 ELSE 0)]
    BY <1>11, <2>1 DEF (+), SetToBag
  <2>3. actionLog \in [D -> Nat \ {0}] /\ D \subseteq Entry /\ lost \in Nat
    BY <2>1 DEF DirectoriesInv, LogOK
  <2>4. /\ DOMAIN actionLog' = D \cup {e}
        /\ \A f \in D : f # e => actionLog'[f] = actionLog[f]
        /\ e \notin D => actionLog'[e] = 1
        /\ e \in D => actionLog'[e] = actionLog[e] + 1
        /\ actionLog' \in [D \cup {e} -> Nat \ {0}]
    BY <2>2, <2>3
  <2>5. LogOK'
    BY <1>6, <1>11, <2>3, <2>4 DEF LogOK
  <2>6. ASSUME NEW k \in Kind, NEW n \in Nat
        PROVE  /\ Copies(k, n)' = Copies(k, n) + (IF e = EndOf(k, n) THEN 1 ELSE 0)
               /\ Copies(k, n) \in Nat
    <3>1. EndOf(k, n)' = EndOf(k, n)
      BY DEF EndOf
    <3>2. Copies(k, n) \in Nat
      BY <2>1, <2>3 DEF Copies
    <3>3. CASE e = EndOf(k, n)
      BY <2>1, <2>3, <2>4, <3>1, <3>3 DEF Copies
    <3>4. CASE e # EndOf(k, n)
      BY <2>1, <2>3, <2>4, <3>1, <3>4 DEF Copies
    <3> QED
      BY <3>2, <3>3, <3>4
  <2>7. Said' = Said
    <3>1. ASSUME NEW x \in Said PROVE x \in Said'
      <4>1. CASE x \in D
        BY <2>4, <4>1 DEF Said, BagToSet
      <4>2. ASSUME NEW d \in Client, At(d, "log"), x = EntryOf(call[d]) PROVE x \in Said'
        <5>1. CASE d = c
          BY <1>5, <2>4, <4>2, <5>1 DEF Said, BagToSet
        <5>2. CASE d # c
          <6>1. call'[d] = call[d] /\ At(d, "log")'
            BY <1>3, <4>2, <5>2 DEF At
          <6> QED
            BY <4>2, <6>1 DEF Said
        <5> QED
          BY <5>1, <5>2
      <4> QED
        BY <2>1, <4>1, <4>2 DEF Said, BagToSet
    <3>2. ASSUME NEW x \in Said' PROVE x \in Said
      <4>1. CASE x \in D \cup {e}
        BY <1>6, <2>1, <4>1 DEF Said, BagToSet
      <4>2. ASSUME NEW d \in Client, At(d, "log")', x = EntryOf(call'[d]) PROVE x \in Said
        BY <1>4, <4>2 DEF Said
      <4> QED
        BY <2>4, <4>1, <4>2 DEF Said, BagToSet
    <3> QED
      BY <3>1, <3>2
  <2>8. TruthInv' /\ ExplainInv'
    BY <1>1, <1>11, <2>7 DEF DirectoriesInv, TruthInv, TrueEntry, ExplainInv, Explained,
                             Gone, EndOf
  <2>9. CountInv'
    <3> SUFFICES ASSUME NEW k \in Kind, NEW n \in Nat
                 PROVE  Copies(k, n)' + Cardinality(Enders(k, n)') <= Cardinality(Client)
      BY DEF CountInv
    <3>1. /\ Copies(k, n) \in Nat
          /\ Copies(k, n)' = Copies(k, n) + (IF e = EndOf(k, n) THEN 1 ELSE 0)
          /\ Copies(k, n) + Cardinality(Enders(k, n)) <= Cardinality(Client)
      BY <2>6 DEF DirectoriesInv, CountInv
    <3>2. /\ Enders(k, n)' = Enders(k, n) \ {c}
          /\ e = EndOf(k, n) => c \in Enders(k, n)
      BY <1>9
    <3>3. Enders(k, n) \in SUBSET Client
      BY DEF Enders
    <3>4. IsFiniteSet(Enders(k, n)) /\ Cardinality(Client) \in Nat
      BY <3>3, FS_Subset, FS_CardinalityType
    <3>5. /\ Cardinality(Enders(k, n)) \in Nat /\ Cardinality(Enders(k, n)') \in Nat
          /\ Cardinality(Enders(k, n)') =
               IF c \in Enders(k, n) THEN Cardinality(Enders(k, n)) - 1
                                     ELSE Cardinality(Enders(k, n))
      BY <3>2, <3>4, FS_RemoveElement, FS_CardinalityType
    <3> QED
      BY <3>1, <3>2, <3>4, <3>5
  <2>10. LeaveInv'
    <3>1. \A n \in Nat : e = EndOf("employer", n) => Ending(c, n)
      BY <1>1, <1>5 DEF Ending
    <3>2. "employer" \in Kind
      BY DEF Kind
    <3>3. \A n \in Nat :
            /\ Copies("employer", n) \in Nat
            /\ Copies("employer", n)' =
                 Copies("employer", n) + (IF e = EndOf("employer", n) THEN 1 ELSE 0)
      BY <2>6, <3>2
    <3>4. \A n \in Nat : Copies("employer", n)' <= 1
      BY <3>1, <3>3 DEF DirectoriesInv, LeaveInv
    <3>5. \A n \in Nat, d \in Client : Ending(d, n)' => Copies("employer", n)' = 0
      BY <1>8, <3>1, <3>3 DEF DirectoriesInv, LeaveInv
    <3>6. \A n \in Nat, d, f \in Client : Ending(d, n)' /\ Ending(f, n)' => d = f
      BY <1>8 DEF DirectoriesInv, LeaveInv
    <3> QED
      BY <3>4, <3>5, <3>6 DEF LeaveInv
  <2> QED
    BY <1>3, <1>7, <2>5, <2>8, <2>9, <2>10 DEF DirectoriesInv
<1> QED
  BY <1>5, <1>10, <1>11 DEF RecordAudit

----------------------------------------------------------------------------
(* Theorems *)

\* Every step keeps the invariant, and no step revives a row.
LEMMA DirectoriesStep ==
    ASSUME DirectoriesInv, [Next]_vars
    PROVE  DirectoriesInv' /\ StatusStays
<1>1. \A k \in Kind : \A i \in DOMAIN table[k] : i \in Nat /\ table[k][i] \in Row
  BY DEF DirectoriesInv, TableOK
<1>2. CASE UNCHANGED vars
  <2>1. UNCHANGED <<table, actionLog, lost, call>>
    BY <1>2 DEF vars
  <2>2. TableOK' /\ CallsOK' /\ LogOK' /\ Said' = Said
    BY <2>1 DEF DirectoriesInv, TableOK, CallsOK, CallOK, LogOK, Said, At, EntryOf
  <2>3. TruthInv' /\ CountInv' /\ LeaveInv' /\ ExplainInv'
    BY <2>1, <2>2 DEF DirectoriesInv, TruthInv, TrueEntry, CountInv, Copies, Enders, LeaveInv,
                      Ending, EntryOf, Gone, EndOf, At, ExplainInv, Explained
  <2> QED
    BY <2>1, <2>2, <2>3 DEF DirectoriesInv, StatusStays
<1>3. ASSUME NEW c \in Client,
             \/ CreateGroup(c) \/ CreateProgram(c) \/ CreateEmployer(c)
             \/ CreateWorker(c) \/ AssignEmployer(c)
      PROVE  DirectoriesInv' /\ StatusStays
  <2>1. \E k \in Kind, o \in Nat, x \in Nat : Create(c, k, o, x)
    BY <1>1, <1>3, KeyAssumption DEF CreateGroup, CreateProgram, CreateEmployer,
                                     CreateWorker, AssignEmployer, Kind
  <2> QED
    BY <2>1, CreateInv
<1>4. ASSUME NEW c \in Client,
             \/ UpdateGroup(c) \/ UpdateProgram(c) \/ UpdateEmployer(c)
             \/ UpdateWorker(c) \/ UpdateAssignment(c)
      PROVE  DirectoriesInv' /\ StatusStays
  <2>1. \A i \in DOMAIN table["assignment"] : table["assignment"][i].owner \in Nat
    BY <1>1 DEF Row, Kind
  <2>2. PICK k \in Kind : \E i \in DOMAIN table[k], o \in Nat, x \in Nat :
          ReadForUpdate(c, k, i, o, x)
    BY <1>1, <1>4, <2>1, KeyAssumption DEF UpdateGroup, UpdateProgram, UpdateEmployer,
                                           UpdateWorker, UpdateAssignment, Kind
  <2>3. DirectoriesInv'
    BY <2>2, ReadForUpdateInv
  <2> QED
    BY <2>2, <2>3 DEF ReadForUpdate, StatusStays
<1>5. ASSUME NEW c \in Client,
             \/ DeactivateGroup(c) \/ DeactivateProgram(c)
             \/ DeactivateEmployer(c) \/ DeactivateAssignment(c)
      PROVE  DirectoriesInv' /\ StatusStays
  <2>1. PICK k \in Kind : \E i \in DOMAIN table[k] : ReadForDeactivate(c, k, i)
    BY <1>5 DEF DeactivateGroup, DeactivateProgram, DeactivateEmployer,
                DeactivateAssignment, Kind
  <2>2. DirectoriesInv'
    BY <2>1, ReadForDeactivateInv
  <2> QED
    BY <2>1, <2>2 DEF ReadForDeactivate, StatusStays
<1>6. ASSUME NEW c \in Client, CheckGroup(c) PROVE DirectoriesInv' /\ StatusStays
  <2>1. UNCHANGED table
    BY <1>6 DEF CheckGroup
  <2> QED
    BY <1>6, <2>1, CheckGroupInv DEF StatusStays
<1>7. ASSUME NEW c \in Client, RecordAudit(c) PROVE DirectoriesInv' /\ StatusStays
  <2>1. UNCHANGED table
    BY <1>7 DEF RecordAudit
  <2> QED
    BY <1>7, <2>1, RecordAuditInv DEF StatusStays
<1>8. ASSUME NEW c \in Client, Cancel(c) PROVE DirectoriesInv' /\ StatusStays
  <2>1. /\ ~At(c, "log") /\ Become(c, Idle) /\ UNCHANGED table
        /\ UNCHANGED <<table, actionLog, lost>>
    BY <1>8 DEF Cancel, At
  <2> QED
    BY <2>1, GivesUp DEF StatusStays
<1> QED
  BY <1>2, <1>3, <1>4, <1>5, <1>6, <1>7, <1>8, WriteUpdateInv, WriteDeactivateInv DEF Next

\* Requests name rows that exist, the log accounts for the rows and is true about
\* their ends, and an end is logged by requests that read the row before it, of an
\* employer once (the services of programs, employers and people).
THEOREM DirectoriesInvariance == Spec => []DirectoriesInv
<1>1. Init => DirectoriesInv
  <2> SUFFICES ASSUME Init PROVE DirectoriesInv
    OBVIOUS
  <2>1. /\ table = [k \in Kind |-> << >>] /\ lost = 0
        /\ actionLog = [e \in {} |-> 1] /\ DOMAIN actionLog = {}
        /\ call = [c \in Client |-> Idle]
    BY DEF Init, EmptyBag, SetToBag
  <2>2. TableOK /\ \A k \in Kind : DOMAIN table[k] = {}
    BY <2>1 DEF TableOK
  <2>3. CallsOK /\ \A c \in Client : ~At(c, "log")
    BY <2>1, IdleOK DEF CallsOK, CallOK, At
  <2>4. LogOK
    BY <2>1 DEF LogOK
  <2>5. Said = {}
    BY <2>1, <2>3 DEF Said, BagToSet
  <2>6. TruthInv /\ ExplainInv
    BY <2>2, <2>5 DEF TruthInv, ExplainInv
  <2>7. \A k \in Kind, i \in Nat : Copies(k, i) = 0
    BY <2>1 DEF Copies
  <2>8. LeaveInv
    BY <2>3, <2>7 DEF LeaveInv, Ending, Kind
  <2>9. CountInv
    <3> SUFFICES ASSUME NEW k \in Kind, NEW i \in Nat
                 PROVE  Copies(k, i) + Cardinality(Enders(k, i)) <= Cardinality(Client)
      BY DEF CountInv
    <3>1. Enders(k, i) \in SUBSET Client
      BY DEF Enders
    <3>2. /\ Cardinality(Enders(k, i)) <= Cardinality(Client)
          /\ Cardinality(Enders(k, i)) \in Nat /\ Cardinality(Client) \in Nat
      BY <3>1, FS_Subset, FS_CardinalityType
    <3> QED
      BY <2>7, <3>2
  <2> QED
    BY <2>2, <2>3, <2>4, <2>6, <2>8, <2>9 DEF DirectoriesInv
<1> QED
  BY <1>1, DirectoriesStep, PTL DEF Spec

\* Types, and a log that accounts for every row, is true about the ends of rows and
\* repeats the end of an employer never, that of another row only for requests
\* that overlap it (recordAudit, the deactivations).
THEOREM LogSafety == Spec => []LogAccountsForRows
<1>1. DirectoriesInv => LogAccountsForRows
  <2> SUFFICES ASSUME DirectoriesInv PROVE LogAccountsForRows
    OBVIOUS
  <2>1. TypeOK
    BY DEF DirectoriesInv, TableOK, LogOK, CallsOK, CallOK, TypeOK, IsABag, BagToSet
  <2>2. LogExplainsRows
    BY DEF DirectoriesInv, ExplainInv, Explained, Gone, LogExplainsRows
  <2>3. EndsAreTrue
    BY DEF DirectoriesInv, TruthInv, TrueEntry, Gone, EndsAreTrue
  <2>4. EndsAreFew
    <3> SUFFICES ASSUME NEW e \in DOMAIN actionLog, e.action = "deactivate"
                 PROVE  actionLog[e] <= IF e.kind = "employer" THEN 1 ELSE Cardinality(Client)
      BY DEF EndsAreFew, BagToSet
    <3>1. PICK k, i : k = e.kind /\ i = e.id
      OBVIOUS
    <3>2. e \in Entry /\ e = EndOf(k, i)
      BY <3>1 DEF DirectoriesInv, TruthInv, TrueEntry, Said, BagToSet
    <3>3. k \in Kind /\ i \in Nat /\ actionLog[e] = Copies(k, i) /\ actionLog[e] \in Nat
      BY <3>1, <3>2 DEF Entry, Copies, DirectoriesInv, LogOK
    <3>4. Enders(k, i) \in SUBSET Client
      BY DEF Enders
    <3>5. Cardinality(Enders(k, i)) \in Nat /\ Cardinality(Client) \in Nat
      BY <3>4, FS_Subset, FS_CardinalityType
    <3>6. Copies(k, i) + Cardinality(Enders(k, i)) <= Cardinality(Client)
      BY <3>3 DEF DirectoriesInv, CountInv
    <3>7. k = "employer" => Copies(k, i) <= 1
      BY <3>3 DEF DirectoriesInv, LeaveInv
    <3> QED
      BY <3>1, <3>3, <3>5, <3>6, <3>7
  <2> QED
    BY <2>1, <2>2, <2>3, <2>4 DEF LogAccountsForRows
<1> QED
  BY <1>1, DirectoriesInvariance, PTL

\* No request revives a row that was deactivated (the UPDATEs leave the status
\* alone).
THEOREM DeactivationStays == Spec => DeactivationIsFinal
<1>1. DirectoriesInv /\ [Next]_vars => [StatusStays]_vars
  BY DirectoriesStep
<1> QED
  BY <1>1, DirectoriesInvariance, PTL DEF Spec, DeactivationIsFinal, StatusStays

============================================================================
