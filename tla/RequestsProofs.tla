-------------------------- MODULE RequestsProofs --------------------------
(***************************************************************************)
(* Proofs about module Requests, for any number of operators, rows, people *)
(* programs and employers: nobody is enrolled twice, an item is linked to  *)
(* a record of its own program and person, and a malformed row enrols      *)
(* nobody.                                                                 *)
(***************************************************************************)
EXTENDS Requests, SequenceTheorems, FunctionTheorems, FiniteSetTheorems,
        WellFoundedInduction, TLAPS

USE RowAssumption, ProgramAssumption, EmployerAssumption, BoundAssumption

\* The row and the items a request works on.
CallOK(j) ==
    /\ j.step # "idle" => j.row \in Row
    /\ j.step \in {"list", "write"} => j.row \notin Malformed
    /\ j.step = "write" => j.seen <= Len(items[j.row])

\* Items are created for a row of the workbook.
ImportOK == import.item > 0 => import.row \in Row

\* Item i, of a row that names person p, has its record among ts, and the record
\* its assignment among asg.
Linked(i, p, ts, asg) ==
    i.status # "valid" =>
        /\ i.record \in DOMAIN ts /\ ts[i.record].program = i.program
        /\ ts[i.record].assignment \in DOMAIN asg
        /\ asg[ts[i.record].assignment].worker = p

CallsInv == ImportOK /\ \A c \in Client : CallOK(call[c])

\* The inductive invariant.
RInv == EnrolledOnce /\ CallsInv /\ ItemsNameTheirRecord /\ MalformedEnrolsNobody

----------------------------------------------------------------------------
(* Finite sets of numbers in ascending order *)

\* A set of naturals that is not empty has a least element.
LEMMA LeastElement ==
    ASSUME NEW S \in SUBSET Nat, S # {}
    PROVE  \E m \in S : \A n \in S : m <= n
<1>1. PICK R : R = {ss \in Nat \X Nat : ss[1] < ss[2]}
  OBVIOUS
<1>2. IsWellFoundedOn(R, Nat)
  BY <1>1, NatLessThanWellFounded DEF OpToRel
<1>3. PICK m \in S : \A n \in S : ~(<<n, m>> \in R)
  BY <1>2, WFMin, Zenon
<1>4. \A n \in S : ~(n < m)
  BY <1>1, <1>3
<1> QED
  BY <1>4

\* The number of elements up to k is a place of k: no other element has it.
LEMMA RankType ==
    ASSUME NEW S \in SUBSET Nat, IsFiniteSet(S), NEW k \in S
    PROVE  Cardinality({j \in S : j <= k}) \in 1 .. Cardinality(S)
<1>1. PICK T : T = {j \in S : j <= k}
  OBVIOUS
<1>2. T \in SUBSET S /\ k \in T
  BY <1>1
<1>3. IsFiniteSet(T) /\ Cardinality(T) \in Nat /\ Cardinality(S) \in Nat
  BY <1>2, FS_Subset, FS_CardinalityType
<1>4. Cardinality(T) <= Cardinality(S)
  BY <1>2, FS_Subset
<1>5. Cardinality(T) # 0
  BY <1>2, <1>3, FS_EmptySet
<1> QED
  BY <1>1, <1>3, <1>4, <1>5

\* Different elements have different ranks.
LEMMA RankStrict ==
    ASSUME NEW S \in SUBSET Nat, IsFiniteSet(S), NEW k \in S, NEW m \in S, k < m
    PROVE  Cardinality({j \in S : j <= k}) # Cardinality({j \in S : j <= m})
<1>1. PICK T, U : T = {j \in S : j <= k} /\ U = {j \in S : j <= m}
  OBVIOUS
<1>2. U \in SUBSET S /\ T \in SUBSET U /\ m \in U /\ m \notin T
  <2>1. \A j \in S : j <= k => j <= m
    OBVIOUS
  <2>2. m <= m /\ ~(m <= k)
    OBVIOUS
  <2>3. m \in U /\ m \notin T
    BY <1>1, <2>2
  <2>4. U \subseteq S /\ T \subseteq U
    BY <1>1, <2>1, Zenon
  <2> QED
    BY <2>3, <2>4
<1>3. IsFiniteSet(U)
  BY <1>2, FS_Subset
<1>4. Cardinality(U) = Cardinality(T) => U = T
  BY <1>2, <1>3, FS_Subset
<1> QED
  BY <1>1, <1>2, <1>4

\* NthOf enumerates a finite set of numbers: every place from 1 to the number of
\* elements has one element, and every element has a place.
LEMMA NthOfEnumerates ==
    ASSUME NEW S \in SUBSET Nat, IsFiniteSet(S)
    PROVE  /\ Cardinality(S) \in Nat
           /\ \A i \in 1 .. Cardinality(S) : NthOf(S, i) \in S
           /\ \A i, j \in 1 .. Cardinality(S) : NthOf(S, i) = NthOf(S, j) => i = j
           /\ \A k \in S : \E i \in 1 .. Cardinality(S) : NthOf(S, i) = k
<1> DEFINE rank(k) == Cardinality({j \in S : j <= k})
<1>1. PICK n : n = Cardinality(S)
  OBVIOUS
<1>2. n \in Nat /\ IsFiniteSet(1 .. n) /\ Cardinality(1 .. n) = n
  <2>1. n \in Nat
    BY <1>1, FS_CardinalityType
  <2> QED
    BY <2>1, FS_Interval
<1>3. PICK f : f = [k \in S |-> rank(k)]
  OBVIOUS
<1>4. \A k \in S : rank(k) \in 1 .. n
  BY <1>1, RankType
<1>5. \A k, m \in S : rank(k) = rank(m) => k = m
  <2> SUFFICES ASSUME NEW k \in S, NEW m \in S, rank(k) = rank(m), k # m PROVE FALSE
    OBVIOUS
  <2>1. k < m \/ m < k
    OBVIOUS
  <2> QED
    BY <2>1, RankStrict
<1> HIDE DEF rank
<1>6. f \in Injection(S, 1 .. n)
  BY <1>3, <1>4, <1>5 DEF Injection, IsInjective
<1>7. f \in Surjection(S, 1 .. n)
  BY <1>1, <1>2, <1>6, FS_Injection
<1>8. \A i \in 1 .. n : \E k \in S : rank(k) = i
  BY <1>3, <1>7 DEF Surjection
<1>9. \A i : NthOf(S, i) = CHOOSE k \in S : rank(k) = i
  BY DEF NthOf, rank
<1>10. \A i \in 1 .. n : NthOf(S, i) \in S /\ rank(NthOf(S, i)) = i
  BY <1>8, <1>9
<1>11. \A k \in S : NthOf(S, rank(k)) = k
  BY <1>4, <1>5, <1>10
<1> QED
  BY <1>1, <1>2, <1>4, <1>10, <1>11

----------------------------------------------------------------------------
(* What ApplyRow writes *)

\* The active assignment of a person at the employer of the request is found or
\* made; it is the only one.
LEMMA AssignmentFound ==
    ASSUME RInv, NEW p \in Person, NEW asg, asg = AssignmentsWith(p)
    PROVE  /\ asg \in Seq(Assignment)
           /\ DOMAIN assignments \subseteq DOMAIN asg
           /\ \A b \in DOMAIN assignments : asg[b] = assignments[b]
           /\ \E b \in DOMAIN asg :
                asg[b] = [worker |-> p, employer |-> RequestEmployer, active |-> TRUE]
           /\ \A a, b \in DOMAIN asg :
                /\ asg[a].active /\ asg[b].active
                /\ asg[a].worker = asg[b].worker /\ asg[a].employer = asg[b].employer
                => a = b
<1>1. PICK row : row = [worker |-> p, employer |-> RequestEmployer, active |-> TRUE]
  OBVIOUS
<1>2. /\ row \in Assignment /\ row.worker = p /\ row.employer = RequestEmployer
      /\ row.active = TRUE
  BY <1>1 DEF Assignment
<1>3. assignments \in Seq(Assignment) /\ OneActiveAssignment
  BY DEF RInv, EnrolledOnce, TypeOK
<1>4. CASE ActiveAssignments(p, RequestEmployer) # {}
  <2>1. asg = assignments
    BY <1>4 DEF AssignmentsWith
  <2>2. PICK b \in DOMAIN assignments :
          /\ assignments[b].worker = p /\ assignments[b].employer = RequestEmployer
          /\ assignments[b].active
    BY <1>4 DEF ActiveAssignments
  <2>3. assignments[b] \in Assignment
    BY <1>3
  <2>4. assignments[b] = row
    BY <1>1, <2>2, <2>3 DEF Assignment
  <2> QED
    BY <1>1, <1>3, <2>1, <2>4 DEF OneActiveAssignment
<1>5. CASE ActiveAssignments(p, RequestEmployer) = {}
  <2>1. asg = Append(assignments, row)
    BY <1>1, <1>5 DEF AssignmentsWith
  <2>2. PICK n : n = Len(assignments) + 1
    OBVIOUS
  <2>3. /\ asg \in Seq(Assignment)
        /\ DOMAIN asg = DOMAIN assignments \cup {n} /\ n \notin DOMAIN assignments
        /\ \A b \in DOMAIN assignments : asg[b] = assignments[b]
        /\ asg[n] = row
    BY <1>2, <1>3, <2>1, <2>2
  <2>4. \A b \in DOMAIN assignments :
          ~(/\ assignments[b].worker = p /\ assignments[b].employer = RequestEmployer
            /\ assignments[b].active)
    BY <1>5 DEF ActiveAssignments
  <2>5. ASSUME NEW a \in DOMAIN asg, NEW b \in DOMAIN asg, asg[a].active, asg[b].active,
               asg[a].worker = asg[b].worker, asg[a].employer = asg[b].employer
        PROVE  a = b
    <3>1. CASE a \in DOMAIN assignments /\ b \in DOMAIN assignments
      BY <1>3, <2>3, <2>5, <3>1 DEF OneActiveAssignment
    <3>2. CASE a = n \/ b = n
      BY <1>2, <2>3, <2>4, <2>5, <3>2
    <3> QED
      BY <2>3, <3>1, <3>2
  <2> QED
    BY <1>1, <2>3, <2>5
<1> QED
  BY <1>4, <1>5

\* The items that get a record.
LEMMA CreatingType ==
    ASSUME NEW r, NEW n \in Nat, NEW a
    PROVE  Creating(r, n, a) \in SUBSET Nat /\ IsFiniteSet(Creating(r, n, a))
           /\ Creating(r, n, a) \subseteq 1 .. n
<1>1. Creating(r, n, a) \in SUBSET (1 .. n)
  BY DEF Creating
<1>2. IsFiniteSet(1 .. n)
  BY FS_Interval
<1> QED
  BY <1>1, <1>2, FS_Subset

\* The records after the transaction are the old ones, and one new one for each
\* program that the assignment had none of.
Recorded(r, n, a, ts) ==
    /\ ts \in Seq(Training) /\ DOMAIN trainings \subseteq DOMAIN ts
    /\ \A t \in DOMAIN trainings : ts[t] = trainings[t]
    /\ \A t \in DOMAIN ts \ DOMAIN trainings : ts[t].assignment = a /\ ts[t].row = r
    /\ \A t, u \in DOMAIN ts :
         ts[t].assignment = ts[u].assignment /\ ts[t].program = ts[u].program => t = u
    /\ \A k \in 1 .. n : Enrolments(ts, a, items[r][k].program) # {}

\* TrainingsWith creates them.
LEMMA RecordsCreated ==
    ASSUME RInv, NEW r \in Row, NEW n \in Nat, n <= Len(items[r]), NEW a \in Nat,
           NEW ts, ts = TrainingsWith(r, n, a)
    PROVE  Recorded(r, n, a, ts)
<1>1. PICK new, m, its, old :
        new = Creating(r, n, a) /\ m = Cardinality(new) /\ its = items[r] /\ old = trainings
  OBVIOUS
<1>2. /\ old \in Seq(Training) /\ its \in Seq(Item)
      /\ \A t, u \in DOMAIN old :
           old[t].assignment = old[u].assignment /\ old[t].program = old[u].program => t = u
  BY <1>1 DEF RInv, EnrolledOnce, TypeOK, OneRecordPerEnrolment
<1>3. \A k \in 1 .. n : its[k] \in Item /\ its[k].program \in Program
  <2>1. DOMAIN its = 1 .. Len(its) /\ Len(its) \in Nat /\ n <= Len(its)
    BY <1>1, <1>2
  <2>2. \A k \in 1 .. n : k \in DOMAIN its
    BY <2>1
  <2>3. \A k \in 1 .. n : its[k] \in Item
    BY <1>2, <2>2
  <2> QED
    BY <2>3 DEF Item
<1>4. new \in SUBSET Nat /\ IsFiniteSet(new) /\ new \subseteq 1 .. n
  BY <1>1, CreatingType
<1>5. /\ m \in Nat
      /\ \A i \in 1 .. m : NthOf(new, i) \in new
      /\ \A i, j \in 1 .. m : NthOf(new, i) = NthOf(new, j) => i = j
      /\ \A k \in new : \E i \in 1 .. m : NthOf(new, i) = k
  BY <1>1, <1>4, NthOfEnumerates
<1>6. \A k \in 1 .. n : k \in new <=>
        /\ \A t \in DOMAIN old : ~(old[t].assignment = a /\ old[t].program = its[k].program)
        /\ \A j \in 1 .. (k - 1) : its[j].program # its[k].program
  BY <1>1 DEF Creating, Enrolments
<1>7. PICK add : add = [i \in 1 .. m |->
        [assignment |-> a, program |-> its[NthOf(new, i)].program, row |-> r]]
  OBVIOUS
<1>8. ts = old \o add
  BY <1>1, <1>7 DEF TrainingsWith
<1>9. \A i \in 1 .. m : /\ add[i] \in Training /\ add[i].assignment = a /\ add[i].row = r
                        /\ add[i].program = its[NthOf(new, i)].program
  BY <1>3, <1>4, <1>5, <1>7 DEF Training
<1>10. add \in Seq(Training) /\ Len(add) = m /\ DOMAIN add = 1 .. m
  BY <1>5, <1>7, <1>9
<1>11. PICK len : len = Len(old)
  OBVIOUS
<1>12. /\ ts \in Seq(Training) /\ len \in Nat
       /\ DOMAIN old = 1 .. len /\ DOMAIN ts = 1 .. (len + m)
       /\ \A t \in 1 .. len : ts[t] = old[t]
       /\ \A t \in (len + 1) .. (len + m) : ts[t] = add[t - len]
  BY <1>2, <1>8, <1>10, <1>11
<1>13. ASSUME NEW t \in (len + 1) .. (len + m)
       PROVE  \E k \in new : /\ k = NthOf(new, t - len)
                             /\ ts[t].assignment = a /\ ts[t].row = r
                             /\ ts[t].program = its[k].program
  <2>1. t - len \in 1 .. m /\ ts[t] = add[t - len]
    BY <1>5, <1>12
  <2> QED
    BY <1>5, <1>9, <2>1
<1>14. \A k, j \in new : its[k].program = its[j].program => k = j
  <2> SUFFICES ASSUME NEW k \in new, NEW j \in new, its[k].program = its[j].program, k < j
               PROVE  FALSE
    BY <1>4
  <2>1. k \in 1 .. (j - 1) /\ j \in 1 .. n
    BY <1>4
  <2> QED
    BY <1>6, <2>1
<1>15. ASSUME NEW t \in DOMAIN ts, NEW u \in DOMAIN ts,
              ts[t].assignment = ts[u].assignment, ts[t].program = ts[u].program
       PROVE  t = u
  <2>1. t \in Nat /\ u \in Nat
    BY <1>12
  <2>2. CASE t \in 1 .. len /\ u \in 1 .. len
    BY <1>2, <1>12, <1>15, <2>2
  <2>3. ASSUME NEW v \in 1 .. len, NEW w \in (len + 1) .. (len + m),
               ts[v].assignment = ts[w].assignment, ts[v].program = ts[w].program
        PROVE  FALSE
    <3>1. PICK k \in new : ts[w].assignment = a /\ ts[w].program = its[k].program
      BY <1>13
    <3>2. old[v].assignment = a /\ old[v].program = its[k].program
      BY <1>12, <2>3, <3>1
    <3> QED
      BY <1>4, <1>6, <1>12, <3>2
  <2>4. CASE t \in (len + 1) .. (len + m) /\ u \in (len + 1) .. (len + m)
    <3>1. PICK k \in new : k = NthOf(new, t - len) /\ ts[t].program = its[k].program
      BY <1>13, <2>4
    <3>2. PICK j \in new : j = NthOf(new, u - len) /\ ts[u].program = its[j].program
      BY <1>13, <2>4
    <3>3. k = j
      BY <1>14, <1>15, <3>1, <3>2
    <3>4. t - len \in 1 .. m /\ u - len \in 1 .. m
      <4>1. m \in Nat /\ len \in Nat
        BY <1>5, <1>12
      <4> QED
        BY <2>4, <4>1
    <3>5. t - len = u - len
      BY <1>5, <3>1, <3>2, <3>3, <3>4
    <3> QED
      BY <1>12, <2>1, <3>5
  <2>5. /\ t \in 1 .. len \/ t \in (len + 1) .. (len + m)
        /\ u \in 1 .. len \/ u \in (len + 1) .. (len + m)
    BY <1>5, <1>12
  <2> QED
    BY <1>15, <2>2, <2>3, <2>4, <2>5
<1>16. ASSUME NEW k \in 1 .. n
       PROVE  \E t \in DOMAIN ts : ts[t].assignment = a /\ ts[t].program = its[k].program
  <2>1. CASE \E t \in DOMAIN old : old[t].assignment = a /\ old[t].program = its[k].program
    BY <1>5, <1>12, <2>1
  <2>2. CASE \A t \in DOMAIN old : ~(old[t].assignment = a /\ old[t].program = its[k].program)
    <3>1. PICK E : E = {j \in 1 .. n : its[j].program = its[k].program}
      OBVIOUS
    <3>2. E \in SUBSET Nat /\ k \in E
      BY <3>1
    <3>3. PICK j \in E : \A i \in E : j <= i
      BY <3>2, LeastElement
    <3>4. j \in 1 .. n /\ its[j].program = its[k].program
      BY <3>1, <3>3
    <3>5. \A i \in 1 .. (j - 1) : its[i].program # its[j].program
      <4> SUFFICES ASSUME NEW i \in 1 .. (j - 1), its[i].program = its[j].program PROVE FALSE
        OBVIOUS
      <4>1. i \in 1 .. n /\ i < j
        BY <3>4
      <4>2. i \in E
        BY <3>1, <3>4, <4>1
      <4> QED
        BY <3>3, <3>4, <4>1, <4>2
    <3>6. j \in new
      BY <1>6, <2>2, <3>4, <3>5
    <3>7. PICK i \in 1 .. m : NthOf(new, i) = j
      BY <1>5, <3>6
    <3>8. len + i \in (len + 1) .. (len + m) /\ (len + i) - len = i /\ len + i \in DOMAIN ts
      BY <1>5, <1>12
    <3>9. ts[len + i] = add[i]
      BY <1>12, <3>8
    <3> QED
      BY <1>9, <3>4, <3>7, <3>8, <3>9
  <2> QED
    BY <2>1, <2>2
<1>17. \A t \in DOMAIN ts \ DOMAIN old : ts[t].assignment = a /\ ts[t].row = r
  <2> SUFFICES ASSUME NEW t \in DOMAIN ts \ DOMAIN old PROVE ts[t].assignment = a /\ ts[t].row = r
    OBVIOUS
  <2>1. t \in (len + 1) .. (len + m)
    BY <1>5, <1>12
  <2> QED
    BY <1>13, <2>1
<1>18. DOMAIN old \subseteq DOMAIN ts
  BY <1>5, <1>12
<1> QED
  BY <1>1, <1>12, <1>15, <1>16, <1>17, <1>18 DEF Recorded, Enrolments

----------------------------------------------------------------------------
(* Every step keeps the invariant *)

\* Replacing an element of a sequence, and a sequence written as a function.
LEMMA Replaced ==
    ASSUME NEW S, NEW x \in Seq(S), NEW i \in DOMAIN x, NEW e \in S
    PROVE  /\ [x EXCEPT ![i] = e] \in Seq(S) /\ i \in Nat
           /\ DOMAIN [x EXCEPT ![i] = e] = DOMAIN x
           /\ [x EXCEPT ![i] = e][i] = e
           /\ \A j \in DOMAIN x : j # i => [x EXCEPT ![i] = e][j] = x[j]
OBVIOUS

\* A function on 1..n is a sequence of length n.
LEMMA FunctionIsSeq ==
    ASSUME NEW S, NEW m \in Nat, NEW f, f = [k \in 1 .. m |-> f[k]],
           \A k \in 1 .. m : f[k] \in S
    PROVE  f \in Seq(S) /\ Len(f) = m
<1>1. f \in [1 .. m -> S] /\ DOMAIN f = 1 .. m
  OBVIOUS
<1>2. f \in Seq(S)
  <2>1. \E n \in Nat : f \in [1 .. n -> S]
    BY <1>1
  <2>2. PICK n \in Nat : f \in [1 .. n -> S]
    BY <2>1
  <2>3. Seq(S) = UNION {[1 .. k -> S] : k \in Nat}
    BY SeqDef, Zenon
  <2>4. [1 .. n -> S] \in {[1 .. k -> S] : k \in Nat}
    BY <2>2, Zenon
  <2> QED
    BY <2>2, <2>3, <2>4, Zenon
<1>3. Len(f) \in Nat /\ 1 .. Len(f) = 1 .. m
  BY <1>1, <1>2, LenProperties
<1>4. Len(f) = m
  <2>1. PICK n \in Nat : n = Len(f)
    BY <1>3
  <2>2. \A k \in Nat : 1 <= k /\ k <= n <=> 1 <= k /\ k <= m
    BY <1>3, <2>1
  <2>3. n <= m
    BY <2>2
  <2>4. m <= n
    BY <2>2
  <2> QED
    BY <2>1, <2>3, <2>4
<1> QED
  BY <1>2, <1>4

\* ItemsNameTheirRecord item by item, in this and in the next state.
LEMMA ItemsLinked ==
    /\ ItemsNameTheirRecord <=> \A r \in Row : \A k \in DOMAIN items[r] :
          Linked(items[r][k], PersonOf[r], trainings, assignments)
    /\ ItemsNameTheirRecord' <=> \A r \in Row : \A k \in DOMAIN items'[r] :
          Linked(items'[r][k], PersonOf[r], trainings', assignments')
BY DEF ItemsNameTheirRecord, Linked

\* A link survives when records and assignments are added.
LEMMA LinkStays ==
    ASSUME NEW i, NEW p, NEW ts, NEW us, NEW asg, NEW bsg, Linked(i, p, ts, asg),
           DOMAIN ts \subseteq DOMAIN us, \A t \in DOMAIN ts : us[t] = ts[t],
           DOMAIN asg \subseteq DOMAIN bsg,
           \A a \in DOMAIN asg : bsg[a].worker = asg[a].worker
    PROVE  Linked(i, p, us, bsg)
BY DEF Linked

\* A step of one request that writes no table.
LEMMA CallStep ==
    ASSUME RInv, NEW c \in Client, NEW j \in Call, CallOK(j), Become(c, j),
           UNCHANGED <<tables, import>>
    PROVE  RInv'
<1>1. /\ rows' = rows /\ items' = items /\ workers' = workers
      /\ assignments' = assignments /\ trainings' = trainings /\ import' = import
      /\ call \in [Client -> Call] /\ call' = [call EXCEPT ![c] = j]
  BY DEF tables, RInv, EnrolledOnce, TypeOK, Become
<1>2. call' \in [Client -> Call] /\ \A d \in Client : call'[d] = IF d = c THEN j ELSE call[d]
  BY <1>1
<1>3. TypeOK'
  BY <1>1, <1>2 DEF RInv, EnrolledOnce, TypeOK
<1>4. (\A d \in Client : CallOK(call[d]))'
  BY <1>1, <1>2 DEF RInv, CallsInv, CallOK
<1>5. ImportOK'
  BY <1>1 DEF RInv, CallsInv, ImportOK
<1>6. OneRecordPerEnrolment' /\ OneActiveAssignment' /\ ItemsNameTheirRecord'
      /\ MalformedEnrolsNobody'
  BY <1>1 DEF RInv, EnrolledOnce, OneRecordPerEnrolment, OneActiveAssignment,
              ItemsNameTheirRecord, MalformedEnrolsNobody
<1> QED
  BY <1>3, <1>4, <1>5, <1>6 DEF RInv, EnrolledOnce, CallsInv

\* A client without a request works on nothing.
LEMMA IdleOK == Idle \in Call /\ CallOK(Idle)
<1>1. PICK j : j = [step |-> "idle", row |-> 0, seen |-> 0]
  OBVIOUS
<1>2. j.step = "idle" /\ j \in Call
  BY <1>1 DEF Call
<1> QED
  BY <1>1, <1>2 DEF Idle, CallOK

\* A request ends by setting the status of its row, not to applied.
LEMMA RowStep ==
    ASSUME RInv, NEW c \in Client, NEW r \in Row, NEW s \in RowStatus, s # "applied",
           rows' = [rows EXCEPT ![r] = s], Become(c, Idle),
           UNCHANGED <<items, workers, assignments, trainings, import>>
    PROVE  RInv'
<1>1. /\ rows \in [Row -> RowStatus] /\ items' = items /\ workers' = workers
      /\ assignments' = assignments /\ trainings' = trainings /\ import' = import
      /\ call \in [Client -> Call] /\ call' = [call EXCEPT ![c] = Idle]
  BY DEF RInv, EnrolledOnce, TypeOK, Become
<1>2. call' \in [Client -> Call] /\ \A d \in Client : call'[d] = IF d = c THEN Idle ELSE call[d]
  BY <1>1, IdleOK
<1>3. rows' \in [Row -> RowStatus] /\ \A q \in Row : rows'[q] = IF q = r THEN s ELSE rows[q]
  BY <1>1
<1>4. TypeOK'
  BY <1>1, <1>2, <1>3 DEF RInv, EnrolledOnce, TypeOK
<1>5. (\A d \in Client : CallOK(call[d]))'
  BY <1>1, <1>2, IdleOK DEF RInv, CallsInv, CallOK
<1>6. ImportOK'
  BY <1>1 DEF RInv, CallsInv, ImportOK
<1>7. OneRecordPerEnrolment' /\ OneActiveAssignment' /\ ItemsNameTheirRecord'
  BY <1>1 DEF RInv, EnrolledOnce, OneRecordPerEnrolment, OneActiveAssignment,
              ItemsNameTheirRecord
<1>8. MalformedEnrolsNobody'
  BY <1>1, <1>3 DEF RInv, MalformedEnrolsNobody
<1> QED
  BY <1>4, <1>5, <1>6, <1>7, <1>8 DEF RInv, EnrolledOnce, CallsInv

\* A step on the people pages: assignments stay with their worker.
LEMMA PeopleStep ==
    ASSUME RInv, UNCHANGED <<rows, items, trainings, import, call>>,
           workers' \subseteq Person,
           NEW asg \in Seq(Assignment), assignments' = asg,
           DOMAIN assignments \subseteq DOMAIN asg,
           \A a \in DOMAIN assignments : asg[a].worker = assignments[a].worker,
           \A a, b \in DOMAIN asg :
              /\ asg[a].active /\ asg[b].active
              /\ asg[a].worker = asg[b].worker /\ asg[a].employer = asg[b].employer
              => a = b
    PROVE  RInv'
<1>1. /\ rows' = rows /\ items' = items /\ trainings' = trainings
      /\ import' = import /\ call' = call
  OBVIOUS
<1>2. TypeOK'
  BY <1>1 DEF RInv, EnrolledOnce, TypeOK
<1>3. CallsInv'
  BY <1>1 DEF RInv, CallsInv, CallOK, ImportOK
<1>4. OneRecordPerEnrolment' /\ MalformedEnrolsNobody'
  BY <1>1 DEF RInv, EnrolledOnce, OneRecordPerEnrolment, MalformedEnrolsNobody
<1>5. OneActiveAssignment'
  BY DEF OneActiveAssignment
<1>6. ItemsNameTheirRecord'
  <2>1. \A t \in DOMAIN trainings : trainings[t] = trainings[t]
    OBVIOUS
  <2>2. ASSUME NEW r \in Row, NEW k \in DOMAIN items[r]
        PROVE  Linked(items[r][k], PersonOf[r], trainings, asg)
    <3>1. Linked(items[r][k], PersonOf[r], trainings, assignments)
      BY ItemsLinked DEF RInv
    <3> QED
      BY <2>1, <3>1, LinkStays
  <2> QED
    BY <1>1, <2>2, ItemsLinked
<1> QED
  BY <1>2, <1>3, <1>4, <1>5, <1>6 DEF RInv, EnrolledOnce

\* ImportRows creates a row.
LEMMA StageRowInv == RInv /\ StageRow => RInv'
<1> SUFFICES ASSUME RInv, StageRow PROVE RInv'
  OBVIOUS
<1>1. /\ items' = items /\ workers' = workers /\ assignments' = assignments
      /\ trainings' = trainings /\ call' = call
      /\ rows \in [Row -> RowStatus]
      /\ import \in [row: 1 .. (RowCount + 1), item: Nat] /\ import.row \in Row
  BY DEF RInv, EnrolledOnce, TypeOK, StageRow
<1>2. PICK s \in {"invalid", "parsed"} : rows' = [rows EXCEPT ![import.row] = s]
  BY DEF StageRow
<1>3. rows' \in [Row -> RowStatus] /\ \A q \in Row : rows'[q] = "applied" => rows[q] = "applied"
  BY <1>1, <1>2 DEF RowStatus
<1>4. import' \in [row: 1 .. (RowCount + 1), item: Nat] /\ ImportOK'
  <2>1. CASE import' = NextImportRow
    BY <1>1, <2>1 DEF NextImportRow, ImportOK, Row
  <2>2. CASE import' = [import EXCEPT !.item = 1]
    BY <1>1, <2>2 DEF ImportOK
  <2> QED
    BY <2>1, <2>2 DEF StageRow
<1>5. TypeOK'
  BY <1>1, <1>3, <1>4 DEF RInv, EnrolledOnce, TypeOK
<1>6. (\A d \in Client : CallOK(call[d]))'
  BY <1>1 DEF RInv, CallsInv, CallOK
<1>7. OneRecordPerEnrolment' /\ OneActiveAssignment' /\ ItemsNameTheirRecord'
  BY <1>1 DEF RInv, EnrolledOnce, OneRecordPerEnrolment, OneActiveAssignment,
              ItemsNameTheirRecord
<1>8. MalformedEnrolsNobody'
  BY <1>1, <1>3 DEF RInv, MalformedEnrolsNobody
<1> QED
  BY <1>4, <1>5, <1>6, <1>7, <1>8 DEF RInv, EnrolledOnce, CallsInv

\* ImportRows creates an item, which no request has listed yet, or goes on.
LEMMA StageItemInv == RInv /\ StageItem => RInv'
<1> SUFFICES ASSUME RInv, StageItem PROVE RInv'
  OBVIOUS
<1>1. /\ rows' = rows /\ workers' = workers /\ assignments' = assignments
      /\ trainings' = trainings /\ call' = call
      /\ items \in [Row -> Seq(Item)] /\ call \in [Client -> Call]
      /\ import \in [row: 1 .. (RowCount + 1), item: Nat]
      /\ import.item > 0 /\ import.row \in Row
  BY DEF RInv, EnrolledOnce, TypeOK, StageItem, CallsInv, ImportOK
<1>2. import' \in [row: 1 .. (RowCount + 1), item: Nat] /\ ImportOK'
  <2>1. CASE import' = NextImportRow
    BY <1>1, <2>1 DEF NextImportRow, ImportOK, Row
  <2>2. CASE import' = [import EXCEPT !.item = import.item + 1]
    BY <1>1, <2>2 DEF ImportOK
  <2>3. CASE import' = Returned
    BY <2>3 DEF Returned, ImportOK
  <2> QED
    BY <2>1, <2>2, <2>3 DEF StageItem
<1>3. /\ items' \in [Row -> Seq(Item)]
      /\ \A r \in Row : Len(items'[r]) \in Nat /\ Len(items[r]) <= Len(items'[r])
      /\ \A r \in Row : \A k \in DOMAIN items'[r] :
           items'[r][k].status # "valid" =>
             k \in DOMAIN items[r] /\ items'[r][k] = items[r][k]
  <2>1. CASE items' = items
    BY <1>1, <2>1
  <2>2. CASE items' # items
    <3>1. PICK r, k : r = import.row /\ k = import.item
      OBVIOUS
    <3>2. /\ k <= Len(ItemsOf[r]) /\ ItemsOf[r][k] # Unknown
          /\ items' = [items EXCEPT ![r] = Append(@,
               [program |-> ItemsOf[r][k], status |-> "valid", record |-> 0])]
      BY <2>2, <3>1 DEF StageItem
    <3>3. r \in Row /\ k \in 1 .. Len(ItemsOf[r])
      BY <1>1, <3>1, <3>2
    <3>4. ItemsOf[r][k] \in Program
      BY <3>2, <3>3
    <3>5. PICK i : i = [program |-> ItemsOf[r][k], status |-> "valid", record |-> 0]
      OBVIOUS
    <3>6. i \in Item /\ i.status = "valid"
      BY <3>4, <3>5 DEF Item
    <3>7. /\ items' \in [Row -> Seq(Item)] /\ items[r] \in Seq(Item)
          /\ items'[r] = Append(items[r], i) /\ \A q \in Row : q # r => items'[q] = items[q]
      BY <1>1, <3>2, <3>3, <3>5, <3>6
    <3>8. /\ Len(items[r]) <= Len(items'[r])
          /\ \A m \in DOMAIN items'[r] :
               items'[r][m] = i \/ (m \in DOMAIN items[r] /\ items'[r][m] = items[r][m])
      BY <3>6, <3>7
    <3>9. ASSUME NEW q \in Row
          PROVE  /\ Len(items'[q]) \in Nat /\ Len(items[q]) <= Len(items'[q])
                 /\ \A m \in DOMAIN items'[q] : items'[q][m].status # "valid" =>
                      m \in DOMAIN items[q] /\ items'[q][m] = items[q][m]
      <4>1. CASE q = r
        <5>1. Len(items'[r]) \in Nat
          BY <3>3, <3>7
        <5> QED
          BY <3>6, <3>8, <4>1, <5>1
      <4>2. CASE q # r
        <5>1. items'[q] = items[q] /\ items[q] \in Seq(Item)
          BY <1>1, <3>7, <4>2
        <5>2. Len(items[q]) \in Nat
          BY <5>1
        <5> QED
          BY <5>1, <5>2
      <4> QED
        BY <4>1, <4>2
    <3> QED
      BY <3>7, <3>9
  <2> QED
    BY <2>1, <2>2
<1>4. TypeOK'
  BY <1>1, <1>2, <1>3 DEF RInv, EnrolledOnce, TypeOK
<1>5. ASSUME NEW d \in Client PROVE CallOK(call[d])'
  <2>1. CallOK(call[d]) /\ call[d] \in Call /\ call'[d] = call[d]
    BY <1>1 DEF RInv, CallsInv
  <2>2. call[d].step = "write" => call[d].row \in Row /\ call[d].seen <= Len(items[call[d].row])
    BY <2>1 DEF CallOK
  <2>3. call[d].step = "write" => call[d].seen <= Len(items'[call[d].row])
    BY <1>1, <1>3, <2>1, <2>2 DEF Call
  <2> QED
    BY <2>1, <2>3 DEF CallOK
<1>6. OneRecordPerEnrolment' /\ OneActiveAssignment' /\ MalformedEnrolsNobody'
  BY <1>1 DEF RInv, EnrolledOnce, OneRecordPerEnrolment, OneActiveAssignment,
              MalformedEnrolsNobody
<1>7. ItemsNameTheirRecord'
  BY <1>1, <1>3 DEF RInv, ItemsNameTheirRecord
<1> QED
  BY <1>2, <1>4, <1>5, <1>6, <1>7 DEF RInv, EnrolledOnce, CallsInv

\* ImportRows stops.
LEMMA AbortImportInv == RInv /\ AbortImport => RInv'
<1> SUFFICES ASSUME RInv, AbortImport PROVE RInv'
  OBVIOUS
<1>1. /\ rows' = rows /\ items' = items /\ workers' = workers
      /\ assignments' = assignments /\ trainings' = trainings /\ call' = call
      /\ import' = Returned
  BY DEF tables, AbortImport
<1>2. import' \in [row: 1 .. (RowCount + 1), item: Nat] /\ ImportOK'
  BY <1>1 DEF Returned, ImportOK
<1>3. TypeOK'
  BY <1>1, <1>2 DEF RInv, EnrolledOnce, TypeOK
<1>4. (\A d \in Client : CallOK(call[d]))'
  BY <1>1 DEF RInv, CallsInv, CallOK
<1>5. OneRecordPerEnrolment' /\ OneActiveAssignment' /\ ItemsNameTheirRecord'
      /\ MalformedEnrolsNobody'
  BY <1>1 DEF RInv, EnrolledOnce, OneRecordPerEnrolment, OneActiveAssignment,
              ItemsNameTheirRecord, MalformedEnrolsNobody
<1> QED
  BY <1>2, <1>3, <1>4, <1>5 DEF RInv, EnrolledOnce, CallsInv

\* The steps of the operators' requests up to the transaction, and those that
\* end without one.
LEMMA CheckApplyInv ==
    ASSUME RInv, NEW c \in Client, NEW r \in Row, CheckApply(c, r) PROVE RInv'
<1>1. PICK s : s = IF r \in Malformed THEN "reject" ELSE "list"
  OBVIOUS
<1>2. PICK j : j = [Idle EXCEPT !.row = r, !.step = s]
  OBVIOUS
<1>3. r \in 0 .. RowCount /\ s \in {"reject", "list"}
  BY <1>1 DEF Row
<1>4. j.row = r /\ j.step = s /\ j \in Call
  BY <1>2, <1>3 DEF Idle, Call
<1>5. CallOK(j)
  BY <1>1, <1>3, <1>4 DEF CallOK
<1> QED
  BY <1>1, <1>2, <1>4, <1>5, CallStep DEF CheckApply

\* The check of a skip only reads the row.
LEMMA CheckSkipInv ==
    ASSUME RInv, NEW c \in Client, NEW r \in Row, CheckSkip(c, r) PROVE RInv'
<1>1. PICK j : j = [Idle EXCEPT !.step = "mark", !.row = r]
  OBVIOUS
<1>2. r \in 0 .. RowCount
  BY DEF Row
<1>3. j.row = r /\ j.step = "mark" /\ j \in Call
  BY <1>1, <1>2 DEF Idle, Call
<1>4. CallOK(j)
  BY <1>3 DEF CallOK
<1> QED
  BY <1>1, <1>3, <1>4, CallStep DEF CheckSkip

\* The items that an apply reads are items of its row.
LEMMA ListItemsInv ==
    ASSUME RInv, NEW c \in Client, ListItems(c) PROVE RInv'
<1>1. /\ call[c] \in Call /\ CallOK(call[c]) /\ call[c].step = "list"
      /\ items \in [Row -> Seq(Item)]
  BY DEF RInv, EnrolledOnce, TypeOK, CallsInv, ListItems, At
<1>2. call[c].row \in Row /\ call[c].row \notin Malformed
  BY <1>1 DEF CallOK
<1>3. PICK n : n = Len(items[call[c].row])
  OBVIOUS
<1>4. n \in Nat /\ n <= n
  BY <1>1, <1>2, <1>3
<1>5. PICK j : j = [call[c] EXCEPT !.step = "write", !.seen = n]
  OBVIOUS
<1>6. j \in Call /\ j.row = call[c].row /\ j.step = "write" /\ j.seen = n
  BY <1>1, <1>4, <1>5 DEF Call
<1>7. CallOK(j)
  BY <1>2, <1>3, <1>4, <1>6 DEF CallOK
<1> QED
  BY <1>3, <1>5, <1>6, <1>7, CallStep DEF ListItems

\* A malformed row ends without records.
LEMMA RejectRowInv ==
    ASSUME RInv, NEW c \in Client, RejectRow(c) PROVE RInv'
<1>1. call[c].row \in Row
  BY DEF RInv, CallsInv, CallOK, RejectRow, At
<1> QED
  BY <1>1, RowStep DEF RejectRow, RowStatus

\* A skip changes the status of its row only.
LEMMA MarkSkippedInv ==
    ASSUME RInv, NEW c \in Client, MarkSkipped(c) PROVE RInv'
<1>1. call[c].row \in Row
  BY DEF RInv, CallsInv, CallOK, MarkSkipped, At
<1> QED
  BY <1>1, RowStep DEF MarkSkipped, RowStatus

\* A request that fails or is cancelled leaves its row as it was.
LEMMA CancelInv ==
    ASSUME RInv, NEW c \in Client, Cancel(c) PROVE RInv'
BY IdleOK, CallStep DEF Cancel

\* A step that creates no record and changes no item that is there.
LEMMA NothingResolved ==
    ASSUME trainings' = trainings,
           \A r \in Row : \A k \in DOMAIN items[r] : items'[r][k] = items[r][k]
    PROVE  EnrolmentsStay
BY DEF EnrolmentsStay

\* The transaction of ApplyRow.
LEMMA ApplyRowInv ==
    ASSUME RInv, NEW c \in Client, ApplyRow(c) PROVE RInv' /\ EnrolmentsStay
<1>1. PICK r, n, p, asg, row, a, ts, its :
        /\ r = call[c].row /\ n = call[c].seen /\ p = PersonOf[r]
        /\ asg = AssignmentsWith(p)
        /\ row = [worker |-> p, employer |-> RequestEmployer, active |-> TRUE]
        /\ a = CHOOSE b \in DOMAIN asg : asg[b] = row
        /\ ts = TrainingsWith(r, n, a)
        /\ its = Resolve(r, n, a, ts)
  OBVIOUS
<1>2. /\ workers' = workers \cup {p} /\ assignments' = asg /\ trainings' = ts
      /\ items' = [items EXCEPT ![r] = its]
      /\ rows' = [rows EXCEPT ![r] = "applied"]
      /\ call' = [call EXCEPT ![c] = Idle] /\ import' = import
  BY <1>1 DEF ApplyRow, Become
<1>3. /\ call[c] \in Call /\ CallOK(call[c]) /\ call[c].step = "write"
      /\ call \in [Client -> Call] /\ rows \in [Row -> RowStatus]
      /\ items \in [Row -> Seq(Item)] /\ workers \subseteq Person
      /\ assignments \in Seq(Assignment) /\ trainings \in Seq(Training)
  BY DEF RInv, EnrolledOnce, TypeOK, CallsInv, ApplyRow, At
<1>4. r \in Row /\ r \notin Malformed /\ n \in Nat /\ n <= Len(items[r]) /\ p \in Person
  BY <1>1, <1>3 DEF CallOK, Call
<1>5. /\ asg \in Seq(Assignment) /\ DOMAIN assignments \subseteq DOMAIN asg
      /\ \A b \in DOMAIN assignments : asg[b] = assignments[b]
      /\ \E b \in DOMAIN asg : asg[b] = row
      /\ \A b, d \in DOMAIN asg :
           /\ asg[b].active /\ asg[d].active
           /\ asg[b].worker = asg[d].worker /\ asg[b].employer = asg[d].employer
           => b = d
  <2>1. /\ asg = AssignmentsWith(p) /\ p \in Person
        /\ row = [worker |-> p, employer |-> RequestEmployer, active |-> TRUE]
    BY <1>1, <1>4
  <2> HIDE <1>1
  <2> QED
    BY <2>1, AssignmentFound
<1>6. /\ a \in DOMAIN asg /\ asg[a].worker = p
      /\ asg[a].active /\ asg[a].employer = RequestEmployer
  <2>1. a \in DOMAIN asg /\ asg[a] = row
    BY <1>1, <1>5
  <2>2. row.worker = p /\ row.active /\ row.employer = RequestEmployer
    BY <1>1
  <2> QED
    BY <2>1, <2>2
<1>7. a \in Nat
  <2>1. asg \in Seq(Assignment) /\ a \in DOMAIN asg
    BY <1>5, <1>6
  <2> QED
    BY <2>1, Replaced
<1>8. /\ ts \in Seq(Training) /\ DOMAIN trainings \subseteq DOMAIN ts
      /\ \A t \in DOMAIN trainings : ts[t] = trainings[t]
      /\ \A t \in DOMAIN ts \ DOMAIN trainings : ts[t].assignment = a /\ ts[t].row = r
      /\ \A t, u \in DOMAIN ts :
           ts[t].assignment = ts[u].assignment /\ ts[t].program = ts[u].program => t = u
      /\ \A k \in 1 .. n : Enrolments(ts, a, items[r][k].program) # {}
  <2>1. /\ ts = TrainingsWith(r, n, a) /\ r \in Row /\ n \in Nat
        /\ n <= Len(items[r]) /\ a \in Nat
    BY <1>1, <1>4, <1>7
  <2>2. Recorded(r, n, a, ts)
    BY <2>1, RecordsCreated
  <2> QED
    BY <2>2 DEF Recorded
<1>9. /\ items[r] \in Seq(Item) /\ Len(items[r]) \in Nat
      /\ DOMAIN items[r] = 1 .. Len(items[r]) /\ DOMAIN its = DOMAIN items[r]
  BY <1>1, <1>3, <1>4 DEF Resolve
<1>10. ASSUME NEW k \in DOMAIN items[r]
       PROVE  /\ its[k] \in Item
              /\ k > n => its[k] = items[r][k]
              /\ its[k].program = items[r][k].program
              /\ ~(k > n) => /\ its[k].record \in DOMAIN ts
                             /\ ts[its[k].record].program = its[k].program
                             /\ ts[its[k].record].assignment = a
  <2>1. k \in Nat /\ items[r][k] \in Item
    BY <1>9
  <2>2. CASE k > n
    BY <1>1, <2>1, <2>2 DEF Resolve
  <2>3. CASE ~(k > n)
    <3>1. PICK g, s, t : /\ g = items[r][k].program
                         /\ s = (IF k \in Creating(r, n, a) THEN "applied" ELSE "duplicate")
                         /\ t = CHOOSE u \in Enrolments(ts, a, items[r][k].program) : TRUE
      OBVIOUS
    <3>2. its[k] = [program |-> g, status |-> s, record |-> t]
      BY <1>1, <2>3, <3>1 DEF Resolve
    <3>3. k \in 1 .. n
      BY <1>4, <1>9, <2>1, <2>3
    <3>4. t \in Enrolments(ts, a, g)
      BY <1>8, <3>1, <3>3
    <3>5. t \in DOMAIN ts /\ ts[t].assignment = a /\ ts[t].program = g
      BY <3>4 DEF Enrolments
    <3>6. t \in Nat
      BY <1>8, <3>5
    <3>7. g \in Program /\ s \in {"valid", "applied", "duplicate"}
      BY <2>1, <3>1 DEF Item
    <3> QED
      BY <2>3, <3>1, <3>2, <3>5, <3>6, <3>7 DEF Item
  <2> QED
    BY <2>2, <2>3
<1>11. its \in Seq(Item) /\ Len(its) = Len(items[r])
  <2>1. its = [k \in 1 .. Len(items[r]) |-> its[k]]
    BY <1>1, <1>9 DEF Resolve
  <2>2. \A k \in 1 .. Len(items[r]) : its[k] \in Item
    BY <1>9, <1>10
  <2>3. PICK m \in Nat : m = Len(items[r])
    BY <1>9
  <2>4. its = [k \in 1 .. m |-> its[k]] /\ \A k \in 1 .. m : its[k] \in Item
    BY <2>1, <2>2, <2>3
  <2>5. its \in Seq(Item) /\ Len(its) = m
    BY <2>4, FunctionIsSeq
  <2> QED
    BY <2>3, <2>5
<1>12. /\ items' \in [Row -> Seq(Item)]
       /\ \A q \in Row : items'[q] = IF q = r THEN its ELSE items[q]
  BY <1>2, <1>3, <1>4, <1>11
<1>13. /\ rows' \in [Row -> RowStatus]
       /\ \A q \in Row : q # r => rows'[q] = rows[q]
  BY <1>2, <1>3, <1>4 DEF RowStatus
<1>14. call' \in [Client -> Call] /\ \A d \in Client : call'[d] = IF d = c THEN Idle ELSE call[d]
  BY <1>2, <1>3, IdleOK
<1>15. TypeOK'
  <2>1. workers' \subseteq Person
    BY <1>2, <1>3, <1>4
  <2> QED
    BY <1>2, <1>5, <1>8, <1>12, <1>13, <1>14, <2>1 DEF RInv, EnrolledOnce, TypeOK
<1>16. OneRecordPerEnrolment'
  BY <1>2, <1>8 DEF OneRecordPerEnrolment
<1>17. OneActiveAssignment'
  BY <1>2, <1>5 DEF OneActiveAssignment
<1>18. CallsInv'
  <2>1. ASSUME NEW d \in Client PROVE CallOK(call[d])'
    <3>1. CASE d = c
      <4>1. call'[d].step = "idle"
        BY <1>14, <3>1 DEF Idle
      <4> QED
        BY <4>1 DEF CallOK
    <3>2. CASE d # c
      <4>1. CallOK(call[d]) /\ call'[d] = call[d]
        BY <1>14, <3>2 DEF RInv, CallsInv
      <4>2. \A q \in Row : Len(items'[q]) = Len(items[q])
        BY <1>11, <1>12
      <4> QED
        BY <4>1, <4>2 DEF CallOK
    <3> QED
      BY <3>1, <3>2
  <2>2. ImportOK'
    BY <1>2 DEF RInv, CallsInv, ImportOK
  <2> QED
    BY <2>1, <2>2 DEF CallsInv
<1>19. MalformedEnrolsNobody'
  <2> SUFFICES ASSUME NEW q \in Malformed
               PROVE  rows'[q] # "applied" /\ \A t \in DOMAIN ts : ts[t].row # q
    BY <1>2 DEF MalformedEnrolsNobody
  <2>1. q # r /\ q \in Row /\ rows[q] # "applied"
        /\ \A t \in DOMAIN trainings : trainings[t].row # q
    BY <1>4 DEF RInv, MalformedEnrolsNobody
  <2>2. ASSUME NEW t \in DOMAIN ts PROVE ts[t].row # q
    BY <1>8, <2>1
  <2> QED
    BY <1>13, <2>1, <2>2
<1>20. ItemsNameTheirRecord'
  <2>1. ASSUME NEW q \in Row, NEW k \in DOMAIN items'[q]
        PROVE  Linked(items'[q][k], PersonOf[q], ts, asg)
    <3>1. CASE q # r \/ k > n
      <4>1. k \in DOMAIN items[q] /\ items'[q][k] = items[q][k]
        BY <1>9, <1>10, <1>12, <3>1
      <4>2. Linked(items[q][k], PersonOf[q], trainings, assignments)
        BY <4>1, ItemsLinked DEF RInv
      <4> QED
        BY <1>5, <1>8, <4>1, <4>2, LinkStays
    <3>2. CASE q = r /\ ~(k > n)
      <4>1. k \in DOMAIN items[r] /\ items'[q][k] = its[k]
        BY <1>9, <1>12, <3>2
      <4>2. its[k].record \in DOMAIN ts /\ ts[its[k].record].program = its[k].program
            /\ ts[its[k].record].assignment = a
        BY <1>10, <3>2, <4>1
      <4>3. a \in DOMAIN asg /\ asg[a].worker = PersonOf[q]
        BY <1>1, <1>6, <3>2
      <4> QED
        BY <4>1, <4>2, <4>3 DEF Linked
    <3> QED
      BY <3>1, <3>2
  <2> QED
    BY <1>2, <2>1, ItemsLinked
<1>21. EnrolmentsStay
  <2> SUFFICES ASSUME NEW q \in Row, NEW k \in DOMAIN items[q], InForce(items[q][k])
               PROVE  /\ items'[q][k].record = items[q][k].record
                      /\ \A t \in DOMAIN ts \ DOMAIN trainings :
                           ~(ts[t].row = q /\ ts[t].program = items[q][k].program)
    BY <1>2 DEF EnrolmentsStay
  <2>1. CASE q # r
    BY <1>8, <1>12, <2>1
  <2>2. CASE q = r
    <3>1. PICK i, t, b : /\ i = items[r][k] /\ t = i.record
                         /\ b = trainings[t].assignment
      OBVIOUS
    <3>2. /\ t \in DOMAIN trainings /\ trainings[t].program = i.program
          /\ b \in DOMAIN assignments /\ assignments[b].worker = p
      BY <1>1, <1>4, <2>2, <3>1 DEF RInv, ItemsNameTheirRecord, InForce
    <3>3. assignments[b].active /\ assignments[b].employer = RequestEmployer
      BY <2>2, <3>1 DEF InForce
    <3>4. b = a
      BY <1>5, <1>6, <3>2, <3>3
    <3>5. t \in DOMAIN ts /\ ts[t].assignment = a /\ ts[t].program = i.program
      BY <1>8, <3>1, <3>2, <3>4
    <3>6. ASSUME NEW u \in DOMAIN ts \ DOMAIN trainings PROVE ts[u].program # i.program
      BY <1>8, <3>2, <3>5, <3>6
    <3>7. items'[r][k].record = t
      <4>1. items'[r][k] = its[k]
        BY <1>4, <1>12
      <4>2. CASE k > n
        BY <1>10, <2>2, <3>1, <4>1, <4>2
      <4>3. CASE ~(k > n)
        BY <1>8, <1>10, <2>2, <3>1, <3>5, <4>1, <4>3
      <4> QED
        BY <4>2, <4>3
    <3> QED
      BY <2>2, <3>1, <3>6, <3>7
  <2> QED
    BY <2>1, <2>2
<1> QED
  BY <1>15, <1>16, <1>17, <1>18, <1>19, <1>20, <1>21 DEF RInv, EnrolledOnce

\* The steps on the people pages.
LEMMA CreateWorkerInv ==
    ASSUME RInv, NEW p \in Person, CreateWorker(p) PROVE RInv'
<1>1. /\ assignments \in Seq(Assignment) /\ OneActiveAssignment /\ workers \subseteq Person
  BY DEF RInv, EnrolledOnce, TypeOK
<1>2. /\ UNCHANGED <<rows, items, trainings, import, call>>
      /\ workers' \subseteq Person /\ assignments' = assignments
  BY <1>1 DEF CreateWorker
<1> QED
  BY <1>1, <1>2, PeopleStep DEF OneActiveAssignment

\* An assignment is added only beside inactive ones of its pair.
LEMMA AssignEmployerInv ==
    ASSUME RInv, NEW p \in Person, NEW e \in Employer, AssignEmployer(p, e) PROVE RInv'
<1>1. /\ assignments \in Seq(Assignment) /\ OneActiveAssignment /\ workers \subseteq Person
  BY DEF RInv, EnrolledOnce, TypeOK
<1>2. PICK row, asg : /\ row = [worker |-> p, employer |-> e, active |-> TRUE]
                     /\ asg = Append(assignments, row)
  OBVIOUS
<1>3. /\ UNCHANGED <<rows, items, trainings, import, call>>
      /\ workers' \subseteq Person /\ assignments' = asg
  BY <1>1, <1>2 DEF AssignEmployer, SetAssignments
<1>4. row \in Assignment /\ row.worker = p /\ row.employer = e
  BY <1>2 DEF Assignment
<1>5. PICK n : n = Len(assignments) + 1
  OBVIOUS
<1>6. /\ asg \in Seq(Assignment) /\ DOMAIN asg = DOMAIN assignments \cup {n}
      /\ \A b \in DOMAIN assignments : asg[b] = assignments[b]
      /\ asg[n] = row
  BY <1>1, <1>2, <1>4, <1>5
<1>7. ASSUME NEW b \in DOMAIN assignments, assignments[b].active,
             assignments[b].worker = p, assignments[b].employer = e
      PROVE  FALSE
  <2>1. b \in {0}
    BY <1>7 DEF AssignEmployer, PairFree, ActiveAssignments
  <2> QED
    BY <1>1, <2>1
<1>8. ASSUME NEW a \in DOMAIN asg, NEW b \in DOMAIN asg, asg[a].active, asg[b].active,
             asg[a].worker = asg[b].worker, asg[a].employer = asg[b].employer
      PROVE  a = b
  <2>1. CASE a \in DOMAIN assignments /\ b \in DOMAIN assignments
    BY <1>1, <1>6, <1>8, <2>1 DEF OneActiveAssignment
  <2>2. CASE a = n \/ b = n
    BY <1>4, <1>6, <1>7, <1>8, <2>2
  <2> QED
    BY <1>6, <2>1, <2>2
<1> QED
  BY <1>3, <1>6, <1>8, PeopleStep

\* A moved assignment meets the unique index at its new employer.
LEMMA UpdateAssignmentInv ==
    ASSUME RInv, NEW i \in DOMAIN assignments, NEW e \in Employer, UpdateAssignment(i, e)
    PROVE  RInv'
<1>1. /\ assignments \in Seq(Assignment) /\ OneActiveAssignment /\ workers \subseteq Person
  BY DEF RInv, EnrolledOnce, TypeOK
<1>2. PICK row, asg : /\ row = [assignments[i] EXCEPT !.employer = e]
                     /\ asg = [assignments EXCEPT ![i] = row]
  OBVIOUS
<1>3. /\ UNCHANGED <<rows, items, trainings, import, call>>
      /\ workers' \subseteq Person /\ assignments' = asg
  BY <1>1, <1>2 DEF UpdateAssignment, SetAssignments
<1>4. assignments[i] \in Assignment
  BY <1>1
<1>5. /\ row \in Assignment /\ row.worker = assignments[i].worker
      /\ row.employer = e /\ row.active = assignments[i].active
  BY <1>2, <1>4 DEF Assignment
<1>6. /\ asg \in Seq(Assignment) /\ DOMAIN asg = DOMAIN assignments
      /\ \A b \in DOMAIN assignments : b # i => asg[b] = assignments[b]
      /\ asg[i] = row
  <2>1. asg = [assignments EXCEPT ![i] = row] /\ row \in Assignment
    BY <1>2, <1>5
  <2> QED
    BY <1>1, <2>1, Replaced
<1>7. ASSUME assignments[i].active, NEW b \in DOMAIN assignments, assignments[b].active,
             assignments[b].worker = assignments[i].worker, assignments[b].employer = e
      PROVE  b = i
  BY <1>7 DEF UpdateAssignment, PairFree, ActiveAssignments
<1>8. ASSUME NEW a \in DOMAIN asg, NEW b \in DOMAIN asg, asg[a].active, asg[b].active,
             asg[a].worker = asg[b].worker, asg[a].employer = asg[b].employer
      PROVE  a = b
  <2>1. CASE a # i /\ b # i
    BY <1>1, <1>6, <1>8, <2>1 DEF OneActiveAssignment
  <2>2. CASE a = i \/ b = i
    BY <1>5, <1>6, <1>7, <1>8, <2>2
  <2> QED
    BY <2>1, <2>2
<1>9. \A b \in DOMAIN assignments : asg[b].worker = assignments[b].worker
  BY <1>5, <1>6
<1> QED
  BY <1>3, <1>6, <1>8, <1>9, PeopleStep

\* An assignment that ends takes no record with it.
LEMMA DeactivateAssignmentInv ==
    ASSUME RInv, NEW i \in DOMAIN assignments, DeactivateAssignment(i) PROVE RInv'
<1>1. /\ assignments \in Seq(Assignment) /\ OneActiveAssignment /\ workers \subseteq Person
  BY DEF RInv, EnrolledOnce, TypeOK
<1>2. PICK row, asg : /\ row = [assignments[i] EXCEPT !.active = FALSE]
                     /\ asg = [assignments EXCEPT ![i] = row]
  OBVIOUS
<1>3. /\ UNCHANGED <<rows, items, trainings, import, call>>
      /\ workers' \subseteq Person /\ assignments' = asg
  BY <1>1, <1>2 DEF DeactivateAssignment, SetAssignments
<1>4. assignments[i] \in Assignment
  BY <1>1
<1>5. row \in Assignment /\ row.worker = assignments[i].worker /\ row.active = FALSE
  BY <1>2, <1>4 DEF Assignment
<1>6. /\ asg \in Seq(Assignment) /\ DOMAIN asg = DOMAIN assignments
      /\ \A b \in DOMAIN assignments : b # i => asg[b] = assignments[b]
      /\ asg[i] = row
  <2>1. asg = [assignments EXCEPT ![i] = row] /\ row \in Assignment
    BY <1>2, <1>5
  <2> QED
    BY <1>1, <2>1, Replaced
<1>7. ASSUME NEW a \in DOMAIN asg, NEW b \in DOMAIN asg, asg[a].active, asg[b].active,
             asg[a].worker = asg[b].worker, asg[a].employer = asg[b].employer
      PROVE  a = b
  BY <1>1, <1>5, <1>6, <1>7 DEF OneActiveAssignment
<1>8. \A b \in DOMAIN assignments : asg[b].worker = assignments[b].worker
  BY <1>5, <1>6
<1> QED
  BY <1>3, <1>6, <1>7, <1>8, PeopleStep

----------------------------------------------------------------------------
(* The theorems *)

\* The invariant holds at the start.
LEMMA RequestsStart == Init => RInv
<1> SUFFICES ASSUME Init PROVE RInv
  OBVIOUS
<1>1. /\ rows \in [Row -> RowStatus] /\ \A r \in Row : rows[r] = "absent"
      /\ items = [r \in Row |-> << >>] /\ items \in [Row -> Seq(Item)]
      /\ workers = {} /\ assignments = << >> /\ trainings = << >>
      /\ import \in [row: 1 .. (RowCount + 1), item: Nat] /\ import.item = 0
      /\ call \in [Client -> Call] /\ \A c \in Client : call[c] = Idle
  BY IdleOK DEF Init, RowStatus
<1>2. TypeOK
  BY <1>1 DEF TypeOK
<1>3. OneRecordPerEnrolment /\ OneActiveAssignment
  BY <1>1 DEF OneRecordPerEnrolment, OneActiveAssignment
<1>4. CallsInv
  BY <1>1, IdleOK DEF CallsInv, ImportOK
<1>5. ItemsNameTheirRecord
  BY <1>1 DEF ItemsNameTheirRecord
<1>6. MalformedEnrolsNobody
  BY <1>1 DEF MalformedEnrolsNobody
<1> QED
  BY <1>2, <1>3, <1>4, <1>5, <1>6 DEF RInv, EnrolledOnce

\* Every step keeps the invariant.
LEMMA RequestsStep == RInv /\ [Next]_vars => RInv'
<1> SUFFICES ASSUME RInv, [Next]_vars PROVE RInv'
  OBVIOUS
<1>1. CASE StageRow \/ StageItem \/ AbortImport
  BY <1>1, StageRowInv, StageItemInv, AbortImportInv
<1>2. ASSUME NEW c \in Client, \E r \in Row : CheckApply(c, r) \/ CheckSkip(c, r) PROVE RInv'
  BY <1>2, CheckApplyInv, CheckSkipInv
<1>3. ASSUME NEW c \in Client,
             RejectRow(c) \/ ListItems(c) \/ ApplyRow(c) \/ MarkSkipped(c) \/ Cancel(c)
      PROVE  RInv'
  BY <1>3, RejectRowInv, ListItemsInv, ApplyRowInv, MarkSkippedInv, CancelInv
<1>4. ASSUME NEW p \in Person, CreateWorker(p) \/ \E e \in Employer : AssignEmployer(p, e)
      PROVE  RInv'
  BY <1>4, CreateWorkerInv, AssignEmployerInv
<1>5. ASSUME NEW i \in DOMAIN assignments,
             (\E e \in Employer : UpdateAssignment(i, e)) \/ DeactivateAssignment(i)
      PROVE  RInv'
  BY <1>5, UpdateAssignmentInv, DeactivateAssignmentInv
<1>6. CASE UNCHANGED vars
  <2>1. /\ rows' = rows /\ items' = items /\ workers' = workers
        /\ assignments' = assignments /\ trainings' = trainings
        /\ import' = import /\ call' = call
    BY <1>6 DEF vars, tables
  <2> QED
    BY <2>1 DEF RInv, EnrolledOnce, TypeOK, OneRecordPerEnrolment, OneActiveAssignment,
                CallsInv, CallOK, ImportOK, ItemsNameTheirRecord, MalformedEnrolsNobody
<1> QED
  BY <1>1, <1>2, <1>3, <1>4, <1>5, <1>6 DEF Next

\* The inductive invariant holds in every state of every behaviour of ImportRows,
\* the operators' requests and the people pages.
THEOREM RequestsInvariance == Spec => []RInv
<1>1. Init => RInv
  BY RequestsStart
<1>2. RInv /\ [Next]_vars => RInv'
  BY RequestsStep
<1> QED
  BY <1>1, <1>2, PTL DEF Spec

\* However many operators apply rows and edit assignments at the same time, the
\* tables are well typed, nobody has two active assignments to an employer, and no
\* assignment has two records of a program (ApplyRow, UpdateAssignment).
THEOREM EnrolmentSafety == Spec => []EnrolledOnce
<1>1. RInv => EnrolledOnce
  BY DEF RInv
<1> QED
  BY <1>1, RequestsInvariance, PTL

\* An item that ApplyRow resolved is linked to a record of its own program and of
\* the person named in its row, also after the assignment was moved or closed.
THEOREM ItemsSafety == Spec => []ItemsNameTheirRecord
<1>1. RInv => ItemsNameTheirRecord
  BY DEF RInv
<1> QED
  BY <1>1, RequestsInvariance, PTL

\* No step but ApplyRow touches what an item is linked to.
LEMMA EnrolmentsStep == RInv /\ [Next]_vars => EnrolmentsStay
<1> SUFFICES ASSUME RInv, [Next]_vars PROVE EnrolmentsStay
  OBVIOUS
<1>1. CASE StageItem
  <2>1. /\ trainings' = trainings /\ items \in [Row -> Seq(Item)]
        /\ \/ items' = items
           \/ \E x : items' = [items EXCEPT ![import.row] = Append(@, x)]
    BY <1>1 DEF StageItem, RInv, EnrolledOnce, TypeOK
  <2>2. ASSUME NEW x, items' = [items EXCEPT ![import.row] = Append(@, x)],
               NEW r \in Row, NEW k \in DOMAIN items[r]
        PROVE  items'[r][k] = items[r][k]
    <3>1. PICK s : s = items[r] /\ s \in Seq(Item)
      BY <2>1
    <3>2. Append(s, x)[k] = s[k]
      BY <3>1
    <3> QED
      BY <2>1, <2>2, <3>1, <3>2
  <2> QED
    BY <2>1, <2>2, NothingResolved
<1>2. ASSUME NEW c \in Client, ApplyRow(c) PROVE EnrolmentsStay
  BY <1>2, ApplyRowInv
<1>3. CASE items' = items /\ trainings' = trainings
  BY <1>3, NothingResolved
<1>4. CASE StageRow \/ AbortImport \/ UNCHANGED vars
  BY <1>3, <1>4 DEF StageRow, AbortImport, vars, tables
<1>5. ASSUME NEW c \in Client,
             \/ \E r \in Row : CheckApply(c, r) \/ CheckSkip(c, r)
             \/ RejectRow(c) \/ ListItems(c) \/ MarkSkipped(c) \/ Cancel(c)
      PROVE  EnrolmentsStay
  BY <1>3, <1>5 DEF CheckApply, CheckSkip, RejectRow, ListItems, MarkSkipped, Cancel, tables
<1>6. ASSUME NEW p \in Person, CreateWorker(p) \/ \E e \in Employer : AssignEmployer(p, e)
      PROVE  EnrolmentsStay
  BY <1>3, <1>6 DEF CreateWorker, AssignEmployer, SetAssignments
<1>7. ASSUME NEW i \in DOMAIN assignments,
             (\E e \in Employer : UpdateAssignment(i, e)) \/ DeactivateAssignment(i)
      PROVE  EnrolmentsStay
  BY <1>3, <1>7 DEF UpdateAssignment, DeactivateAssignment, SetAssignments
<1> QED
  BY <1>1, <1>2, <1>4, <1>5, <1>6, <1>7 DEF Next

\* A row that is applied again, by a retry or by a second operator, creates nothing
\* and relinks nothing for an item whose enrolment is in force (CanTransitionRow,
\* the lookups of ApplyRow).
THEOREM ReapplySafety == Spec => ReapplyIsHarmless
BY RequestsInvariance, EnrolmentsStep, PTL DEF Spec, ReapplyIsHarmless

\* A row that fails normalisation is never applied and no record comes from it.
THEOREM MalformedSafety == Spec => []MalformedEnrolsNobody
<1>1. RInv => MalformedEnrolsNobody
  BY DEF RInv
<1> QED
  BY <1>1, RequestsInvariance, PTL

============================================================================
