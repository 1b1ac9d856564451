-------------------------- MODULE DocumentsProofs --------------------------
(***************************************************************************)
(* Proofs about modules Protocols and Documents, for any sets of requests, *)
(* generations, groups, years, suffixes and records.                       *)
(*                                                                         *)
(* Protocols: the annual numbers of a series are unique and have no gaps,  *)
(* issued protocols are numbered and final, and a training record is       *)
(* active in at most one protocol; the action log about participants is    *)
(* true and has no entry twice.                                            *)
(*                                                                         *)
(* Documents, beside the requests of Protocols: a document carries the     *)
(* number that its protocol has, names nobody twice and nobody who was     *)
(* never in the protocol, recorded documents belong to issued protocols,   *)
(* and the action log names every recorded success once.                   *)
(*                                                                         *)
(* DocumentArchive: every entry of a DOCX archive has the records of the   *)
(* program it is named after.                                              *)
(***************************************************************************)
EXTENDS DocumentArchive, FiniteSetTheorems, WellFoundedInduction, TLAPS

ProtocolRows == protocols \in Seq(Protocol)

\* MAX() of a series that is not empty exists: with it NextSequence is above
\* every number in use and its predecessor is in use.
SeriesHasMax ==
    \A g \in Group, y \in Year, x \in Suffix :
        SequenceNumbers(g, y, x) # {} =>
            \E m \in SequenceNumbers(g, y, x) :
                \A n \in SequenceNumbers(g, y, x) : n <= m

\* The inductive invariant of the numbering.
NumberingInv ==
    /\ ProtocolRows
    /\ SeriesHasMax
    /\ NumbersAreUnique
    /\ NumbersHaveNoGaps
    /\ IssuedIsNumbered

----------------------------------------------------------------------------
(* Facts about one series *)

\* A number in use belongs to a protocol of the series, and conversely.
LEMMA InUse ==
    ASSUME NEW g, NEW y, NEW x, NEW n
    PROVE  n \in SequenceNumbers(g, y, x) <=>
             \E q \in DOMAIN protocols :
               InSeries(protocols[q], g, y, x) /\ protocols[q].number.seq = n
BY DEF SequenceNumbers

\* A record with a number has the fields of Number.
LEMMA NumberFields ==
    ASSUME NEW r \in Protocol, r.number # NoNumber
    PROVE  r.number \in Number
BY DEF Protocol

\* The numbers in use are positive.
LEMMA InUsePositive ==
    ASSUME ProtocolRows, NEW g, NEW y, NEW x
    PROVE  SequenceNumbers(g, y, x) \subseteq Nat \ {0}
<1> SUFFICES ASSUME NEW n \in SequenceNumbers(g, y, x) PROVE n \in Nat \ {0}
  OBVIOUS
<1>1. PICK q \in DOMAIN protocols :
        InSeries(protocols[q], g, y, x) /\ protocols[q].number.seq = n
  BY InUse
<1>2. protocols[q] \in Protocol
  BY DEF ProtocolRows
<1>3. protocols[q].number \in Number
  BY <1>1, <1>2, NumberFields DEF InSeries
<1> QED
  BY <1>1, <1>3 DEF Number

\* What nextSequenceLocked returns.
LEMMA NextIsFresh ==
    ASSUME ProtocolRows, SeriesHasMax,
           NEW g \in Group, NEW y \in Year, NEW x \in Suffix
    PROVE  /\ NextSequence(g, y, x) \in Nat \ {0}
           /\ \A n \in SequenceNumbers(g, y, x) : n < NextSequence(g, y, x)
           /\ \/ NextSequence(g, y, x) = 1
              \/ NextSequence(g, y, x) - 1 \in SequenceNumbers(g, y, x)
<1>1. CASE SequenceNumbers(g, y, x) = {}
  BY <1>1 DEF NextSequence
<1>2. CASE SequenceNumbers(g, y, x) # {}
  <2>1. PICK used : used = SequenceNumbers(g, y, x)
    OBVIOUS
  <2>2. used \subseteq Nat \ {0}
    BY <2>1, InUsePositive
  <2>3. \E m \in used : \A n \in used : n <= m
    BY <1>2, <2>1 DEF SeriesHasMax
  <2>4. PICK top : top = CHOOSE m \in used : \A n \in used : n <= m
    OBVIOUS
  <2>5. top \in used /\ \A n \in used : n <= top
    BY <2>3, <2>4
  <2>6. NextSequence(g, y, x) = top + 1
    BY <1>2, <2>1, <2>4 DEF NextSequence
  <2>7. top + 1 \in Nat \ {0} /\ (top + 1) - 1 = top /\ \A n \in used : n < top + 1
    BY <2>2, <2>5
  <2> QED
    BY <2>1, <2>5, <2>6, <2>7
<1> QED
  BY <1>1, <1>2

----------------------------------------------------------------------------
(* Steps that touch protocols *)

\* The three ways a step changes the protocols.
Created(g) ==
    protocols' = Append(protocols, [group |-> g, status |-> "draft", number |-> NoNumber])

Fixed(p, y, m, x) ==
    /\ protocols[p].status = "draft"
    /\ protocols' = [protocols EXCEPT ![p] =
         [group |-> protocols[p].group, status |-> "fixed",
          number |-> [year |-> y, month |-> m, suffix |-> x,
                      seq |-> NextSequence(protocols[p].group, y, x)]]]

Moved(p, to) ==
    /\ CanTransition(protocols[p].status, to)
    /\ SchemaAllows(protocols[p], to)
    /\ protocols' = [protocols EXCEPT ![p] = [protocols[p] EXCEPT !.status = to]]

\* Every step leaves the protocols alone, adds a draft, numbers a draft, or
\* changes a status.
LEMMA ProtocolSteps ==
    ASSUME ProtocolRows, [Next]_vars
    PROVE  \/ UNCHANGED protocols
           \/ \E g \in Group : Created(g)
           \/ \E p \in DOMAIN protocols, y \in Year, m \in Month, x \in Suffix :
                Fixed(p, y, m, x)
           \/ \E p \in DOMAIN protocols, to \in Status : Moved(p, to)
<1>1. CASE UNCHANGED vars
  BY <1>1 DEF vars
<1>2. ASSUME NEW g \in Group, CreateProtocol(g)
      PROVE  Created(g)
  BY <1>2 DEF CreateProtocol, Created
<1>3. ASSUME NEW p \in DOMAIN protocols, NEW y \in Year, NEW m \in Month,
             NEW x \in Suffix, Fix(p, y, m, x)
      PROVE  Fixed(p, y, m, x)
  BY <1>3 DEF Fix, Fixed, ProtocolRows
<1>4. ASSUME NEW p \in DOMAIN protocols, NEW to \in Status, Transition(p, to)
      PROVE  Moved(p, to)
  BY <1>4 DEF Transition, Moved, ProtocolRows
<1>5. ASSUME NEW c \in Client, NEW p \in DOMAIN protocols, NEW r \in Record,
             CheckActive(c, p, r)
      PROVE  UNCHANGED protocols
  BY <1>5 DEF CheckActive
<1>6. ASSUME NEW c \in Client, NEW i \in DOMAIN participants, CheckRemoved(c, i)
      PROVE  UNCHANGED protocols
  BY <1>6 DEF CheckRemoved
<1>7. ASSUME NEW c \in Client,
             \/ InsertParticipant(c) \/ MarkParticipantRemoved(c)
             \/ RecordAudit(c) \/ Cancel(c)
      PROVE  UNCHANGED protocols
  BY <1>7 DEF InsertParticipant, MarkParticipantRemoved, RecordAudit, Cancel
<1> QED
  BY <1>1, <1>2, <1>3, <1>4, <1>5, <1>6, <1>7 DEF Next

\* Numbers depend on the protocols alone.
LEMMA UnchangedInv ==
    ASSUME NumberingInv, UNCHANGED protocols
    PROVE  NumberingInv'
BY DEF NumberingInv, ProtocolRows, SeriesHasMax, SequenceNumbers,
       NumbersAreUnique, NumbersHaveNoGaps, IssuedIsNumbered

\* When no protocol gains, loses or changes a number, every series keeps its
\* numbers.
LEMMA SameNumbers ==
    ASSUME ProtocolRows, NEW new, new = protocols',
           DOMAIN protocols \subseteq DOMAIN new,
           \A q \in DOMAIN protocols : new[q].group = protocols[q].group
                                       /\ new[q].number = protocols[q].number,
           \A q \in DOMAIN new \ DOMAIN protocols : new[q].number = NoNumber
    PROVE  \A g, y, x : SequenceNumbers(g, y, x)' = SequenceNumbers(g, y, x)
<1> SUFFICES ASSUME NEW g, NEW y, NEW x, NEW n
             PROVE  n \in SequenceNumbers(g, y, x)' <=> n \in SequenceNumbers(g, y, x)
  OBVIOUS
<1>1. \A q \in DOMAIN protocols :
        InSeries(new[q], g, y, x) <=> InSeries(protocols[q], g, y, x)
  BY DEF InSeries
<1>2. \A q \in DOMAIN new : InSeries(new[q], g, y, x) => q \in DOMAIN protocols
  BY DEF InSeries
<1>3. n \in SequenceNumbers(g, y, x)' <=>
        \E q \in DOMAIN new : InSeries(new[q], g, y, x) /\ new[q].number.seq = n
  BY DEF SequenceNumbers, InSeries
<1>4. n \in SequenceNumbers(g, y, x) <=>
        \E q \in DOMAIN protocols :
          InSeries(protocols[q], g, y, x) /\ protocols[q].number.seq = n
  BY InUse
<1> QED
  BY <1>1, <1>2, <1>3, <1>4

----------------------------------------------------------------------------
(* Each of the three kinds of step preserves the invariant *)

\* A new draft has no number.
LEMMA CreateInv ==
    ASSUME NumberingInv, NEW g \in Group, Created(g)
    PROVE  NumberingInv'
<1> DEFINE draft == [group |-> g, status |-> "draft", number |-> NoNumber]
<1>1. PICK old, new : old = protocols /\ new = protocols'
  OBVIOUS
<1>2. draft \in Protocol
  BY DEF Protocol, Status
<1>3. old \in Seq(Protocol) /\ new = Append(old, draft)
  BY <1>1 DEF NumberingInv, ProtocolRows, Created
<1> HIDE DEF draft
<1>4. /\ new \in Seq(Protocol)
      /\ DOMAIN new = 1 .. (Len(old) + 1)
      /\ DOMAIN old = 1 .. Len(old)
      /\ Len(old) \in Nat
      /\ \A q \in DOMAIN old : new[q] = old[q]
      /\ new[Len(old) + 1] = draft
  BY <1>2, <1>3
<1>5. DOMAIN old \subseteq DOMAIN new
  BY <1>4
<1>6. \A q \in DOMAIN new \ DOMAIN old : q = Len(old) + 1
  BY <1>4
<1>7. draft.number = NoNumber /\ draft.status = "draft"
  BY DEF draft
<1>8. \A q \in DOMAIN new : new[q].number # NoNumber => q \in DOMAIN old
  BY <1>4, <1>6, <1>7
<1>9. SeriesHasMax'
  BY <1>1, <1>4, <1>5, <1>6, <1>7, SameNumbers DEF NumberingInv, SeriesHasMax
<1>10. NumbersAreUnique'
  BY <1>1, <1>4, <1>8 DEF NumberingInv, NumbersAreUnique
<1>11. NumbersHaveNoGaps'
  <2> SUFFICES ASSUME NEW p \in DOMAIN new,
                      new[p].number # NoNumber, new[p].number.seq > 1
               PROVE  \E q \in DOMAIN new :
                        /\ new[q].number # NoNumber
                        /\ new[q].group = new[p].group
                        /\ new[q].number.year = new[p].number.year
                        /\ new[q].number.suffix = new[p].number.suffix
                        /\ new[q].number.seq = new[p].number.seq - 1
    BY <1>1 DEF NumbersHaveNoGaps
  <2>1. p \in DOMAIN old /\ new[p] = old[p]
    BY <1>4, <1>8
  <2>2. PICK q \in DOMAIN old :
          /\ old[q].number # NoNumber
          /\ old[q].group = old[p].group
          /\ old[q].number.year = old[p].number.year
          /\ old[q].number.suffix = old[p].number.suffix
          /\ old[q].number.seq = old[p].number.seq - 1
    BY <1>1, <2>1 DEF NumberingInv, NumbersHaveNoGaps
  <2> QED
    BY <1>4, <1>5, <2>1, <2>2
<1>12. IssuedIsNumbered'
  BY <1>1, <1>4, <1>6, <1>7 DEF NumberingInv, IssuedIsNumbered, Issued
<1> QED
  BY <1>1, <1>4, <1>9, <1>10, <1>11, <1>12 DEF NumberingInv, ProtocolRows

\* A transition keeps every number, and leads to an issued status only from a
\* numbered protocol.
LEMMA TransitionInv ==
    ASSUME NumberingInv, NEW p \in DOMAIN protocols, NEW to \in Status,
           Moved(p, to)
    PROVE  NumberingInv'
<1>1. PICK old, new : old = protocols /\ new = protocols'
  OBVIOUS
<1>2. PICK r : r = [old[p] EXCEPT !.status = to]
  OBVIOUS
<1>3. old \in Seq(Protocol) /\ p \in DOMAIN old /\ old[p] \in Protocol
  BY <1>1 DEF NumberingInv, ProtocolRows
<1>4. /\ r \in Protocol
      /\ r.group = old[p].group
      /\ r.number = old[p].number
      /\ r.status = to
  BY <1>2, <1>3 DEF Protocol
<1>5. /\ new \in Seq(Protocol)
      /\ DOMAIN new = DOMAIN old
      /\ \A q \in DOMAIN old : new[q] = IF q = p THEN r ELSE old[q]
  <2>1. new = [old EXCEPT ![p] = r]
    BY <1>1, <1>2 DEF Moved
  <2> QED
    BY <2>1, <1>3, <1>4
<1>6. \A q \in DOMAIN old : new[q].group = old[q].group /\ new[q].number = old[q].number
  BY <1>4, <1>5
<1>7. SeriesHasMax'
  <2>1. \A g, y, x : SequenceNumbers(g, y, x)' = SequenceNumbers(g, y, x)
    BY <1>1, <1>5, <1>6, SameNumbers DEF NumberingInv
  <2> QED
    BY <2>1 DEF NumberingInv, SeriesHasMax
<1>8. NumbersAreUnique'
  BY <1>1, <1>5, <1>6 DEF NumberingInv, NumbersAreUnique
<1>9. NumbersHaveNoGaps'
  BY <1>1, <1>5, <1>6 DEF NumberingInv, NumbersHaveNoGaps
<1>10. to # "draft"
  BY DEF Moved, CanTransition, Successor
<1>11. to \in Issued => r.number # NoNumber
  BY <1>1, <1>4 DEF Moved, SchemaAllows
<1>12. IssuedIsNumbered'
  BY <1>1, <1>4, <1>5, <1>10, <1>11 DEF NumberingInv, IssuedIsNumbered
<1> QED
  BY <1>1, <1>5, <1>7, <1>8, <1>9, <1>12 DEF NumberingInv, ProtocolRows

\* The new number is above all numbers of its series and follows the highest.
LEMMA FixInv ==
    ASSUME NumberingInv, NEW p \in DOMAIN protocols, NEW y \in Year,
           NEW m \in Month, NEW x \in Suffix, Fixed(p, y, m, x)
    PROVE  NumberingInv'
<1>1. PICK old, new : old = protocols /\ new = protocols'
  OBVIOUS
<1>2. PICK g, n : g = old[p].group /\ n = NextSequence(g, y, x)
  OBVIOUS
<1>3. PICK number : number = [year |-> y, month |-> m, suffix |-> x, seq |-> n]
  OBVIOUS
<1>4. PICK r : r = [group |-> g, status |-> "fixed", number |-> number]
  OBVIOUS
<1>5. old \in Seq(Protocol) /\ p \in DOMAIN old /\ old[p] \in Protocol /\ g \in Group
  <2>1. old \in Seq(Protocol) /\ p \in DOMAIN old /\ old[p] \in Protocol
    BY <1>1 DEF NumberingInv, ProtocolRows
  <2>2. old[p].group \in Group
    BY <2>1 DEF Protocol
  <2> QED
    BY <2>1, <2>2, <1>2
<1>6. /\ n \in Nat \ {0}
      /\ \A k \in SequenceNumbers(g, y, x) : k < n
      /\ n = 1 \/ n - 1 \in SequenceNumbers(g, y, x)
  BY <1>2, <1>5, NextIsFresh DEF NumberingInv
<1>7. number \in Number /\ number # NoNumber
  BY <1>3, <1>6, NumberAssumption DEF Number
<1>8. r \in Protocol
  BY <1>4, <1>5, <1>7 DEF Protocol, Status
<1>9. /\ new \in Seq(Protocol)
      /\ DOMAIN new = DOMAIN old
      /\ \A q \in DOMAIN old : new[q] = IF q = p THEN r ELSE old[q]
  <2>1. new = [old EXCEPT ![p] = r]
    BY <1>1, <1>2, <1>3, <1>4 DEF Fixed
  <2> QED
    BY <2>1, <1>5, <1>8
<1>10. old[p].number = NoNumber
  BY <1>1 DEF Fixed, NumberingInv, IssuedIsNumbered
<1>11. /\ r.group = g /\ r.number = number /\ r.status = "fixed"
       /\ number.year = y /\ number.suffix = x /\ number.seq = n
  BY <1>3, <1>4
<1>12. \A q \in DOMAIN old :
         /\ old[q].number # NoNumber /\ old[q].group = g
         /\ old[q].number.year = y /\ old[q].number.suffix = x
         => old[q].number.seq \in SequenceNumbers(g, y, x)
  BY <1>1, InUse DEF InSeries
<1>13. NumbersAreUnique'
  <2> SUFFICES ASSUME NEW a \in DOMAIN new, NEW b \in DOMAIN new,
                      new[a].number # NoNumber, new[b].number # NoNumber,
                      new[a].group = new[b].group,
                      new[a].number.year = new[b].number.year,
                      new[a].number.suffix = new[b].number.suffix,
                      new[a].number.seq = new[b].number.seq,
                      a # b
               PROVE  FALSE
    BY <1>1 DEF NumbersAreUnique
  <2>1. CASE a # p /\ b # p
    <3>1. new[a] = old[a] /\ new[b] = old[b] /\ a \in DOMAIN old /\ b \in DOMAIN old
      BY <2>1, <1>9
    <3> QED
      BY <3>1, <1>1 DEF NumberingInv, NumbersAreUnique
  <2>2. ASSUME NEW q \in DOMAIN old, q # p, new[q] = old[q],
               old[q].number # NoNumber, old[q].group = g,
               old[q].number.year = y, old[q].number.suffix = x,
               old[q].number.seq = n
        PROVE  FALSE
    <3>1. n \in SequenceNumbers(g, y, x)
      BY <2>2, <1>12
    <3> QED
      BY <3>1, <1>6
  <2>3. CASE a = p
    BY <2>2, <2>3, <1>9, <1>11
  <2>4. CASE b = p
    BY <2>2, <2>4, <1>9, <1>11
  <2> QED
    BY <2>1, <2>3, <2>4
<1>14. NumbersHaveNoGaps'
  <2> SUFFICES ASSUME NEW a \in DOMAIN new,
                      new[a].number # NoNumber, new[a].number.seq > 1
               PROVE  \E q \in DOMAIN new :
                        /\ new[q].number # NoNumber
                        /\ new[q].group = new[a].group
                        /\ new[q].number.year = new[a].number.year
                        /\ new[q].number.suffix = new[a].number.suffix
                        /\ new[q].number.seq = new[a].number.seq - 1
    BY <1>1 DEF NumbersHaveNoGaps
  <2>1. \A q \in DOMAIN old : old[q].number # NoNumber => q # p /\ new[q] = old[q]
    BY <1>9, <1>10
  <2>2. CASE a = p
    <3>1. n > 1 /\ n - 1 \in SequenceNumbers(g, y, x)
      BY <2>2, <1>6, <1>9, <1>11
    <3>2. PICK q \in DOMAIN old :
            InSeries(old[q], g, y, x) /\ old[q].number.seq = n - 1
      BY <3>1, <1>1, InUse
    <3> QED
      BY <3>2, <2>1, <2>2, <1>9, <1>11 DEF InSeries
  <2>3. CASE a # p
    <3>1. a \in DOMAIN old /\ new[a] = old[a]
      BY <2>3, <1>9
    <3>2. PICK q \in DOMAIN old :
            /\ old[q].number # NoNumber
            /\ old[q].group = old[a].group
            /\ old[q].number.year = old[a].number.year
            /\ old[q].number.suffix = old[a].number.suffix
            /\ old[q].number.seq = old[a].number.seq - 1
      BY <3>1, <1>1 DEF NumberingInv, NumbersHaveNoGaps
    <3> QED
      BY <3>1, <3>2, <2>1, <1>9
  <2> QED
    BY <2>2, <2>3
<1>15. SeriesHasMax'
  <2> SUFFICES ASSUME NEW h \in Group, NEW z \in Year, NEW u \in Suffix,
                      SequenceNumbers(h, z, u)' # {}
               PROVE  \E top \in SequenceNumbers(h, z, u)' :
                        \A k \in SequenceNumbers(h, z, u)' : k <= top
    BY DEF SeriesHasMax
  <2>1. \A k : k \in SequenceNumbers(h, z, u)' <=>
               \E q \in DOMAIN new : InSeries(new[q], h, z, u) /\ new[q].number.seq = k
    BY <1>1 DEF SequenceNumbers, InSeries
  <2>2. \A k : k \in SequenceNumbers(h, z, u) <=>
               \E q \in DOMAIN old : InSeries(old[q], h, z, u) /\ old[q].number.seq = k
    BY <1>1, InUse
  <2>3. \A q \in DOMAIN old : q # p =>
          (InSeries(new[q], h, z, u) <=> InSeries(old[q], h, z, u)) /\ new[q] = old[q]
    BY <1>9 DEF InSeries
  <2>4. ~InSeries(old[p], h, z, u) /\ new[p] = r
    BY <1>5, <1>9, <1>10 DEF InSeries
  <2>5. InSeries(r, h, z, u) <=> h = g /\ z = y /\ u = x
    BY <1>7, <1>11 DEF InSeries
  <2>6. CASE h = g /\ z = y /\ u = x
    <3>1. \A k : k \in SequenceNumbers(h, z, u)' <=> k \in SequenceNumbers(g, y, x) \/ k = n
      BY <2>1, <2>2, <2>3, <2>4, <2>5, <2>6, <1>5, <1>9, <1>11
    <3>2. \A k \in SequenceNumbers(g, y, x) : k \in Nat /\ k <= n
      BY <1>6, <1>2, <1>5, InUsePositive DEF NumberingInv
    <3> QED
      BY <3>1, <3>2, <1>6
  <2>7. CASE ~(h = g /\ z = y /\ u = x)
    <3>1. \A k : k \in SequenceNumbers(h, z, u)' <=> k \in SequenceNumbers(h, z, u)
      BY <2>1, <2>2, <2>3, <2>4, <2>5, <2>7, <1>9
    <3>2. SequenceNumbers(h, z, u)' = SequenceNumbers(h, z, u)
      BY <3>1
    <3> QED
      BY <3>2 DEF NumberingInv, SeriesHasMax
  <2> QED
    BY <2>6, <2>7
<1>16. IssuedIsNumbered'
  BY <1>1, <1>7, <1>9, <1>11 DEF NumberingInv, IssuedIsNumbered
<1> QED
  BY <1>1, <1>9, <1>13, <1>14, <1>15, <1>16 DEF NumberingInv, ProtocolRows

----------------------------------------------------------------------------
(* Theorems about the numbering *)

\* Before the first protocol every series is empty.
LEMMA NumberingStart == Init => NumberingInv
<1> SUFFICES ASSUME Init PROVE NumberingInv
  OBVIOUS
<1>1. protocols = << >> /\ DOMAIN protocols = {}
  BY DEF Init
<1>2. \A g, y, x : SequenceNumbers(g, y, x) = {}
  BY <1>1, InUse
<1> QED
  BY <1>1, <1>2 DEF NumberingInv, ProtocolRows, SeriesHasMax, NumbersAreUnique,
                    NumbersHaveNoGaps, IssuedIsNumbered

\* Every step keeps the invariant of the numbering.
LEMMA NumberingStep ==
    ASSUME NumberingInv, [Next]_vars
    PROVE  NumberingInv'
<1>1. ProtocolRows
  BY DEF NumberingInv
<1> QED
  BY <1>1, ProtocolSteps, UnchangedInv, CreateInv, FixInv, TransitionInv

\* The rows of protocols are well-formed, their series have a highest number, and
\* numbering is unique, gapless and tied to the status (Fix, Transition).
THEOREM NumberingInvariance == Spec => []NumberingInv
BY NumberingStart, NumberingStep, PTL DEF Spec

\* No two protocols of a group, year and suffix ever share a number, so the
\* conflict branch of Fix is never taken (nextSequenceLocked, Fix).
THEOREM NumberingUnique == Spec => []NumbersAreUnique
BY NumberingInvariance, PTL DEF NumberingInv

\* The annual numbering of every group, year and suffix has no gaps, also when
\* protocols of the series are cancelled (nextSequenceLocked, Transition).
THEOREM NumberingGapless == Spec => []NumbersHaveNoGaps
BY NumberingInvariance, PTL DEF NumberingInv

\* Issued protocols are numbered and drafts are not (Fix, the CHECK on protocols).
THEOREM IssuedNumbered == Spec => []IssuedIsNumbered
BY NumberingInvariance, PTL DEF NumberingInv

\* All numbers of a series are distinct, they are 1, 2, ... n, and the protocols
\* that are issued have one (Fix, Transition, nextSequenceLocked).
THEOREM NumberingSafety == Spec => []NumberingIsSound
BY NumberingInvariance, PTL DEF NumberingInv, NumberingIsSound

\* What a step leaves of a protocol that has a number or is closed.
Final ==
    \A p \in DOMAIN protocols :
        /\ protocols[p].number # NoNumber
             => protocols'[p].number = protocols[p].number
        /\ protocols[p].status \in {"completed", "cancelled"}
             => protocols'[p] = protocols[p]

\* No step changes a number or a closed protocol.
LEMMA StepIsFinal ==
    ASSUME NumberingInv, [Next]_vars
    PROVE  Final
<1>1. PICK old, new : old = protocols /\ new = protocols'
  OBVIOUS
<1>2. old \in Seq(Protocol) /\ \A q \in DOMAIN old : old[q] \in Protocol
  BY <1>1 DEF NumberingInv, ProtocolRows
<1>3. ASSUME NEW g \in Group, Created(g) PROVE Final
  <2>1. PICK draft : draft = [group |-> g, status |-> "draft", number |-> NoNumber]
    OBVIOUS
  <2>2. new = Append(old, draft)
    BY <1>1, <1>3, <2>1 DEF Created
  <2>3. \A q \in DOMAIN old : new[q] = old[q]
    BY <1>2, <2>2
  <2> QED
    BY <1>1, <2>3 DEF Final
<1>4. ASSUME NEW p \in DOMAIN protocols, NEW y \in Year, NEW m \in Month,
             NEW x \in Suffix, Fixed(p, y, m, x)
      PROVE  Final
  <2>1. \A q \in DOMAIN old : q # p => new[q] = old[q]
    BY <1>1, <1>2, <1>4 DEF Fixed
  <2>2. old[p].status = "draft"
    BY <1>1, <1>4 DEF Fixed
  <2>3. old[p].number = NoNumber
    BY <1>1, <2>2 DEF NumberingInv, IssuedIsNumbered
  <2> QED
    BY <1>1, <2>1, <2>2, <2>3 DEF Final
<1>5. ASSUME NEW p \in DOMAIN protocols, NEW to \in Status, Moved(p, to)
      PROVE  Final
  <2>1. PICK r : r = [old[p] EXCEPT !.status = to]
    OBVIOUS
  <2>2. new = [old EXCEPT ![p] = r]
    BY <1>1, <1>5, <2>1 DEF Moved
  <2>3. \A q \in DOMAIN old : new[q] = IF q = p THEN r ELSE old[q]
    BY <1>2, <2>2
  <2>4. r.number = old[p].number
    BY <1>1, <1>2, <2>1 DEF Protocol
  <2>5. old[p].status \notin {"completed", "cancelled"}
    BY <1>1, <1>5 DEF Moved, CanTransition, Successor
  <2> QED
    BY <1>1, <2>3, <2>4, <2>5 DEF Final
<1>6. CASE UNCHANGED protocols
  BY <1>6 DEF Final
<1>7. ProtocolRows
  BY DEF NumberingInv
<1> QED
  BY <1>3, <1>4, <1>5, <1>6, <1>7, ProtocolSteps

\* A number, once given, stays, and completed or cancelled protocols never change
\* again (Fix, validTransitions).
THEOREM IssuedStays == Spec => IssuedIsFinal
<1>1. NumberingInv /\ [Next]_vars => [Final]_vars
  BY StepIsFinal
<1> QED
  BY <1>1, NumberingInvariance, PTL DEF Spec, IssuedIsFinal, Final

----------------------------------------------------------------------------
(* Participants *)

\* The inductive invariant of the participants: AddParticipant carries a record
\* until it inserts it.
ParticipantInv ==
    /\ participants \in Seq(Participant)
    /\ call \in [Client -> Call]
    /\ \A c \in Client :
         call[c].step = "insert" => call[c].record \in Record
    /\ OneActiveProtocolPerRecord

\* A request that stands still or moves to a well-formed stage keeps the
\* invariant's part about requests.
LEMMA CallInv ==
    ASSUME ParticipantInv, NEW c \in Client, NEW j \in Call, Become(c, j),
           j.step = "insert" => j.record \in Record
    PROVE  /\ call' \in [Client -> Call]
           /\ \A d \in Client :
                call'[d].step = "insert" => call'[d].record \in Record
BY DEF ParticipantInv, Become

\* The stages a request is put into are well-formed.
LEMMA IdleCallType == Idle \in Call /\ Idle.step = "idle"
BY DEF Idle, Call

\* Inserting a record that has no active row keeps active rows unique.
LEMMA InsertUnique ==
    ASSUME ParticipantInv, NEW r \in Record, NEW p \in Nat, SlotFree(r),
           participants' = Append(participants,
             [protocol |-> p, record |-> r, status |-> "active"])
    PROVE  participants' \in Seq(Participant) /\ OneActiveProtocolPerRecord'
<1>1. PICK old, new : old = participants /\ new = participants'
  OBVIOUS
<1>2. PICK row : row = [protocol |-> p, record |-> r, status |-> "active"]
  OBVIOUS
<1>3. row \in Participant /\ row.record = r /\ row.status = "active"
  BY <1>2 DEF Participant
<1>4. old \in Seq(Participant) /\ new = Append(old, row)
  BY <1>1, <1>2 DEF ParticipantInv
<1>5. /\ new \in Seq(Participant)
      /\ DOMAIN new = DOMAIN old \cup {Len(old) + 1}
      /\ \A i \in DOMAIN old : new[i] = old[i]
      /\ new[Len(old) + 1] = row
  BY <1>3, <1>4
<1>6. \A i \in DOMAIN old : ~(old[i].record = r /\ old[i].status = "active")
  BY <1>1 DEF SlotFree, ActiveFor
<1>7. OneActiveProtocolPerRecord'
  <2> SUFFICES ASSUME NEW i \in DOMAIN new, NEW j \in DOMAIN new,
                      new[i].record = new[j].record,
                      new[i].status = "active", new[j].status = "active"
               PROVE  i = j
    BY <1>1 DEF OneActiveProtocolPerRecord
  <2>1. CASE i \in DOMAIN old /\ j \in DOMAIN old
    BY <2>1, <1>1, <1>5 DEF ParticipantInv, OneActiveProtocolPerRecord
  <2>2. CASE i \notin DOMAIN old \/ j \notin DOMAIN old
    BY <2>2, <1>3, <1>5, <1>6
  <2> QED
    BY <2>1, <2>2
<1> QED
  BY <1>1, <1>5, <1>7

\* Removing a participant keeps active rows unique.
LEMMA RemoveUnique ==
    ASSUME ParticipantInv, NEW k,
           participants' = [participants EXCEPT ![k].status = "removed"]
    PROVE  participants' \in Seq(Participant) /\ OneActiveProtocolPerRecord'
<1>1. PICK old, new : old = participants /\ new = participants'
  OBVIOUS
<1>2. PICK row : row = [old[k] EXCEPT !.status = "removed"]
  OBVIOUS
<1>3. old \in Seq(Participant) /\ new = [old EXCEPT ![k] = row]
  BY <1>1, <1>2 DEF ParticipantInv
<1>4. k \in DOMAIN old => row \in Participant /\ row.status = "removed"
  <2>1. k \in DOMAIN old => old[k] \in Participant
    BY <1>3
  <2> QED
    BY <1>2, <2>1 DEF Participant
<1>5. /\ new \in Seq(Participant)
      /\ DOMAIN new = DOMAIN old
      /\ \A i \in DOMAIN old : new[i] = IF i = k THEN row ELSE old[i]
  <2>1. CASE k \in DOMAIN old
    BY <2>1, <1>3, <1>4
  <2>2. CASE k \notin DOMAIN old
    <3>1. new = [i \in DOMAIN old |-> old[i]]
      BY <2>2, <1>3
    <3>2. old = [i \in DOMAIN old |-> old[i]]
      BY <1>3
    <3> QED
      BY <2>2, <3>1, <3>2, <1>3
  <2> QED
    BY <2>1, <2>2
<1>6. OneActiveProtocolPerRecord'
  BY <1>1, <1>4, <1>5 DEF ParticipantInv, OneActiveProtocolPerRecord
<1> QED
  BY <1>1, <1>5, <1>6

\* No request is under way at the start.
LEMMA ParticipantStart == Init => ParticipantInv
BY IdleCallType DEF Init, ParticipantInv, OneActiveProtocolPerRecord

\* Every step keeps the invariant of the participants.
LEMMA ParticipantStep ==
    ASSUME NumberingInv, ParticipantInv, [Next]_vars
    PROVE  ParticipantInv'
<1>1. ASSUME NEW c \in Client, NEW j \in Call, Become(c, j),
             j.step = "insert" => j.record \in Record,
             UNCHANGED participants
      PROVE  ParticipantInv'
  BY <1>1, CallInv DEF ParticipantInv, OneActiveProtocolPerRecord
<1>2. CASE UNCHANGED <<participants, call>>
  BY <1>2 DEF ParticipantInv, OneActiveProtocolPerRecord
<1>3. ASSUME NEW g \in Group, CreateProtocol(g) PROVE ParticipantInv'
  BY <1>2, <1>3 DEF CreateProtocol
<1>4. ASSUME NEW p \in DOMAIN protocols, NEW y \in Year, NEW m \in Month,
             NEW x \in Suffix, Fix(p, y, m, x)
      PROVE  ParticipantInv'
  BY <1>2, <1>4 DEF Fix
<1>5. ASSUME NEW p \in DOMAIN protocols, NEW to \in Status, Transition(p, to)
      PROVE  ParticipantInv'
  BY <1>2, <1>5 DEF Transition
<1>6. ASSUME NEW c \in Client, NEW p \in DOMAIN protocols, NEW r \in Record,
             CheckActive(c, p, r)
      PROVE  ParticipantInv'
  <2>1. PICK j : j = [step |-> "insert", id |-> p, record |-> r]
    OBVIOUS
  <2>2. p \in Nat
    BY DEF NumberingInv, ProtocolRows
  <2>3. j \in Call /\ j.record = r
    BY <2>1, <2>2 DEF Call
  <2> QED
    BY <1>1, <1>6, <2>1, <2>3 DEF CheckActive
<1>7. ASSUME NEW c \in Client, NEW i \in DOMAIN participants, CheckRemoved(c, i)
      PROVE  ParticipantInv'
  <2>1. PICK j : j = [Idle EXCEPT !.step = "mark", !.id = i]
    OBVIOUS
  <2>2. i \in Nat
    BY DEF ParticipantInv
  <2>3. j \in Call /\ j.step = "mark"
    BY <2>1, <2>2 DEF Idle, Call
  <2> QED
    BY <1>1, <1>7, <2>1, <2>3 DEF CheckRemoved
<1>8. ASSUME NEW c \in Client, InsertParticipant(c) PROVE ParticipantInv'
  <2>1. call[c] \in Call /\ call[c].record \in Record /\ call[c].id \in Nat
    BY <1>8 DEF ParticipantInv, InsertParticipant, At, Call
  <2>2. CASE ~SlotFree(call[c].record)
    BY <1>1, <1>8, <2>2, IdleCallType DEF InsertParticipant
  <2>3. CASE SlotFree(call[c].record)
    <3>1. PICK j : j = [Idle EXCEPT !.step = "log_add", !.id = Len(participants) + 1]
      OBVIOUS
    <3>2. Len(participants) + 1 \in Nat
      BY DEF ParticipantInv
    <3>3. j \in Call /\ j.step = "log_add"
      BY <3>1, <3>2 DEF Idle, Call
    <3>4. Become(c, j) /\ participants' = Append(participants,
            [protocol |-> call[c].id, record |-> call[c].record, status |-> "active"])
      BY <1>8, <2>3, <3>1 DEF InsertParticipant
    <3>5. participants' \in Seq(Participant) /\ OneActiveProtocolPerRecord'
      BY <2>1, <2>3, <3>4, InsertUnique
    <3> QED
      BY <3>3, <3>4, <3>5, CallInv DEF ParticipantInv
  <2> QED
    BY <2>2, <2>3
<1>9. ASSUME NEW c \in Client, MarkParticipantRemoved(c) PROVE ParticipantInv'
  <2>1. CASE Become(c, Idle) /\ UNCHANGED participants
    BY <1>1, <2>1, IdleCallType
  <2>2. CASE /\ participants' = [participants EXCEPT ![call[c].id].status = "removed"]
             /\ Become(c, [call[c] EXCEPT !.step = "log_remove"])
    <3>1. PICK j : j = [call[c] EXCEPT !.step = "log_remove"]
      OBVIOUS
    <3>2. j \in Call /\ j.step = "log_remove"
      BY <3>1 DEF ParticipantInv, Call
    <3>3. participants' \in Seq(Participant) /\ OneActiveProtocolPerRecord'
      BY <2>2, RemoveUnique
    <3> QED
      BY <2>2, <3>1, <3>2, <3>3, CallInv DEF ParticipantInv
  <2> QED
    BY <1>9, <2>1, <2>2 DEF MarkParticipantRemoved
<1>10. ASSUME NEW c \in Client, RecordAudit(c) \/ Cancel(c) PROVE ParticipantInv'
  BY <1>1, <1>10, IdleCallType DEF RecordAudit, Cancel
<1>11. CASE UNCHANGED vars
  BY <1>2, <1>11 DEF vars
<1> QED
  BY <1>3, <1>4, <1>5, <1>6, <1>7, <1>8, <1>9, <1>10, <1>11 DEF Next

\* A training record is active in at most one protocol, however many requests
\* add and remove it at the same time (AddParticipant, RemoveParticipant).
THEOREM ActiveUnique == Spec => []OneActiveProtocolPerRecord
<1>1. ParticipantInv => OneActiveProtocolPerRecord
  BY DEF ParticipantInv
<1> QED
  BY <1>1, ParticipantStart, ParticipantStep, NumberingInvariance, PTL DEF Spec

----------------------------------------------------------------------------
(* The action log about participants *)

\* The entry that a request still has to write.
Owed(j) ==
    [action |-> IF j.step = "log_add" THEN "add_participant" ELSE "remove_participant",
     id |-> j.id]

Owes(j) == j.step \in {"log_add", "log_remove"}

\* What a request has done and not yet logged: the row is there, a removed one is
\* removed, and its entry is not in the log.
OwedOK(j) ==
    /\ j.step \in {"mark", "log_add", "log_remove"} => j.id \in DOMAIN participants
    /\ j.step = "log_remove" => participants[j.id].status = "removed"
    /\ Owes(j) => Owed(j) \notin DOMAIN actionLog

\* The inductive invariant of the action log: every entry is there once and true,
\* and no two requests owe the same one.
AuditInv ==
    /\ actionLog = [e \in DOMAIN actionLog |-> 1]
    /\ DOMAIN actionLog \subseteq Entry
    /\ \A e \in DOMAIN actionLog :
         /\ e.id \in DOMAIN participants
         /\ e.action = "remove_participant" => participants[e.id].status = "removed"
    /\ \A c \in Client : OwedOK(call[c])
    /\ \A c, d \in Client :
         Owes(call[c]) /\ Owes(call[d]) /\ Owed(call[c]) = Owed(call[d]) => c = d

\* Rows stay, with their protocol and record, and a removed row stays removed.
RowsStay ==
    /\ DOMAIN participants \subseteq DOMAIN participants'
    /\ \A i \in DOMAIN participants :
         /\ participants'[i].protocol = participants[i].protocol
         /\ participants'[i].record = participants[i].record
         /\ participants[i].status = "removed" => participants'[i].status = "removed"

\* A row more.
LEMMA AppendedStays ==
    ASSUME participants \in Seq(Participant), NEW row \in Participant,
           participants' = Append(participants, row)
    PROVE  /\ RowsStay
           /\ Len(participants) + 1 \in DOMAIN participants' \ DOMAIN participants
<1>1. PICK old, new : old = participants /\ new = participants'
  OBVIOUS
<1>2. /\ DOMAIN new = DOMAIN old \cup {Len(old) + 1}
      /\ \A i \in DOMAIN old : new[i] = old[i]
      /\ Len(old) + 1 \notin DOMAIN old
  BY <1>1
<1> QED
  BY <1>1, <1>2 DEF RowsStay

\* A row removed.
LEMMA RemovedStays ==
    ASSUME participants \in Seq(Participant), NEW k \in DOMAIN participants,
           participants' = [participants EXCEPT ![k].status = "removed"]
    PROVE  RowsStay /\ participants'[k].status = "removed"
<1>1. PICK old, new : old = participants /\ new = participants'
  OBVIOUS
<1>2. PICK row : row = [old[k] EXCEPT !.status = "removed"]
  OBVIOUS
<1>3. old[k] \in Participant
  BY <1>1
<1>4. row.status = "removed" /\ row.protocol = old[k].protocol /\ row.record = old[k].record
  BY <1>2, <1>3 DEF Participant
<1>5. new = [old EXCEPT ![k] = row]
  BY <1>1, <1>2
<1>6. /\ DOMAIN new = DOMAIN old
      /\ \A i \in DOMAIN old : new[i] = IF i = k THEN row ELSE old[i]
  BY <1>1, <1>5
<1> QED
  BY <1>1, <1>4, <1>6 DEF RowsStay

\* A request moves on, rows stay and the log does: the invariant stays when the
\* request owes nothing, or an entry of its own.
LEMMA AuditMoves ==
    ASSUME ParticipantInv, AuditInv, RowsStay, UNCHANGED actionLog,
           NEW c \in Client, NEW j, Become(c, j), OwedOK(j)',
           \A d \in Client : d # c /\ Owes(call[d]) /\ Owes(j) => Owed(call[d]) # Owed(j)
    PROVE  AuditInv'
<1>1. \A d \in Client : call'[d] = IF d = c THEN j ELSE call[d]
  BY DEF ParticipantInv, Become
<1>2. \A d \in Client : OwedOK(call[d])'
  <2> SUFFICES ASSUME NEW d \in Client PROVE OwedOK(call[d])'
    OBVIOUS
  <2>1. CASE d = c
    BY <1>1, <2>1 DEF OwedOK, Owes, Owed
  <2>2. CASE d # c
    <3>1. call'[d] = call[d] /\ OwedOK(call[d])
      BY <1>1, <2>2 DEF AuditInv
    <3> QED
      BY <3>1 DEF OwedOK, RowsStay, Owes, Owed
  <2> QED
    BY <2>1, <2>2
<1>3. \A d, e \in Client :
        Owes(call'[d]) /\ Owes(call'[e]) /\ Owed(call'[d]) = Owed(call'[e]) => d = e
  BY <1>1 DEF AuditInv
<1>4. \A e \in DOMAIN actionLog :
        /\ e.id \in DOMAIN participants'
        /\ e.action = "remove_participant" => participants'[e.id].status = "removed"
  BY DEF AuditInv, RowsStay
<1> QED
  BY <1>2, <1>3, <1>4 DEF AuditInv, Owes, Owed

\* A request that owes no entry.
LEMMA NothingOwed ==
    ASSUME NEW j, j.step \in {"idle", "insert"}
    PROVE  OwedOK(j)' /\ ~Owes(j)
BY DEF OwedOK, Owes

\* Every step keeps the log true.
LEMMA AuditStep ==
    ASSUME NumberingInv, ParticipantInv, AuditInv, [Next]_vars
    PROVE  AuditInv'
<1>0. participants \in Seq(Participant) /\ call \in [Client -> Call]
  BY DEF ParticipantInv
<1>1. CASE UNCHANGED <<participants, call, actionLog>>
  BY <1>1 DEF AuditInv, OwedOK, Owes, Owed
<1>2. ASSUME UNCHANGED participants PROVE RowsStay
  BY <1>2 DEF RowsStay
<1>3. ASSUME NEW c \in Client, Become(c, Idle), UNCHANGED <<participants, actionLog>>
      PROVE  AuditInv'
  BY <1>2, <1>3, IdleCallType, NothingOwed, AuditMoves
<1>4. ASSUME NEW c \in Client, NEW p \in DOMAIN protocols, NEW r \in Record,
             CheckActive(c, p, r)
      PROVE  AuditInv'
  <2>1. PICK j : j = [step |-> "insert", id |-> p, record |-> r]
    OBVIOUS
  <2>2. j.step = "insert" /\ Become(c, j) /\ UNCHANGED <<participants, actionLog>>
    BY <1>4, <2>1 DEF CheckActive
  <2> QED
    BY <1>2, <2>2, NothingOwed, AuditMoves
<1>5. ASSUME NEW c \in Client, NEW i \in DOMAIN participants, CheckRemoved(c, i)
      PROVE  AuditInv'
  <2>1. PICK j : j = [Idle EXCEPT !.step = "mark", !.id = i]
    OBVIOUS
  <2>2. j.step = "mark" /\ j.id = i
    BY <2>1 DEF Idle
  <2>3. Become(c, j) /\ UNCHANGED <<participants, actionLog>>
    BY <1>5, <2>1 DEF CheckRemoved
  <2>4. OwedOK(j)' /\ ~Owes(j)
    BY <2>2, <2>3 DEF OwedOK, Owes
  <2> QED
    BY <1>2, <2>3, <2>4, AuditMoves
<1>6. ASSUME NEW c \in Client, InsertParticipant(c)
      PROVE  AuditInv'
  <2>1. CASE ~SlotFree(call[c].record)
    BY <1>3, <1>6, <2>1 DEF InsertParticipant
  <2>2. CASE SlotFree(call[c].record)
    <3>1. PICK j : j = [Idle EXCEPT !.step = "log_add", !.id = Len(participants) + 1]
      OBVIOUS
    <3>2. j.step = "log_add" /\ j.id = Len(participants) + 1
      BY <3>1 DEF Idle
    <3>3. PICK row : row = [protocol |-> call[c].id, record |-> call[c].record,
                            status |-> "active"]
      OBVIOUS
    <3>4. /\ Become(c, j) /\ participants' = Append(participants, row)
          /\ UNCHANGED actionLog
      BY <1>6, <2>2, <3>1, <3>3 DEF InsertParticipant
    <3>5. row \in Participant
      <4>1. call[c].record \in Record /\ call[c].id \in Nat
        BY <1>0, <1>6 DEF ParticipantInv, InsertParticipant, At, Call
      <4> QED
        BY <3>3, <4>1 DEF Participant
    <3>6. RowsStay /\ j.id \in DOMAIN participants' \ DOMAIN participants
      BY <1>0, <3>2, <3>4, <3>5, AppendedStays
    <3>7. Owed(j).id = j.id /\ \A d \in Client : Owed(call[d]).id = call[d].id
      BY DEF Owed
    <3>8. Owed(j) \notin DOMAIN actionLog
      BY <3>6, <3>7 DEF AuditInv
    <3>9. OwedOK(j)'
      BY <3>2, <3>4, <3>6, <3>8 DEF OwedOK, Owes, Owed
    <3>10. \A d \in Client : Owes(call[d]) => Owed(call[d]) # Owed(j)
      BY <3>6, <3>7 DEF AuditInv, OwedOK, Owes
    <3> QED
      BY <3>4, <3>6, <3>9, <3>10, AuditMoves
  <2> QED
    BY <2>1, <2>2
<1>7. ASSUME NEW c \in Client, MarkParticipantRemoved(c)
      PROVE  AuditInv'
  <2>1. call[c] \in Call /\ call[c].step = "mark" /\ call[c].id \in DOMAIN participants
    BY <1>0, <1>7 DEF MarkParticipantRemoved, At, AuditInv, OwedOK
  <2>2. CASE participants[call[c].id].status # "active"
    BY <1>3, <1>7, <2>2 DEF MarkParticipantRemoved
  <2>3. CASE participants[call[c].id].status = "active"
    <3>1. PICK j : j = [call[c] EXCEPT !.step = "log_remove"]
      OBVIOUS
    <3>2. j.step = "log_remove" /\ j.id = call[c].id
      BY <2>1, <3>1 DEF Call
    <3>3. /\ Become(c, j) /\ UNCHANGED actionLog
          /\ participants' = [participants EXCEPT ![call[c].id].status = "removed"]
      BY <1>7, <2>3, <3>1 DEF MarkParticipantRemoved
    <3>4. RowsStay /\ participants'[j.id].status = "removed" /\ j.id \in DOMAIN participants'
      BY <1>0, <2>1, <3>2, <3>3, RemovedStays DEF RowsStay
    <3>5. /\ Owed(j).id = j.id /\ Owed(j).action = "remove_participant"
          /\ \A d \in Client :
               /\ Owed(call[d]).id = call[d].id
               /\ Owes(call[d]) /\ Owed(call[d]).action = "remove_participant"
                    => call[d].step = "log_remove"
      BY <3>2 DEF Owed, Owes
    <3>6. Owed(j) \notin DOMAIN actionLog
      BY <2>3, <3>2, <3>5 DEF AuditInv
    <3>7. OwedOK(j)'
      BY <3>2, <3>3, <3>4, <3>6 DEF OwedOK, Owes, Owed
    <3>8. \A d \in Client : Owes(call[d]) => Owed(call[d]) # Owed(j)
      <4> SUFFICES ASSUME NEW d \in Client, Owes(call[d]), Owed(call[d]) = Owed(j)
                   PROVE  FALSE
        OBVIOUS
      <4>1. call[d].step = "log_remove" /\ call[d].id = call[c].id
        BY <3>2, <3>5
      <4>2. participants[call[d].id].status = "removed"
        BY <4>1 DEF AuditInv, OwedOK
      <4> QED
        BY <2>3, <4>1, <4>2
    <3> QED
      BY <3>3, <3>4, <3>7, <3>8, AuditMoves
  <2> QED
    BY <2>2, <2>3
<1>8. ASSUME NEW c \in Client, RecordAudit(c)
      PROVE  AuditInv'
  <2>1. Become(c, Idle) /\ UNCHANGED participants /\ Owes(call[c])
    BY <1>8 DEF RecordAudit, Owes
  <2>2. CASE UNCHANGED actionLog
    BY <1>3, <2>1, <2>2
  <2>3. CASE ~UNCHANGED actionLog
    <3>1. PICK o : o = Owed(call[c])
      OBVIOUS
    <3>2. actionLog' = actionLog (+) SetToBag({o})
      BY <1>8, <2>3, <3>1 DEF RecordAudit, Owed, At
    <3>3. PICK D : D = DOMAIN actionLog
      OBVIOUS
    <3>4. actionLog = [e \in D |-> 1] /\ o \notin D
      BY <2>1, <3>1, <3>3 DEF AuditInv, OwedOK
    <3>5. actionLog' = [e \in D \cup {o} |->
            (IF e \in D THEN actionLog[e] ELSE 0) + (IF e \in {o} THEN 1 ELSE 0)]
      BY <3>2, <3>3 DEF (+), SetToBag
    <3>6. actionLog' = [e \in D \cup {o} |-> 1]
      BY <3>4, <3>5
    <3>7. /\ actionLog' = [e \in DOMAIN actionLog' |-> 1]
          /\ DOMAIN actionLog' = DOMAIN actionLog \cup {o}
      BY <3>3, <3>6
    <3>8. call[c].id \in DOMAIN participants /\ call[c].id \in Nat
      BY <1>0, <2>1 DEF AuditInv, OwedOK, Owes
    <3>9. /\ o \in Entry /\ o.id \in DOMAIN participants
          /\ o.action = "remove_participant" => participants[o.id].status = "removed"
      BY <2>1, <3>1, <3>8 DEF Owed, Entry, AuditInv, OwedOK, Owes
    <3>10. \A d \in Client : call'[d] = IF d = c THEN Idle ELSE call[d]
      BY <1>0, <2>1 DEF Become
    <3>11. \A d \in Client : d # c /\ Owes(call[d]) => Owed(call[d]) # o
      BY <2>1, <3>1 DEF AuditInv
    <3>12. \A d \in Client : OwedOK(call[d])'
      <4> SUFFICES ASSUME NEW d \in Client PROVE OwedOK(call[d])'
        OBVIOUS
      <4>1. CASE d = c
        BY <3>10, <4>1, IdleCallType DEF OwedOK, Owes
      <4>2. CASE d # c
        <5>1. call'[d] = call[d] /\ OwedOK(call[d])
          BY <3>10, <4>2 DEF AuditInv
        <5> QED
          BY <2>1, <3>7, <3>11, <4>2, <5>1 DEF OwedOK, Owes, Owed
      <4> QED
        BY <4>1, <4>2
    <3>13. \A d, e \in Client :
             Owes(call'[d]) /\ Owes(call'[e]) /\ Owed(call'[d]) = Owed(call'[e]) => d = e
      BY <3>10, IdleCallType DEF AuditInv, Owes
    <3> QED
      BY <2>1, <3>7, <3>9, <3>12, <3>13 DEF AuditInv, Owes, Owed
  <2> QED
    BY <2>2, <2>3
<1>9. ASSUME NEW c \in Client, Cancel(c) PROVE AuditInv'
  BY <1>3, <1>9 DEF Cancel
<1> QED
  BY <1>1, <1>4, <1>5, <1>6, <1>7, <1>8, <1>9
  DEF Next, vars, CreateProtocol, Fix, Transition

\* The action log tells the truth about participants and tells it once, however many
\* requests add and remove them (recordAudit, AddParticipant, RemoveParticipant).
THEOREM AuditSafety == Spec => []LogMatchesRows
<1>1. Init => AuditInv
  <2> SUFFICES ASSUME Init PROVE AuditInv
    OBVIOUS
  <2>1. actionLog = [e \in {} |-> 1] /\ DOMAIN actionLog = {}
    BY DEF Init, EmptyBag, SetToBag
  <2>2. \A c \in Client : call[c] = Idle /\ call[c].step = "idle"
    BY IdleCallType DEF Init
  <2> QED
    BY <2>1, <2>2 DEF AuditInv, OwedOK, Owes
<1>2. NumberingInv /\ ParticipantInv /\ AuditInv => LogMatchesRows
  <2> SUFFICES ASSUME NumberingInv, ParticipantInv, AuditInv PROVE LogMatchesRows
    OBVIOUS
  <2>1. PICK D : D = DOMAIN actionLog
    OBVIOUS
  <2>2. actionLog = [e \in D |-> 1]
    BY <2>1 DEF AuditInv
  <2>3. IsABag(actionLog) /\ BagToSet(actionLog) = D
    BY <2>1, <2>2 DEF IsABag, BagToSet
  <2>4. TypeOK
    BY <2>1, <2>3 DEF TypeOK, NumberingInv, ProtocolRows, ParticipantInv, AuditInv
  <2>5. LogIsTruthful
    BY <2>1, <2>2, <2>3 DEF LogIsTruthful, AuditInv
  <2> QED
    BY <2>4, <2>5 DEF LogMatchesRows
<1> QED
  BY <1>1, <1>2, ParticipantStart, ParticipantStep, AuditStep, NumberingInvariance, PTL
  DEF Spec

----------------------------------------------------------------------------
(* Generations beside the requests *)

Step == {"idle", "list", "load", "insert", "log"}

\* The job has read the number of its protocol and goes on with it.
HasNumber(j) ==
    /\ j.protocol \in DOMAIN protocols
    /\ protocols[j.protocol].number # NoNumber
    /\ j.number = protocols[j.protocol].number
    /\ \A i \in DOMAIN j.set : j.set[i].number = j.number

\* Participants still to be loaded and records already in the registry set are of
\* the job's protocol, and no record is met twice.
Listed(j) ==
    /\ \A i \in j.rest :
         i \in DOMAIN participants /\ participants[i].protocol = j.protocol
    /\ \A i, k \in j.rest : participants[i].record = participants[k].record => i = k
    /\ \A i \in DOMAIN j.set : \E k \in DOMAIN participants :
         /\ participants[k].protocol = j.protocol
         /\ participants[k].record = j.set[i].record
    /\ \A i, k \in DOMAIN j.set : j.set[i].record = j.set[k].record => i = k
    /\ \A i \in DOMAIN j.set, k \in j.rest : j.set[i].record # participants[k].record
    /\ j.step = "list" => j.rest = {} /\ j.set = << >>

JobOK(j) == j \in Job /\ (j.step # "idle" => HasNumber(j) /\ Listed(j))

JobsInv == job = [g \in Generator |-> job[g]] /\ \A g \in Generator : JobOK(job[g])

RunOK(r) ==
    r.status = "success" =>
        r.protocol \in DOMAIN protocols /\ protocols[r.protocol].number # NoNumber

RunsInv == runs \in Seq(Run) /\ \A r \in DOMAIN runs : RunOK(runs[r])

\* A run that is still to be logged is a success of its own.
ToLog(j) ==
    j.step = "log" => /\ j.run \in DOMAIN runs
                      /\ runs[j.run].status = "success"
                      /\ j.run \notin DOMAIN completed

LogInv ==
    /\ completed = [r \in DOMAIN completed |-> 1]
    /\ \A r \in DOMAIN completed : r \in DOMAIN runs /\ runs[r].status = "success"
    /\ \A g \in Generator : ToLog(job[g])
    /\ \A g, h \in Generator :
         InStep(g, "log") /\ InStep(h, "log") /\ job[g].run = job[h].run => g = h

\* The inductive invariant of the generations.
DocumentsInv == NumberingInv /\ ParticipantInv /\ JobsInv /\ RunsInv /\ LogInv

----------------------------------------------------------------------------
(* Steps of other requests *)

\* No step of Protocols takes a protocol or its number away.
LEMMA ProtocolsStay ==
    ASSUME NumberingInv, [Next]_vars
    PROVE  /\ DOMAIN protocols \subseteq DOMAIN protocols'
           /\ \A p \in DOMAIN protocols : protocols[p].number # NoNumber
                => protocols'[p].number = protocols[p].number
<1>1. protocols \in Seq(Protocol)
  BY DEF NumberingInv, ProtocolRows
<1>2. ASSUME NEW g \in Group, Created(g)
      PROVE  DOMAIN protocols \subseteq DOMAIN protocols'
  <2>1. PICK old, new : old = protocols /\ new = protocols'
    OBVIOUS
  <2>2. PICK draft : new = Append(old, draft)
    BY <1>2, <2>1 DEF Created
  <2> QED
    BY <1>1, <2>1, <2>2
<1>3. ASSUME NEW p \in DOMAIN protocols, NEW y \in Year, NEW m \in Month,
             NEW x \in Suffix, Fixed(p, y, m, x)
      PROVE  DOMAIN protocols \subseteq DOMAIN protocols'
  BY <1>1, <1>3 DEF Fixed
<1>4. ASSUME NEW p \in DOMAIN protocols, NEW to \in Status, Moved(p, to)
      PROVE  DOMAIN protocols \subseteq DOMAIN protocols'
  BY <1>1, <1>4 DEF Moved
<1>5. DOMAIN protocols \subseteq DOMAIN protocols'
  BY <1>1, <1>2, <1>3, <1>4, ProtocolSteps DEF ProtocolRows
<1>6. Final
  BY StepIsFinal
<1> QED
  BY <1>5, <1>6 DEF Final

\* No step of Protocols takes a participant's row away or changes whose it is.
LEMMA ParticipantsStay ==
    ASSUME ParticipantInv, [Next]_vars
    PROVE  RowsStay
<1>0. participants \in Seq(Participant) /\ call \in [Client -> Call]
  BY DEF ParticipantInv
<1>1. CASE UNCHANGED participants
  BY <1>1 DEF RowsStay
<1>2. ASSUME NEW c \in Client, InsertParticipant(c), ~UNCHANGED participants
      PROVE  RowsStay
  <2>1. PICK row : row = [protocol |-> call[c].id, record |-> call[c].record,
                          status |-> "active"]
    OBVIOUS
  <2>2. participants' = Append(participants, row)
    BY <1>2, <2>1 DEF InsertParticipant
  <2>3. call[c].record \in Record /\ call[c].id \in Nat
    BY <1>0, <1>2 DEF ParticipantInv, InsertParticipant, At, Call
  <2>4. row \in Participant
    BY <2>1, <2>3 DEF Participant
  <2> QED
    BY <1>0, <2>2, <2>4, AppendedStays
<1>3. ASSUME NEW c \in Client, MarkParticipantRemoved(c), ~UNCHANGED participants
      PROVE  RowsStay
  <2>1. participants' = [participants EXCEPT ![call[c].id].status = "removed"]
    BY <1>3 DEF MarkParticipantRemoved
  <2>2. CASE call[c].id \in DOMAIN participants
    BY <1>0, <2>1, <2>2, RemovedStays
  <2>3. CASE call[c].id \notin DOMAIN participants
    <3>1. participants' = [i \in DOMAIN participants |-> participants[i]]
      BY <2>1, <2>3
    <3>2. participants = [i \in DOMAIN participants |-> participants[i]]
      BY <1>0
    <3> QED
      BY <1>1, <3>1, <3>2
  <2> QED
    BY <2>2, <2>3
<1> QED
  BY <1>1, <1>2, <1>3
  DEF Next, vars, CreateProtocol, Fix, Transition, CheckActive, CheckRemoved, RecordAudit,
      Cancel

\* Rows that stay keep a job in order.
LEMMA ListedStays ==
    ASSUME NEW j, Listed(j), RowsStay
    PROVE  Listed(j)'
<1>1. \A i \in j.rest : i \in DOMAIN participants
  BY DEF Listed
<1>2. \A i \in DOMAIN participants :
        /\ i \in DOMAIN participants'
        /\ participants'[i].protocol = participants[i].protocol
        /\ participants'[i].record = participants[i].record
  BY DEF RowsStay
<1> QED
  BY <1>1, <1>2 DEF Listed

\* A step of Protocols keeps the invariant of the generations.
LEMMA OtherRequests ==
    ASSUME DocumentsInv, [Next]_vars, UNCHANGED docVars
    PROVE  DocumentsInv'
<1>1. NumberingInv /\ NumberingInv'
  BY NumberingStep DEF DocumentsInv
<1>2. /\ DOMAIN protocols \subseteq DOMAIN protocols'
      /\ \A p \in DOMAIN protocols : protocols[p].number # NoNumber
           => protocols'[p].number = protocols[p].number
  BY <1>1, ProtocolsStay
<1>3. job' = job /\ runs' = runs /\ completed' = completed
  BY DEF docVars
<1>4. JobsInv'
  <2>1. RowsStay
    BY ParticipantsStay DEF DocumentsInv
  <2>2. ASSUME NEW g \in Generator PROVE JobOK(job[g])'
    <3>1. JobOK(job[g])
      BY DEF DocumentsInv, JobsInv
    <3>2. job[g].step # "idle" => HasNumber(job[g])'
      BY <1>2, <1>3, <3>1 DEF JobOK, HasNumber
    <3>3. job[g].step # "idle" => Listed(job[g])'
      <4>1. PICK j : j = job[g]
        OBVIOUS
      <4>2. j.step # "idle" => Listed(j)'
        BY <2>1, <3>1, <4>1, ListedStays DEF JobOK
      <4> QED
        BY <1>3, <4>1, <4>2 DEF Listed
    <3> QED
      BY <1>3, <3>1, <3>2, <3>3 DEF JobOK
  <2> QED
    BY <1>3, <2>2 DEF DocumentsInv, JobsInv
<1>5. RunsInv'
  BY <1>2, <1>3 DEF DocumentsInv, RunsInv, RunOK
<1>6. LogInv'
  BY <1>3 DEF DocumentsInv, LogInv, ToLog, InStep
<1>7. ParticipantInv'
  BY <1>1, ParticipantStep DEF DocumentsInv
<1> QED
  BY <1>1, <1>4, <1>5, <1>6, <1>7 DEF DocumentsInv

----------------------------------------------------------------------------
(* Steps of a generation *)

\* A request that ends has no job.
LEMMA NoJobOK == JobOK(NoJob) /\ NoJob.step = "idle"
<1>1. NoJob \in Job /\ NoJob.step = "idle"
  BY DEF NoJob, Job, Type
<1> QED
  BY <1>1 DEF JobOK

\* recordGenerationRun adds a row at the end or nothing.
LEMMA Recorded ==
    ASSUME RunsInv, NEW p \in Nat, NEW t \in Type, NEW s \in {"success", "failed"},
           RecordRun(p, t, s), UNCHANGED protocols,
           s = "success" =>
               p \in DOMAIN protocols /\ protocols[p].number # NoNumber
    PROVE  /\ RunsInv'
           /\ DOMAIN runs \subseteq DOMAIN runs'
           /\ \A r \in DOMAIN runs : runs'[r] = runs[r]
           /\ runs' # runs => /\ Len(runs') \in DOMAIN runs' \ DOMAIN runs
                              /\ runs'[Len(runs')].status = s
<1>1. PICK row : row = [protocol |-> p, type |-> t, status |-> s]
  OBVIOUS
<1>2. row \in Run /\ row.status = s /\ row.protocol = p
  BY <1>1 DEF Run
<1>3. RunOK(row)
  BY <1>2 DEF RunOK
<1>4. PICK old, new : old = runs /\ new = runs'
  OBVIOUS
<1>5. CASE UNCHANGED runs
  BY <1>5 DEF RunsInv, RunOK
<1>6. CASE new = Append(old, row)
  <2>1. old \in Seq(Run) /\ new \in Seq(Run)
    BY <1>2, <1>4, <1>6 DEF RunsInv
  <2>2. /\ DOMAIN old \subseteq DOMAIN new
        /\ \A r \in DOMAIN old : new[r] = old[r]
        /\ Len(new) \in DOMAIN new \ DOMAIN old
        /\ DOMAIN new = DOMAIN old \cup {Len(new)}
        /\ new[Len(new)] = row
    BY <1>6, <2>1
  <2>3. \A r \in DOMAIN new : RunOK(new[r])
    BY <1>3, <1>4, <2>2 DEF RunsInv
  <2>4. \A r \in DOMAIN new : RunOK(new[r])'
    BY <1>4, <2>3 DEF RunOK
  <2>5. RunsInv'
    BY <1>4, <2>1, <2>4 DEF RunsInv
  <2> QED
    BY <1>2, <1>4, <2>2, <2>5
<1> QED
  BY <1>1, <1>4, <1>5, <1>6 DEF RecordRun

\* A job that changes, with the rows it adds, keeps the invariant when it is in
\* order and what it has to log is its own.
LEMMA Proceeds ==
    ASSUME DocumentsInv, NEW g \in Generator, NEW j, Proceed(g, j), JobOK(j),
           RunsInv', DOMAIN runs \subseteq DOMAIN runs',
           \A r \in DOMAIN runs : runs'[r] = runs[r],
           UNCHANGED <<completed, vars>>,
           j.step = "log" => /\ j.run \in DOMAIN runs' \ DOMAIN runs
                             /\ runs'[j.run].status = "success"
    PROVE  DocumentsInv'
<1>1. protocols' = protocols /\ completed' = completed
  BY DEF vars
<1>2. NumberingInv'
  BY <1>1, UnchangedInv DEF DocumentsInv
<1>p. ParticipantInv'
  BY DEF vars, DocumentsInv, ParticipantInv, OneActiveProtocolPerRecord
<1>3. /\ job' = [h \in Generator |-> job'[h]]
      /\ \A h \in Generator : job'[h] = IF h = g THEN j ELSE job[h]
  BY DEF DocumentsInv, JobsInv, Proceed
<1>4. \A h \in Generator : JobOK(job'[h])
  BY <1>3 DEF DocumentsInv, JobsInv
<1>5. JobsInv'
  BY <1>1, <1>3, <1>4 DEF JobsInv, JobOK, HasNumber, Listed, vars
<1>6. LogInv'
  <2>1. \A r \in DOMAIN completed : r \in DOMAIN runs' /\ runs'[r].status = "success"
    BY DEF DocumentsInv, LogInv
  <2>2. j.step = "log" => j.run \notin DOMAIN completed
    BY DEF DocumentsInv, LogInv
  <2>3. \A h \in Generator : job[h].step = "log" =>
          /\ job[h].run \in DOMAIN runs
          /\ runs[job[h].run].status = "success"
          /\ job[h].run \notin DOMAIN completed
    BY DEF DocumentsInv, LogInv, ToLog
  <2>4. \A h \in Generator : ToLog(job[h])'
    BY <1>1, <1>3, <2>2, <2>3 DEF ToLog
  <2>5. \A h, k \in Generator : job'[h].step = "log" /\ job'[k].step = "log"
          /\ job'[h].run = job'[k].run => h = k
    BY <1>3, <2>3 DEF DocumentsInv, LogInv, InStep
  <2> QED
    BY <1>1, <2>1, <2>4, <2>5 DEF DocumentsInv, LogInv, InStep
<1> QED
  BY <1>2, <1>p, <1>5, <1>6 DEF DocumentsInv

\* A job ends: what it recorded stays.
LEMMA Ends ==
    ASSUME DocumentsInv, NEW g \in Generator, NEW p \in Nat, NEW t \in Type,
           RecordRun(p, t, "failed"), Proceed(g, NoJob), UNCHANGED <<completed, vars>>
    PROVE  DocumentsInv'
<1>1. RunsInv /\ UNCHANGED protocols
  BY DEF DocumentsInv, vars
<1>2. /\ RunsInv'
      /\ DOMAIN runs \subseteq DOMAIN runs'
      /\ \A r \in DOMAIN runs : runs'[r] = runs[r]
  BY <1>1, Recorded
<1> QED
  BY <1>2, NoJobOK, Proceeds

\* A job goes on and records nothing.
LEMMA GoesOn ==
    ASSUME DocumentsInv, NEW g \in Generator, NEW j, Proceed(g, j), JobOK(j),
           j.step # "log", UNCHANGED <<runs, completed, vars>>
    PROVE  DocumentsInv'
<1>1. RunsInv'
  BY DEF DocumentsInv, RunsInv, RunOK, vars
<1> QED
  BY <1>1, Proceeds

\* A generation begins with the number of an issued protocol.
LEMMA GenerateInv ==
    ASSUME DocumentsInv, NEW g \in Generator, NEW p \in DOMAIN protocols,
           NEW t \in Type, Generate(g, p, t)
    PROVE  DocumentsInv'
<1>1. p \in Nat /\ protocols[p] \in Protocol
  BY DEF DocumentsInv, NumberingInv, ProtocolRows
<1>2. CASE MayRender(protocols[p].status)
  <2>1. PICK j : j = [NoJob EXCEPT !.step = "list", !.protocol = p, !.type = t,
                                   !.number = protocols[p].number]
    OBVIOUS
  <2>2. j = [step |-> "list", protocol |-> p, type |-> t,
             number |-> protocols[p].number, rest |-> {}, set |-> << >>, run |-> 0]
    BY <2>1 DEF NoJob
  <2>3. protocols[p].number \in Number \cup {NoNumber} /\ protocols[p].status \in Issued
    BY <1>1, <1>2 DEF Protocol, Status, Issued, MayRender
  <2>4. protocols[p].number # NoNumber
    BY <2>3 DEF DocumentsInv, NumberingInv, IssuedIsNumbered
  <2>5. j \in Job
    BY <1>1, <2>2, <2>3 DEF Job
  <2>6. HasNumber(j) /\ Listed(j)
    BY <2>2, <2>4 DEF HasNumber, Listed
  <2>7. JobOK(j)
    BY <2>5, <2>6 DEF JobOK
  <2>8. Proceed(g, j) /\ j.step # "log" /\ UNCHANGED <<runs, completed, vars>>
    BY <1>2, <2>1, <2>2 DEF Generate
  <2> QED
    BY <2>7, <2>8, GoesOn
<1>3. CASE ~MayRender(protocols[p].status)
  <2>1. RecordRun(p, t, "failed") /\ UNCHANGED job /\ UNCHANGED <<completed, vars>>
    BY <1>3 DEF Generate
  <2>2. job[g] = [job EXCEPT ![g] = job[g]][g] /\ Proceed(g, job[g])
    BY <2>1 DEF Proceed, DocumentsInv, JobsInv
  <2>3. JobOK(job[g]) /\ job[g].step # "log"
    BY DEF DocumentsInv, JobsInv, Generate, InStep
  <2>4. RunsInv /\ UNCHANGED protocols
    BY <2>1 DEF DocumentsInv, vars
  <2>5. /\ RunsInv'
        /\ DOMAIN runs \subseteq DOMAIN runs'
        /\ \A r \in DOMAIN runs : runs'[r] = runs[r]
    BY <1>1, <2>1, <2>4, Recorded
  <2> QED
    BY <2>1, <2>2, <2>3, <2>5, Proceeds
<1> QED
  BY <1>2, <1>3

\* A job with its fields.
Fields(s, p, t, n, r, u, i) ==
    [step |-> s, protocol |-> p, type |-> t, number |-> n, rest |-> r, set |-> u,
     run |-> i]

\* The fields of a job in order.
LEMMA JobFields ==
    ASSUME DocumentsInv, NEW g \in Generator
    PROVE  /\ JobOK(job[g])
           /\ job[g] = Fields(job[g].step, job[g].protocol, job[g].type,
                              job[g].number, job[g].rest, job[g].set, job[g].run)
           /\ job[g].protocol \in Nat /\ job[g].type \in Type /\ job[g].run \in Nat
           /\ job[g].number \in Number \cup {NoNumber}
           /\ job[g].rest \in SUBSET Nat /\ job[g].set \in Seq(RegistryRecord)
BY DEF DocumentsInv, JobsInv, JobOK, Job, Fields

\* A job keeps what it has read while its step and its run change.
LEMMA KeepsReading ==
    ASSUME DocumentsInv, NEW g \in Generator, ~InStep(g, "idle"),
           NEW step \in Step \ {"list"}, NEW run \in Nat
    PROVE  JobOK(Fields(step, job[g].protocol, job[g].type,
                        job[g].number, job[g].rest, job[g].set, run))
<1>1. PICK j : j = Fields(step, job[g].protocol, job[g].type,
                          job[g].number, job[g].rest, job[g].set, run)
  OBVIOUS
<1>2. j \in Job
  BY <1>1, JobFields DEF Job, Step, Fields
<1>3. HasNumber(job[g]) /\ Listed(job[g])
  BY JobFields DEF JobOK, InStep
<1>4. /\ j.protocol = job[g].protocol /\ j.number = job[g].number /\ j.rest = job[g].rest
      /\ j.set = job[g].set /\ j.step # "list"
  BY <1>1 DEF Fields
<1>5. HasNumber(j) /\ Listed(j)
  BY <1>3, <1>4 DEF HasNumber, Listed
<1> QED
  BY <1>1, <1>2, <1>5 DEF JobOK

\* The active participants are listed: each record once, for it is active in one
\* row only.
LEMMA ListInv ==
    ASSUME DocumentsInv, NEW g \in Generator, ListParticipants(g)
    PROVE  DocumentsInv'
<1>1. PICK rest : rest = ActiveParticipantsOf(job[g].protocol)
  OBVIOUS
<1>2. PICK j : j = [job[g] EXCEPT !.step = "load", !.rest = rest]
  OBVIOUS
<1>3. j = Fields("load", job[g].protocol, job[g].type,
                 job[g].number, rest, job[g].set, job[g].run)
  <2>1. PICK s, p, t, n, r, u, i : job[g] = Fields(s, p, t, n, r, u, i)
    BY JobFields
  <2>2. j = [Fields(s, p, t, n, r, u, i) EXCEPT !.step = "load", !.rest = rest]
    BY <1>2, <2>1
  <2>3. j = Fields("load", p, t, n, rest, u, i)
    BY <2>2 DEF Fields
  <2> QED
    BY <2>1, <2>3 DEF Fields
<1>4. job[g].step = "list" /\ HasNumber(job[g]) /\ Listed(job[g])
  BY JobFields DEF ListParticipants, InStep, JobOK
<1>5. job[g].set = << >>
  BY <1>4 DEF Listed
<1>6. rest \in SUBSET Nat
  BY <1>1 DEF ActiveParticipantsOf, DocumentsInv, ParticipantInv
<1>7. j \in Job
  BY <1>3, <1>6, JobFields DEF Job, Fields
<1>8. /\ j.step = "load" /\ j.protocol = job[g].protocol /\ j.number = job[g].number
      /\ j.rest = rest /\ j.set = << >>
  BY <1>3, <1>5 DEF Fields
<1>9. HasNumber(j)
  BY <1>4, <1>8 DEF HasNumber
<1>10. \A i, k \in rest : participants[i].record = participants[k].record => i = k
  BY <1>1 DEF ActiveParticipantsOf, DocumentsInv, ParticipantInv, OneActiveProtocolPerRecord
<1>11. \A i \in rest : i \in DOMAIN participants
                        /\ participants[i].protocol = job[g].protocol
  BY <1>1 DEF ActiveParticipantsOf
<1>12. Listed(j)
  BY <1>8, <1>10, <1>11 DEF Listed
<1>13. JobOK(j) /\ j.step # "log"
  BY <1>7, <1>8, <1>9, <1>12 DEF JobOK
<1>14. Proceed(g, j)
  BY <1>1, <1>2 DEF ListParticipants
<1> QED
  BY <1>13, <1>14, GoesOn DEF ListParticipants

\* One record goes from the participants that are left to the registry set.
LEMMA LoadInv ==
    ASSUME DocumentsInv, NEW g \in Generator, LoadRecord(g)
    PROVE  DocumentsInv'
<1>1. PICK i \in job[g].rest, k \in Code :
        Proceed(g, [job[g] EXCEPT !.rest = @ \ {i}, !.set = Append(@,
          [record |-> participants[i].record, number |-> job[g].number, code |-> k])])
  BY DEF LoadRecord
<1>2. PICK row : row = [record |-> participants[i].record, number |-> job[g].number,
                        code |-> k]
  OBVIOUS
<1>3. PICK j : j = [job[g] EXCEPT !.rest = @ \ {i}, !.set = Append(@, row)]
  OBVIOUS
<1>4. PICK old, rest, set : /\ old = job[g].set /\ rest = job[g].rest \ {i}
                            /\ set = Append(old, row)
  OBVIOUS
<1>5. j = Fields(job[g].step, job[g].protocol, job[g].type,
                 job[g].number, rest, set, job[g].run)
  <2>1. PICK s, p, t, n, r, u, m : job[g] = Fields(s, p, t, n, r, u, m)
    BY JobFields
  <2>2. j = [Fields(s, p, t, n, r, u, m) EXCEPT
               !.rest = Fields(s, p, t, n, r, u, m).rest \ {i},
               !.set = Append(Fields(s, p, t, n, r, u, m).set, row)]
    BY <1>3, <2>1
  <2>3. j = Fields(s, p, t, n, r \ {i}, Append(u, row), m)
    BY <2>2 DEF Fields
  <2> QED
    BY <1>4, <2>1, <2>3 DEF Fields
<1>6. job[g].step = "load" /\ HasNumber(job[g]) /\ Listed(job[g])
  BY JobFields DEF LoadRecord, InStep, JobOK
<1>7. i \in DOMAIN participants /\ participants[i].protocol = job[g].protocol
  BY <1>1, <1>6 DEF Listed
<1>8. row \in RegistryRecord /\ row.number = job[g].number
      /\ row.record = participants[i].record
  <2>1. participants[i] \in Participant
    BY <1>7 DEF DocumentsInv, ParticipantInv
  <2>2. participants[i].record \in Record
    BY <2>1 DEF Participant
  <2> QED
    BY <1>1, <1>2, <2>2, JobFields DEF RegistryRecord
<1>9. old \in Seq(RegistryRecord)
  BY <1>4, JobFields
<1>10. /\ set \in Seq(RegistryRecord)
       /\ DOMAIN set = DOMAIN old \cup {Len(old) + 1} /\ Len(old) + 1 \notin DOMAIN old
       /\ \A n \in DOMAIN old : set[n] = old[n]
       /\ set[Len(old) + 1] = row
  BY <1>4, <1>8, <1>9
<1>11. rest \in SUBSET Nat /\ rest \subseteq job[g].rest /\ i \notin rest
  BY <1>4, JobFields
<1>12. j \in Job
  BY <1>5, <1>6, <1>10, <1>11, JobFields DEF Job, Fields
<1>13. /\ j.step = "load" /\ j.protocol = job[g].protocol /\ j.number = job[g].number
       /\ j.rest = rest /\ j.set = set
  BY <1>5, <1>6 DEF Fields
<1>14. HasNumber(j)
  <2>1. \A n \in DOMAIN set : set[n].number = job[g].number
    BY <1>4, <1>6, <1>8, <1>10 DEF HasNumber
  <2> QED
    BY <1>6, <1>13, <2>1 DEF HasNumber
<1>15. Listed(j)
  <2>1. \A n \in rest : n \in DOMAIN participants
                        /\ participants[n].protocol = job[g].protocol
    BY <1>6, <1>11 DEF Listed
  <2>2. \A n, m \in rest : participants[n].record = participants[m].record => n = m
    BY <1>6, <1>11 DEF Listed
  <2>3. \A n \in DOMAIN set : \E m \in DOMAIN participants :
          /\ participants[m].protocol = job[g].protocol
          /\ participants[m].record = set[n].record
    BY <1>4, <1>6, <1>7, <1>8, <1>10 DEF Listed
  <2>4. \A n \in DOMAIN old : old[n].record # row.record
    BY <1>1, <1>4, <1>6, <1>8 DEF Listed
  <2>5. \A n, m \in DOMAIN old : old[n].record = old[m].record => n = m
    BY <1>4, <1>6 DEF Listed
  <2>6. \A n, m \in DOMAIN set : set[n].record = set[m].record => n = m
    BY <1>10, <2>4, <2>5
  <2>7. \A n \in DOMAIN old, m \in rest : old[n].record # participants[m].record
    BY <1>4, <1>6, <1>11 DEF Listed
  <2>8. \A m \in rest : row.record # participants[m].record
    BY <1>1, <1>6, <1>8, <1>11 DEF Listed
  <2>9. \A n \in DOMAIN set, m \in rest : set[n].record # participants[m].record
    BY <1>10, <2>7, <2>8
  <2> QED
    BY <1>13, <2>1, <2>2, <2>3, <2>6, <2>9 DEF Listed
<1>16. JobOK(j) /\ j.step # "log"
  BY <1>12, <1>13, <1>14, <1>15 DEF JobOK
<1>17. Proceed(g, j)
  BY <1>1, <1>2, <1>3
<1> QED
  BY <1>16, <1>17, GoesOn DEF LoadRecord

\* Rendering.
LEMMA RenderInv ==
    ASSUME DocumentsInv, NEW g \in Generator, Render(g)
    PROVE  DocumentsInv'
<1>1. CASE RecordRun(job[g].protocol, "docx", "failed") /\ Proceed(g, NoJob)
  BY <1>1, JobFields, Ends DEF Render, Type
<1>2. CASE Proceed(g, [job[g] EXCEPT !.step = "insert"]) /\ UNCHANGED runs
  <2>1. PICK j : j = [job[g] EXCEPT !.step = "insert"]
    OBVIOUS
  <2>2. j = Fields("insert", job[g].protocol, job[g].type,
                   job[g].number, job[g].rest, job[g].set, job[g].run)
    <3>1. PICK s, p, t, n, r, u, i : job[g] = Fields(s, p, t, n, r, u, i)
      BY JobFields
    <3>2. j = [Fields(s, p, t, n, r, u, i) EXCEPT !.step = "insert"]
      BY <2>1, <3>1
    <3>3. j = Fields("insert", p, t, n, r, u, i)
      BY <3>2 DEF Fields
    <3> QED
      BY <3>1, <3>3 DEF Fields
  <2>3. JobOK(j) /\ j.step # "log"
    BY <2>2, JobFields, KeepsReading DEF Render, InStep, Step, Fields
  <2> QED
    BY <1>2, <2>1, <2>3, GoesOn DEF Render
<1> QED
  BY <1>1, <1>2 DEF Render

\* The row of a success, or the end without one.
LEMMA InsertRunInv ==
    ASSUME DocumentsInv, NEW g \in Generator, InsertRun(g)
    PROVE  DocumentsInv'
<1>1. job[g].step = "insert" /\ HasNumber(job[g])
  BY JobFields DEF InsertRun, InStep, JobOK
<1>2. RunsInv /\ UNCHANGED protocols
  BY DEF DocumentsInv, InsertRun, vars
<1>3. /\ RunsInv'
      /\ DOMAIN runs \subseteq DOMAIN runs'
      /\ \A r \in DOMAIN runs : runs'[r] = runs[r]
      /\ runs' # runs => /\ Len(runs') \in DOMAIN runs' \ DOMAIN runs
                         /\ runs'[Len(runs')].status = "success"
  BY <1>1, <1>2, JobFields, Recorded DEF InsertRun, HasNumber
<1>4. CASE runs' # runs /\ Proceed(g, [job[g] EXCEPT !.step = "log", !.run = Len(runs')])
  <2>1. PICK m : m = Len(runs')
    OBVIOUS
  <2>2. m \in Nat
    BY <1>3, <2>1 DEF RunsInv
  <2>3. PICK j : j = [job[g] EXCEPT !.step = "log", !.run = m]
    OBVIOUS
  <2>4. j = Fields("log", job[g].protocol, job[g].type,
                   job[g].number, job[g].rest, job[g].set, m)
    <3>1. PICK s, p, t, n, r, u, i : job[g] = Fields(s, p, t, n, r, u, i)
      BY JobFields
    <3>2. j = [Fields(s, p, t, n, r, u, i) EXCEPT !.step = "log", !.run = m]
      BY <2>3, <3>1
    <3>3. j = Fields("log", p, t, n, r, u, m)
      BY <3>2 DEF Fields
    <3> QED
      BY <3>1, <3>3 DEF Fields
  <2>5. JobOK(j) /\ j.run = m
    BY <1>1, <2>2, <2>4, KeepsReading DEF InStep, Step, Fields
  <2> QED
    BY <1>3, <1>4, <2>1, <2>3, <2>5, Proceeds DEF InsertRun
<1>5. CASE Proceed(g, NoJob)
  BY <1>3, <1>5, NoJobOK, Proceeds DEF InsertRun
<1> QED
  BY <1>4, <1>5 DEF InsertRun

\* The entry of the action log is the only one for its run.
LEMMA LogCompletedInv ==
    ASSUME DocumentsInv, NEW g \in Generator, LogCompleted(g)
    PROVE  DocumentsInv'
<1>1. CASE UNCHANGED completed
  BY <1>1, NoJobOK, GoesOn DEF LogCompleted
<1>2. CASE completed' = completed (+) SetToBag({job[g].run})
  <2>1. UNCHANGED <<runs, protocols, participants, call>> /\ Proceed(g, NoJob)
    BY DEF LogCompleted, vars
  <2>p. ParticipantInv'
    BY <2>1 DEF DocumentsInv, ParticipantInv, OneActiveProtocolPerRecord
  <2>2. NumberingInv'
    BY <2>1, UnchangedInv DEF DocumentsInv
  <2>3. /\ job' = [h \in Generator |-> job'[h]]
        /\ \A h \in Generator : job'[h] = IF h = g THEN NoJob ELSE job[h]
    BY <2>1 DEF DocumentsInv, JobsInv, Proceed
  <2>4. \A h \in Generator : JobOK(job'[h])
    BY <2>3, NoJobOK DEF DocumentsInv, JobsInv
  <2>5. JobsInv'
    BY <2>1, <2>3, <2>4 DEF JobsInv, JobOK, HasNumber, Listed
  <2>6. RunsInv'
    BY <2>1 DEF DocumentsInv, RunsInv, RunOK
  <2>7. PICK r : r = job[g].run
    OBVIOUS
  <2>8. r \in DOMAIN runs /\ runs[r].status = "success" /\ r \notin DOMAIN completed
    BY <2>7 DEF DocumentsInv, LogInv, ToLog, LogCompleted, InStep
  <2>9. completed = [q \in DOMAIN completed |-> 1]
    BY DEF DocumentsInv, LogInv
  <2>10. completed' = [q \in DOMAIN completed \cup {r} |-> 1]
    <3>1. PICK D : D = DOMAIN completed
      OBVIOUS
    <3>2. completed = [q \in D |-> 1] /\ r \notin D
      BY <2>8, <2>9, <3>1
    <3>3. completed' = [q \in D \cup {r} |->
            (IF q \in D THEN completed[q] ELSE 0) + (IF q \in {r} THEN 1 ELSE 0)]
      BY <1>2, <2>7, <3>1 DEF (+), SetToBag
    <3> QED
      BY <3>1, <3>2, <3>3
  <2>11. \A h \in Generator : ToLog(job[h])
    BY DEF DocumentsInv, LogInv
  <2>12. \A h \in Generator : h # g /\ job[h].step = "log" => job[h].run # r
    BY <2>7 DEF DocumentsInv, LogInv, LogCompleted, InStep
  <2>13. \A h \in Generator : ToLog(job[h])'
    BY <2>1, <2>3, <2>10, <2>11, <2>12, NoJobOK DEF ToLog
  <2>14. /\ completed' = [q \in DOMAIN completed' |-> 1]
         /\ \A q \in DOMAIN completed' : q \in DOMAIN runs /\ runs[q].status = "success"
    BY <2>8, <2>10 DEF DocumentsInv, LogInv
  <2>15. \A h, k \in Generator : job'[h].step = "log" /\ job'[k].step = "log"
           /\ job'[h].run = job'[k].run => h = k
    BY <2>3, NoJobOK DEF DocumentsInv, LogInv, InStep
  <2>16. LogInv'
    BY <2>1, <2>13, <2>14, <2>15 DEF LogInv, InStep
  <2> QED
    BY <2>2, <2>p, <2>5, <2>6, <2>16 DEF DocumentsInv
<1> QED
  BY <1>1, <1>2 DEF LogCompleted

----------------------------------------------------------------------------
(* Theorems *)

\* Every job has read the number of its protocol and keeps it, every success has
\* an issued protocol, and every success is logged at most once (Generate,
\* recordGenerationRun, recordAudit, Fix, Transition).
THEOREM DocumentsInvariance == DocumentsSpec => []DocumentsInv
<1>1. DocumentsInit => DocumentsInv
  <2> SUFFICES ASSUME DocumentsInit PROVE DocumentsInv
    OBVIOUS
  <2>1. Init /\ runs = << >> /\ completed = EmptyBag /\ job = [g \in Generator |-> NoJob]
    BY DEF DocumentsInit
  <2>2. completed = [r \in {} |-> 1] /\ DOMAIN completed = {}
    BY <2>1 DEF EmptyBag, SetToBag
  <2>3. JobsInv
    BY <2>1, NoJobOK DEF JobsInv
  <2>4. RunsInv
    BY <2>1 DEF RunsInv
  <2>5. LogInv
    BY <2>1, <2>2, NoJobOK DEF LogInv, ToLog, InStep
  <2> QED
    BY <2>1, <2>3, <2>4, <2>5, NumberingStart, ParticipantStart DEF DocumentsInv
<1>2. DocumentsInv /\ [DocumentsNext]_<<docVars, vars>> => DocumentsInv'
  <2> SUFFICES ASSUME DocumentsInv, [DocumentsNext]_<<docVars, vars>>
               PROVE  DocumentsInv'
    OBVIOUS
  <2>1. CASE UNCHANGED <<docVars, vars>>
    BY <2>1, OtherRequests
  <2>2. CASE Next /\ UNCHANGED docVars
    BY <2>2, OtherRequests
  <2>3. ASSUME NEW g \in Generator, NEW p \in DOMAIN protocols, NEW r \in DOMAIN runs,
               Download(g, p, r)
        PROVE  DocumentsInv'
    <3>1. runs[r] \in Run
      BY DEF DocumentsInv, RunsInv
    <3>2. runs[r].type \in Type
      BY <3>1 DEF Run
    <3> QED
      BY <2>3, <3>2, GenerateInv DEF Download
  <2>4. ASSUME NEW g \in Generator, FailGeneration(g) PROVE DocumentsInv'
    BY <2>4, JobFields, Ends DEF FailGeneration
  <2> QED
    BY <2>1, <2>2, <2>3, <2>4, GenerateInv, ListInv, LoadInv, RenderInv,
       InsertRunInv, LogCompletedInv DEF DocumentsNext
<1> QED
  BY <1>1, <1>2, PTL DEF DocumentsSpec

\* A document carries the number that its protocol has, whatever happened to the
\* protocol since the generation read it (renderRegistrySet, Fix, Transition).
THEOREM NumberOnDocuments == DocumentsSpec => []DocumentsCarryTheNumber
<1>1. DocumentsInv => DocumentsCarryTheNumber
  BY DEF DocumentsInv, JobsInv, JobOK, HasNumber, DocumentsCarryTheNumber, InStep
<1> QED
  BY <1>1, DocumentsInvariance, PTL

\* Recorded documents belong to protocols that have been issued
\* (recordGenerationRun, the gate of renderRegistrySet).
THEOREM RecordedIssued == DocumentsSpec => []RecordedMeansIssued
<1>1. DocumentsInv => RecordedMeansIssued
  BY DEF DocumentsInv, RunsInv, RunOK, RecordedMeansIssued
<1> QED
  BY <1>1, DocumentsInvariance, PTL

\* The action log names successes only, and none twice (recordAudit).
THEOREM CompletedOnce == DocumentsSpec => []CompletedHasItsRun
<1>1. DocumentsInv => CompletedHasItsRun
  BY DEF DocumentsInv, LogInv, CompletedHasItsRun, BagToSet
<1> QED
  BY <1>1, DocumentsInvariance, PTL

\* Generations beside the other requests leave the numbering as sound as it is
\* without them (Generate, Download, Fix, Transition).
THEOREM NumberingBesideDocuments == DocumentsSpec => []NumberingIsSound
<1>1. DocumentsInv => NumberingIsSound
  BY DEF DocumentsInv, NumberingInv, NumberingIsSound
<1> QED
  BY <1>1, DocumentsInvariance, PTL

\* The rows of generation_runs and what the log says of them are in order, types
\* included (recordGenerationRun, recordAudit).
THEOREM RunsSafety == DocumentsSpec => []RunsAreTruthful
<1>1. DocumentsInv => DocumentsTypeOK
  <2> SUFFICES ASSUME DocumentsInv PROVE DocumentsTypeOK
    OBVIOUS
  <2>1. runs \in Seq(Run)
    BY DEF DocumentsInv, RunsInv
  <2>2. job \in [Generator -> Job]
    BY DEF DocumentsInv, JobsInv, JobOK
  <2>3. PICK D : D = DOMAIN completed
    OBVIOUS
  <2>4. completed = [r \in D |-> 1] /\ D \subseteq 1 .. Len(runs)
    BY <2>1, <2>3 DEF DocumentsInv, LogInv
  <2>5. IsABag(completed) /\ BagToSet(completed) = D
    BY <2>3, <2>4 DEF IsABag, BagToSet
  <2> QED
    BY <2>1, <2>2, <2>4, <2>5 DEF DocumentsTypeOK
<1> QED
  BY <1>1, RecordedIssued, CompletedOnce, DocumentsInvariance, PTL DEF RunsAreTruthful

\* A document names nobody twice and only who is or was in the protocol, although
\* records leave and come back while it is made (ListProtocolParticipants,
\* AddParticipant, RemoveParticipant).
THEOREM ListedOnce == DocumentsSpec => []EveryoneListedOnce
<1>1. DocumentsInv => EveryoneListedOnce
  <2> SUFFICES ASSUME DocumentsInv, NEW g \in Generator, InStep(g, "insert")
               PROVE  Listed(job[g])
    BY DEF EveryoneListedOnce, Listed
  <2> QED
    BY JobFields DEF JobOK, InStep
<1> QED
  BY <1>1, DocumentsInvariance, PTL

----------------------------------------------------------------------------
(* Finite sets of numbers in ascending order *)

\* A set of naturals that is not empty has a least element.
LEMMA LeastElement ==
    ASSUME NEW S \in SUBSET Nat, S # {}
    PROVE  \E m \in S : \A n \in S : m <= n
<1>1. PICK R : R = {ss \in Nat \X Nat : ss[1] < ss[2]}
  OBVIOUS
<1>2. IsWellFoundedOn(R, Nat)
  BY <1>1, NatLessThanWellFounded DEF OpToRel
<1>3. PICK m \in S : \A n \in S : ~(<<n, m>> \in R)
  BY <1>2, WFMin, Zenon
<1>4. \A n \in S : ~(n < m)
  BY <1>1, <1>3
<1> QED
  BY <1>4

\* The rank of an element: how many elements are not greater.
Rank(S, k) == Cardinality({j \in S : j <= k})

\* A rank is a place from 1 to the number of elements.
LEMMA RankType ==
    ASSUME NEW S \in SUBSET Nat, IsFiniteSet(S), NEW k \in S
    PROVE  Rank(S, k) \in 1 .. Cardinality(S)
<1>1. PICK T : T = {j \in S : j <= k}
  OBVIOUS
<1>2. T \in SUBSET S /\ k \in T
  BY <1>1
<1>3. IsFiniteSet(T) /\ Cardinality(T) \in Nat /\ Cardinality(S) \in Nat
  BY <1>2, FS_Subset, FS_CardinalityType
<1>4. Cardinality(T) <= Cardinality(S)
  BY <1>2, FS_Subset
<1>5. Cardinality(T) # 0
  BY <1>2, <1>3, FS_EmptySet
<1> QED
  BY <1>1, <1>3, <1>4, <1>5 DEF Rank

\* A greater element has another rank.
LEMMA RankStrict ==
    ASSUME NEW S \in SUBSET Nat, IsFiniteSet(S), NEW k \in S, NEW m \in S, k < m
    PROVE  Rank(S, k) # Rank(S, m)
<1>1. PICK T, U : T = {j \in S : j <= k} /\ U = {j \in S : j <= m}
  OBVIOUS
<1>2. m \in U /\ m \notin T
  <2>1. m <= m /\ ~(m <= k)
    OBVIOUS
  <2> QED
    BY <1>1, <2>1
<1>3. U \in SUBSET S /\ T \in SUBSET U
  <2>1. \A j \in S : j <= k => j <= m
    OBVIOUS
  <2> QED
    BY <1>1, <2>1, Zenon
<1>4. Cardinality(U) = Cardinality(T) => U = T
  BY <1>3, FS_Subset
<1> QED
  BY <1>1, <1>2, <1>4 DEF Rank

\* Two elements never share a rank.
LEMMA RankUnique ==
    ASSUME NEW S \in SUBSET Nat, IsFiniteSet(S), NEW k \in S, NEW m \in S,
           Rank(S, k) = Rank(S, m)
    PROVE  k = m
<1> SUFFICES ASSUME k # m PROVE FALSE
  OBVIOUS
<1>1. k < m \/ m < k
  OBVIOUS
<1> QED
  BY <1>1, RankStrict

\* NthOf is the inverse of Rank: every place has one element and every element
\* is at its place.
LEMMA NthOfEnumerates ==
    ASSUME NEW S \in SUBSET Nat, IsFiniteSet(S)
    PROVE  /\ Cardinality(S) \in Nat
           /\ \A i \in 1 .. Cardinality(S) : NthOf(S, i) \in S /\ Rank(S, NthOf(S, i)) = i
           /\ \A k \in S : Rank(S, k) \in 1 .. Cardinality(S) /\ NthOf(S, Rank(S, k)) = k
<1>1. PICK n : n = Cardinality(S)
  OBVIOUS
<1>2. n \in Nat /\ IsFiniteSet(1 .. n) /\ Cardinality(1 .. n) = n
  <2>1. n \in Nat
    BY <1>1, FS_CardinalityType
  <2> QED
    BY <2>1, FS_Interval
<1>3. PICK f : f = [k \in S |-> Rank(S, k)]
  OBVIOUS
<1>4. \A k \in S : Rank(S, k) \in 1 .. n
  BY <1>1, RankType
<1>5. \A k, m \in S : Rank(S, k) = Rank(S, m) => k = m
  BY RankUnique
<1>6. f \in Injection(S, 1 .. n)
  BY <1>3, <1>4, <1>5 DEF Injection, IsInjective
<1>7. f \in Surjection(S, 1 .. n)
  BY <1>1, <1>2, <1>6, FS_Injection
<1>8. \A i \in 1 .. n : \E k \in S : Rank(S, k) = i
  BY <1>3, <1>7 DEF Surjection
<1>9. \A i : NthOf(S, i) = CHOOSE k \in S : Rank(S, k) = i
  BY DEF NthOf, Rank
<1>10. \A i \in 1 .. n : NthOf(S, i) \in S /\ Rank(S, NthOf(S, i)) = i
  BY <1>8, <1>9
<1>11. \A k \in S : NthOf(S, Rank(S, k)) = k
  BY <1>4, <1>5, <1>10
<1> QED
  BY <1>1, <1>2, <1>4, <1>10, <1>11

----------------------------------------------------------------------------
(* The DOCX archive of a registry set *)

\* The positions and the codes of a registry set are finite sets of numbers.
LEMMA SetShape ==
    ASSUME NEW set \in Seq(RegistryRecord)
    PROVE  /\ DOMAIN set \in SUBSET Nat /\ IsFiniteSet(DOMAIN set)
           /\ \A n \in DOMAIN set : n \in Nat \ {0} /\ 1 .. (n - 1) \subseteq DOMAIN set
           /\ \A n \in DOMAIN set : set[n].code \in Nat
           /\ Codes(set) \in SUBSET Nat /\ IsFiniteSet(Codes(set))
<1>1. Len(set) \in Nat /\ DOMAIN set = 1 .. Len(set)
  OBVIOUS
<1>2. DOMAIN set \in SUBSET Nat /\ IsFiniteSet(DOMAIN set)
  BY <1>1, FS_Interval
<1>3. \A n \in DOMAIN set : n \in Nat \ {0} /\ 1 .. (n - 1) \subseteq DOMAIN set
  BY <1>1
<1>4. \A n \in DOMAIN set : set[n].code \in Nat
  <2>1. \A n \in DOMAIN set : set[n] \in RegistryRecord
    BY <1>1
  <2>2. \A r \in RegistryRecord : r.code \in Code
    BY DEF RegistryRecord
  <2> QED
    BY <2>1, <2>2, DocumentAssumption
<1>5. PICK f : f = [n \in DOMAIN set |-> set[n].code]
  OBVIOUS
<1>6. f \in Surjection(DOMAIN set, Codes(set))
  BY <1>5 DEF Codes, Surjection
<1> QED
  BY <1>2, <1>3, <1>4, <1>6, FS_Surjection DEF Codes

\* A loop that keeps the elements at some positions keeps those and no others,
\* each from a position of its own.
LEMMA KeptShape ==
    ASSUME NEW s, NEW P \in SUBSET Nat, IsFiniteSet(P)
    PROVE  /\ Cardinality(P) \in Nat /\ DOMAIN KeptBy(s, P) = 1 .. Cardinality(P)
           /\ \A i \in 1 .. Cardinality(P) :
                NthOf(P, i) \in P /\ KeptBy(s, P)[i] = s[NthOf(P, i)]
           /\ \A n \in P : Rank(P, n) \in 1 .. Cardinality(P) /\ KeptBy(s, P)[Rank(P, n)] = s[n]
<1>1. /\ Cardinality(P) \in Nat
      /\ \A i \in 1 .. Cardinality(P) : NthOf(P, i) \in P
      /\ \A n \in P : Rank(P, n) \in 1 .. Cardinality(P) /\ NthOf(P, Rank(P, n)) = n
  BY NthOfEnumerates
<1> QED
  BY <1>1 DEF KeptBy

\* The group of a code that occurs is not empty and has exactly its records.
LEMMA GroupShape ==
    ASSUME NEW set \in Seq(RegistryRecord), NEW k \in Codes(set)
    PROVE  /\ RecordsWith(set, k) # << >>
           /\ \A i \in DOMAIN RecordsWith(set, k) :
                RecordsWith(set, k)[i].code = k /\ RecordsWith(set, k)[i] \in Range(set)
           /\ \A n \in DOMAIN set : set[n].code = k => set[n] \in Range(RecordsWith(set, k))
<1>1. PICK P : P = {n \in DOMAIN set : set[n].code = k}
  OBVIOUS
<1>2. PICK kept : kept = KeptBy(set, P)
  OBVIOUS
<1>3. RecordsWith(set, k) = kept
  BY <1>1, <1>2 DEF RecordsWith
<1>4. P \in SUBSET Nat /\ IsFiniteSet(P) /\ P \subseteq DOMAIN set
  BY <1>1, SetShape, FS_Subset
<1>5. /\ DOMAIN kept = 1 .. Cardinality(P)
      /\ \A i \in 1 .. Cardinality(P) : NthOf(P, i) \in P /\ kept[i] = set[NthOf(P, i)]
      /\ \A n \in P : Rank(P, n) \in 1 .. Cardinality(P) /\ kept[Rank(P, n)] = set[n]
  BY <1>2, <1>4, KeptShape
<1>6. PICK n \in DOMAIN set : set[n].code = k
  BY DEF Codes
<1>7. Rank(P, n) \in DOMAIN kept
  BY <1>1, <1>5, <1>6
<1>8. kept # << >>
  BY <1>7
<1>9. \A i \in DOMAIN kept : kept[i].code = k /\ kept[i] \in Range(set)
  BY <1>1, <1>5 DEF Range
<1>10. \A m \in DOMAIN set : set[m].code = k => set[m] \in Range(kept)
  BY <1>1, <1>5 DEF Range
<1> QED
  BY <1>3, <1>8, <1>9, <1>10

\* Every code is first seen at one position.
LEMMA FirstPosition ==
    ASSUME NEW set \in Seq(RegistryRecord)
    PROVE  /\ \A k \in Codes(set) : \E n \in FirstSeen(set) : set[n].code = k
           /\ \A m, n \in FirstSeen(set) : set[m].code = set[n].code => m = n
<1>1. ASSUME NEW k \in Codes(set) PROVE \E n \in FirstSeen(set) : set[n].code = k
  <2>1. PICK P : P = {n \in DOMAIN set : set[n].code = k}
    OBVIOUS
  <2>2. P \in SUBSET Nat /\ P # {}
    BY <2>1, SetShape DEF Codes
  <2>3. PICK n \in P : \A m \in P : n <= m
    BY <2>2, LeastElement
  <2>4. n \in DOMAIN set /\ set[n].code = k
    BY <2>1, <2>3
  <2>5. ASSUME NEW m \in 1 .. (n - 1) PROVE set[m].code # set[n].code
    <3>1. n \in Nat /\ m \in DOMAIN set
      BY <2>4, <2>5, SetShape
    <3>2. ~(n <= m)
      BY <2>5, <3>1
    <3> QED
      BY <2>1, <2>3, <2>4, <3>1, <3>2
  <2> QED
    BY <2>4, <2>5 DEF FirstSeen
<1>2. ASSUME NEW m \in FirstSeen(set), NEW n \in FirstSeen(set),
             set[m].code = set[n].code, m # n
      PROVE  FALSE
  <2>1. m \in DOMAIN set /\ n \in DOMAIN set
    BY DEF FirstSeen
  <2>2. m \in Nat \ {0} /\ n \in Nat \ {0}
    BY <2>1, SetShape
  <2>3. m \in 1 .. (n - 1) \/ n \in 1 .. (m - 1)
    BY <1>2, <2>2
  <2> QED
    BY <1>2, <2>3 DEF FirstSeen
<1> QED
  BY <1>1, <1>2

\* sortedProgramKeys meets every code of the set exactly once before it sorts.
LEMMA KeysAreTheCodes ==
    ASSUME NEW set \in Seq(RegistryRecord)
    PROVE  /\ DOMAIN ProgramKeys(set) = 1 .. Cardinality(Codes(set))
           /\ ProgramKeys(set) \in Bijection(1 .. Cardinality(Codes(set)), Codes(set))
<1>1. PICK P, kept, keys : /\ P = FirstSeen(set)
                           /\ kept = KeptBy(set, P)
                           /\ keys = [i \in DOMAIN kept |-> kept[i].code]
  OBVIOUS
<1>2. keys = ProgramKeys(set)
  BY <1>1 DEF ProgramKeys
<1>3. P \in SUBSET Nat /\ IsFiniteSet(P) /\ P \subseteq DOMAIN set
  <2>1. P \in SUBSET DOMAIN set
    BY <1>1 DEF FirstSeen
  <2> QED
    BY <2>1, SetShape, FS_Subset
<1>4. /\ Cardinality(P) \in Nat /\ DOMAIN kept = 1 .. Cardinality(P)
      /\ \A i \in 1 .. Cardinality(P) : NthOf(P, i) \in P /\ kept[i] = set[NthOf(P, i)]
      /\ \A n \in P : Rank(P, n) \in 1 .. Cardinality(P) /\ kept[Rank(P, n)] = set[n]
  BY <1>1, <1>3, KeptShape
<1>5. \A i, j \in 1 .. Cardinality(P) : NthOf(P, i) = NthOf(P, j) => i = j
  BY <1>3, NthOfEnumerates
<1>6. keys \in [1 .. Cardinality(P) -> Codes(set)]
  BY <1>1, <1>3, <1>4 DEF Codes
<1>7. \A i, j \in 1 .. Cardinality(P) : keys[i] = keys[j] => i = j
  BY <1>1, <1>4, <1>5, FirstPosition
<1>8. \A k \in Codes(set) : \E i \in 1 .. Cardinality(P) : keys[i] = k
  <2> SUFFICES ASSUME NEW k \in Codes(set)
               PROVE  \E i \in 1 .. Cardinality(P) : keys[i] = k
    OBVIOUS
  <2>1. PICK n \in P : set[n].code = k
    BY <1>1, FirstPosition
  <2> QED
    BY <1>1, <1>4, <2>1
<1>9. keys \in Bijection(1 .. Cardinality(P), Codes(set))
  BY <1>6, <1>7, <1>8 DEF Bijection, Injection, Surjection, IsInjective
<1>10. Cardinality(Codes(set)) = Cardinality(P)
  BY <1>4, <1>9, FS_CountingElements DEF ExistsBijection
<1> QED
  BY <1>2, <1>6, <1>9, <1>10

\* The insertion sort puts every key where it is among the sorted codes.
LEMMA PlaceIsRank ==
    ASSUME NEW S \in SUBSET Nat, IsFiniteSet(S), NEW n \in Nat,
           NEW keys \in Bijection(1 .. n, S), NEW j \in 1 .. n
    PROVE  Place(keys, j) = Rank(S, keys[j])
<1>1. /\ DOMAIN keys = 1 .. n /\ \A i \in 1 .. n : keys[i] \in S
      /\ \A i, m \in 1 .. n : keys[i] = keys[m] => i = m
      /\ \A k \in S : \E i \in 1 .. n : keys[i] = k
  BY DEF Bijection, Injection, Surjection, IsInjective
<1>2. PICK M, T : /\ M = {m \in 1 .. n : keys[m] < keys[j] \/ (keys[m] = keys[j] /\ m <= j)}
                  /\ T = {k \in S : k <= keys[j]}
  OBVIOUS
<1>3. \A m \in 1 .. n : m \in M <=> keys[m] <= keys[j]
  <2> SUFFICES ASSUME NEW m \in 1 .. n PROVE m \in M <=> keys[m] <= keys[j]
    OBVIOUS
  <2>1. keys[m] \in Nat /\ keys[j] \in Nat
    BY <1>1
  <2>2. keys[m] = keys[j] => m <= j
    BY <1>1
  <2>3. keys[m] <= keys[j] <=> keys[m] < keys[j] \/ keys[m] = keys[j]
    BY <2>1
  <2> QED
    BY <1>2, <2>2, <2>3
<1>4. PICK f : f = [m \in M |-> keys[m]]
  OBVIOUS
<1>5. M \subseteq 1 .. n
  BY <1>2
<1>6. f \in [M -> T]
  BY <1>1, <1>2, <1>3, <1>4, <1>5
<1>7. \A a, b \in M : f[a] = f[b] => a = b
  BY <1>1, <1>4, <1>5
<1>8. \A k \in T : \E m \in M : f[m] = k
  BY <1>1, <1>2, <1>3, <1>4
<1>9. f \in Bijection(M, T)
  BY <1>6, <1>7, <1>8 DEF Bijection, Injection, Surjection, IsInjective
<1>10. IsFiniteSet(M)
  <2>1. M \in SUBSET (1 .. n) /\ IsFiniteSet(1 .. n)
    BY <1>5, FS_Interval
  <2> QED
    BY <2>1, FS_Subset
<1>11. Cardinality(T) = Cardinality(M)
  BY <1>9, <1>10, FS_Bijection DEF ExistsBijection
<1> QED
  BY <1>1, <1>2, <1>11 DEF Place, Rank

\* zipDocs and CreateDocx number the programs alike.
LEMMA SortedAlike ==
    ASSUME NEW set \in Seq(RegistryRecord), NEW i \in 1 .. Cardinality(Codes(set))
    PROVE  SortedProgramKeys(set)[i] = NthOf(Codes(set), i)
<1>1. PICK S, n, keys : S = Codes(set) /\ n = Cardinality(S) /\ keys = ProgramKeys(set)
  OBVIOUS
<1>2. S \in SUBSET Nat /\ IsFiniteSet(S)
  BY <1>1, SetShape
<1>3. /\ n \in Nat
      /\ \A p \in 1 .. n : NthOf(S, p) \in S /\ Rank(S, NthOf(S, p)) = p
      /\ \A k \in S : NthOf(S, Rank(S, k)) = k
  BY <1>1, <1>2, NthOfEnumerates
<1>4. DOMAIN keys = 1 .. n /\ keys \in Bijection(1 .. n, S)
  BY <1>1, KeysAreTheCodes
<1>5. \A j \in 1 .. n : keys[j] \in S /\ Place(keys, j) = Rank(S, keys[j])
  <2>1. \A j \in 1 .. n : keys[j] \in S
    BY <1>4 DEF Bijection, Injection
  <2> QED
    BY <1>2, <1>3, <1>4, <2>1, PlaceIsRank
<1>6. \E j \in 1 .. n : Place(keys, j) = i
  <2>1. i \in 1 .. n /\ NthOf(S, i) \in S
    BY <1>1, <1>3
  <2>2. PICK j \in 1 .. n : keys[j] = NthOf(S, i)
    BY <1>4, <2>1 DEF Bijection, Surjection
  <2> QED
    BY <1>3, <1>5, <2>1, <2>2
<1>7. PICK j : j = CHOOSE p \in 1 .. n : Place(keys, p) = i
  OBVIOUS
<1>8. j \in 1 .. n /\ Place(keys, j) = i
  BY <1>6, <1>7
<1>9. SortedProgramKeys(set)[i] = keys[j]
  BY <1>1, <1>4, <1>7 DEF SortedProgramKeys
<1> QED
  BY <1>1, <1>3, <1>5, <1>8, <1>9

\* The archive of a registry set: every entry has the records of its name, and
\* every record is in one.
LEMMA ArchiveShape ==
    ASSUME NEW set \in Seq(RegistryRecord), NEW zip, zip = ZipDocs(set)
    PROVE  /\ \A i \in DOMAIN zip : zip[i].records # << >>
           /\ \A i \in DOMAIN zip : \A n \in DOMAIN zip[i].records :
                zip[i].records[n].code = zip[i].name
           /\ \A i, j \in DOMAIN zip : zip[i].name = zip[j].name => i = j
           /\ Range(set) = UNION {Range(zip[i].records) : i \in DOMAIN zip}
<1>1. PICK S, n : S = Codes(set) /\ n = Cardinality(S)
  OBVIOUS
<1>2. S \in SUBSET Nat /\ IsFiniteSet(S)
  BY <1>1, SetShape
<1>3. /\ n \in Nat
      /\ \A i \in 1 .. n : NthOf(S, i) \in S /\ Rank(S, NthOf(S, i)) = i
      /\ \A k \in S : Rank(S, k) \in 1 .. n /\ NthOf(S, Rank(S, k)) = k
  BY <1>1, <1>2, NthOfEnumerates
<1>4. /\ DOMAIN zip = 1 .. n
      /\ \A i \in 1 .. n : /\ zip[i].name = NthOf(S, i)
                           /\ zip[i].records = RecordsWith(set, NthOf(S, i))
  <2>1. /\ DOMAIN zip = DOMAIN CreateDocx(set)
        /\ \A i \in DOMAIN CreateDocx(set) :
             zip[i].name = SortedProgramKeys(set)[i] /\ zip[i].records = CreateDocx(set)[i]
    BY DEF ZipDocs
  <2>2. /\ DOMAIN CreateDocx(set) = 1 .. n
        /\ \A i \in 1 .. n : CreateDocx(set)[i] = RecordsWith(set, NthOf(S, i))
    BY <1>1 DEF CreateDocx
  <2>3. \A i \in 1 .. n : SortedProgramKeys(set)[i] = NthOf(S, i)
    BY <1>1, SortedAlike
  <2> QED
    BY <2>1, <2>2, <2>3
<1>5. \A i \in 1 .. n :
        /\ zip[i].records # << >>
        /\ \A m \in DOMAIN zip[i].records :
             zip[i].records[m].code = zip[i].name /\ zip[i].records[m] \in Range(set)
        /\ \A m \in DOMAIN set : set[m].code = zip[i].name => set[m] \in Range(zip[i].records)
  BY <1>1, <1>3, <1>4, GroupShape
<1>6. \A i, j \in DOMAIN zip : zip[i].name = zip[j].name => i = j
  BY <1>3, <1>4
<1>7. ASSUME NEW r \in Range(set) PROVE \E i \in DOMAIN zip : r \in Range(zip[i].records)
  <2>1. PICK m \in DOMAIN set : r = set[m]
    BY DEF Range
  <2>2. set[m].code \in S
    BY <1>1 DEF Codes
  <2>3. PICK i \in 1 .. n : zip[i].name = set[m].code
    BY <1>3, <1>4, <2>2
  <2> QED
    BY <1>4, <1>5, <2>1, <2>3
<1>8. ASSUME NEW i \in DOMAIN zip, NEW r \in Range(zip[i].records) PROVE r \in Range(set)
  <2>1. PICK m \in DOMAIN zip[i].records : r = zip[i].records[m]
    BY <1>8 DEF Range
  <2> QED
    BY <1>4, <1>5, <2>1
<1>9. Range(set) = UNION {Range(zip[i].records) : i \in DOMAIN zip}
  BY <1>7, <1>8
<1> QED
  BY <1>4, <1>5, <1>6, <1>9

\* The DOCX archive has one entry per program, under the program's code, with all
\* records of that code and no others, for any number of participants and codes
\* and in whatever order the programs are met (CreateDocx, zipDocs,
\* sortedProgramKeys).
THEOREM EntriesSafety == DocumentsSpec => []EntriesMatchTheirNames
<1>1. DocumentsInv => EntriesMatchTheirNames
  <2> SUFFICES ASSUME DocumentsInv, NEW g \in Generator, InStep(g, "insert"),
                      job[g].type = "docx", NEW zip, zip = ZipDocs(job[g].set)
               PROVE  /\ \A i \in DOMAIN zip : zip[i].records # << >>
                      /\ \A i \in DOMAIN zip : \A n \in DOMAIN zip[i].records :
                           zip[i].records[n].code = zip[i].name
                      /\ \A i, j \in DOMAIN zip : zip[i].name = zip[j].name => i = j
                      /\ Range(job[g].set) = UNION {Range(zip[i].records) : i \in DOMAIN zip}
    BY Zenon DEF EntriesMatchTheirNames
  <2>1. job[g] \in Job
    BY DEF DocumentsInv, JobsInv, JobOK
  <2>2. job[g].set \in Seq(RegistryRecord)
    BY <2>1 DEF Job
  <2> QED
    BY <2>2, ArchiveShape
<1> QED
  BY <1>1, DocumentsInvariance, PTL

============================================================================
