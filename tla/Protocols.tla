----------------------------- MODULE Protocols -----------------------------
(***************************************************************************)
(* Training protocols: lifecycle, numbering and participants               *)
(* (backend/protocols).                                                    *)
(*                                                                         *)
(* Fix and Transition run in one transaction on the only connection, so    *)
(* each is one step.  AddParticipant and RemoveParticipant read first and  *)
(* write in a second statement; other requests run in between.  The action *)
(* log is written by a third statement after the change.                   *)
(***************************************************************************)
EXTENDS Integers, Sequences, Bags

CONSTANTS
    Client,           \* concurrent requests
    Group,            \* program groups
    Record,           \* training records
    Year, Month,      \* of the protocol dates that requests carry
    Suffix,           \* normalised suffixes, the empty one included
    NoNumber,         \* protocol_number and the columns it implies are NULL
    MaxProtocols,     \* bound: protocols created in a behaviour
    MaxParticipants   \* bound: participant rows created in a behaviour

ASSUME NumberAssumption ==
    NoNumber \notin [year: Year, month: Month, seq: Nat \ {0}, suffix: Suffix]
ASSUME BoundAssumption == MaxProtocols \in Nat /\ MaxParticipants \in Nat

VARIABLES
    protocols,     \* table protocols; the id of a row is its position
    participants,  \* table protocol_participants, likewise
    actionLog,     \* bag of the rows of action_log about participants
    call           \* call[c]: the request of client c

vars == <<protocols, participants, actionLog, call>>

Status == {"draft", "fixed", "xml_uploaded", "registry_entered", "generated",
           "completed", "cancelled"}
Issued == {"fixed", "xml_uploaded", "registry_entered", "generated", "completed"}

Number == [year: Year, month: Month, seq: Nat \ {0}, suffix: Suffix]
Protocol == [group: Group, status: Status, number: Number \cup {NoNumber}]
Participant == [protocol: Nat, record: Record, status: {"active", "removed"}]
Entry == [action: {"add_participant", "remove_participant"}, id: Nat]

\* id is the protocol of an insertion, else the participant.
Call ==
    [step: {"idle", "insert", "mark", "log_add", "log_remove"},
     id: Nat, record: Record \cup {"none"}]

Idle == [step |-> "idle", id |-> 0, record |-> "none"]

Init ==
    /\ protocols = << >>
    /\ participants = << >>
    /\ actionLog = EmptyBag
    /\ call = [c \in Client |-> Idle]

At(c, step) == call[c].step = step
Become(c, r) == call' = [call EXCEPT ![c] = r]

----------------------------------------------------------------------------
(* Protocol lifecycle *)

\* The group is looked up first; groups are never deleted.
CreateProtocol(g) ==
    /\ Len(protocols) < MaxProtocols
    /\ protocols' = Append(protocols,
         [group |-> g, status |-> "draft", number |-> NoNumber])
    /\ UNCHANGED <<participants, actionLog, call>>

InSeries(r, g, y, x) ==
    r.group = g /\ r.number # NoNumber /\ r.number.year = y /\ r.number.suffix = x

\* Mutant: the numbers of cancelled protocols are handed out again.
LiveSequenceNumbers(g, y, x) ==
    {protocols[p].number.seq : p \in {q \in DOMAIN protocols :
        InSeries(protocols[q], g, y, x) /\ protocols[q].status # "cancelled"}}

\* annual_sequence_number of every protocol in the (group, year, suffix) series.
SequenceNumbers(g, y, x) ==
    {protocols[p].number.seq :
        p \in {q \in DOMAIN protocols : InSeries(protocols[q], g, y, x)}}

\* nextSequenceLocked: MAX() + 1, or 1 in an empty series.
NextSequence(g, y, x) ==
    LET used == SequenceNumbers(g, y, x) IN
    IF used = {} THEN 1 ELSE (CHOOSE m \in used : \A n \in used : n <= m) + 1

\* Mutant: a protocol that is fixed already gets another number.
Refix(p, y, m, x) ==
    /\ protocols[p].status \in {"draft", "fixed"}
    /\ protocols' = [protocols EXCEPT ![p] =
         [group |-> @.group, status |-> "fixed",
          number |-> [year |-> y, month |-> m, suffix |-> x,
                      seq |-> NextSequence(@.group, y, x)]]]
    /\ UNCHANGED <<participants, actionLog, call>>

\* Anything but a draft is refused.
Fix(p, y, m, x) ==
    /\ protocols[p].status = "draft"
    /\ protocols' = [protocols EXCEPT ![p] =
         [group |-> @.group, status |-> "fixed",
          number |-> [year |-> y, month |-> m, suffix |-> x,
                      seq |-> NextSequence(@.group, y, x)]]]
    /\ UNCHANGED <<participants, actionLog, call>>

\* validTransitions: one step ahead, or cancelled while there is a step ahead.
Successor ==
    [draft |-> "fixed", fixed |-> "xml_uploaded",
     xml_uploaded |-> "registry_entered", registry_entered |-> "generated",
     generated |-> "completed"]

CanTransition(from, to) ==
    from \in DOMAIN Successor /\ to \in {Successor[from], "cancelled"}

\* The CHECK of table protocols: an issued protocol has its number and dates.
SchemaAllows(r, to) == to \in Issued => r.number # NoNumber

\* A transition that the table or the schema forbids is refused and rolled back.
Transition(p, to) ==
    /\ CanTransition(protocols[p].status, to)
    /\ SchemaAllows(protocols[p], to)
    /\ protocols' = [protocols EXCEPT ![p] = [@ EXCEPT !.status = to]]
    /\ UNCHANGED <<participants, actionLog, call>>

----------------------------------------------------------------------------
(* Participants *)

ActiveFor(r) ==
    {i \in DOMAIN participants :
        participants[i].record = r /\ participants[i].status = "active"}

\* AddParticipant up to GetActiveParticipantForTrainingRecord, which refuses a
\* record that is in a protocol.  Protocols, looked up before, are never deleted.
CheckActive(c, p, r) ==
    /\ At(c, "idle")
    /\ Len(participants) < MaxParticipants
    /\ ActiveFor(r) = {}
    /\ Become(c, [step |-> "insert", id |-> p, record |-> r])
    /\ UNCHANGED <<protocols, participants, actionLog>>

SlotAlwaysFree(r) == TRUE  \* mutant: no unique index

\* ux_protocol_participants_active_training_record.
SlotFree(r) == ActiveFor(r) = {}

\* CreateProtocolParticipant under the unique index on active records.
InsertParticipant(c) ==
    /\ At(c, "insert")
    /\ \/ /\ SlotFree(call[c].record)
          /\ participants' = Append(participants, [protocol |-> call[c].id,
               record |-> call[c].record, status |-> "active"])
          /\ Become(c, [Idle EXCEPT !.step = "log_add", !.id = Len(participants) + 1])
       \/ /\ ~SlotFree(call[c].record)
          /\ Become(c, Idle)
          /\ UNCHANGED participants
    /\ UNCHANGED <<protocols, actionLog>>

\* RemoveParticipant up to GetProtocolParticipantByID: a removed participant
\* needs no work.
CheckRemoved(c, i) ==
    /\ At(c, "idle")
    /\ participants[i].status = "active"
    /\ Become(c, [Idle EXCEPT !.step = "mark", !.id = i])
    /\ UNCHANGED <<protocols, participants, actionLog>>

\* Mutant: the row is updated whatever its status.
MarkAnyway(c) ==
    /\ At(c, "mark")
    /\ participants' = [participants EXCEPT ![call[c].id].status = "removed"]
    /\ Become(c, [call[c] EXCEPT !.step = "log_remove"])
    /\ UNCHANGED <<protocols, actionLog>>

\* MarkParticipantRemoved updates an active row only; no row is an error.
MarkParticipantRemoved(c) ==
    /\ At(c, "mark")
    /\ \/ /\ participants[call[c].id].status = "active"
          /\ participants' = [participants EXCEPT ![call[c].id].status = "removed"]
          /\ Become(c, [call[c] EXCEPT !.step = "log_remove"])
       \/ /\ participants[call[c].id].status # "active"
          /\ Become(c, Idle)
          /\ UNCHANGED participants
    /\ UNCHANGED <<protocols, actionLog>>

\* recordAudit; its error is ignored.
RecordAudit(c) ==
    /\ call[c].step \in {"log_add", "log_remove"}
    /\ LET action == IF At(c, "log_add") THEN "add_participant" ELSE "remove_participant"
       IN  \/ actionLog' = actionLog (+) SetToBag({[action |-> action, id |-> call[c].id]})
           \/ UNCHANGED actionLog
    /\ Become(c, Idle)
    /\ UNCHANGED <<protocols, participants>>

\* The request's context is cancelled between two statements.
Cancel(c) ==
    /\ call[c].step \in {"insert", "mark"}
    /\ Become(c, Idle)
    /\ UNCHANGED <<protocols, participants, actionLog>>

----------------------------------------------------------------------------
Next ==
    \/ \E g \in Group : CreateProtocol(g)
    \/ \E p \in DOMAIN protocols :
         \/ \E y \in Year, m \in Month, x \in Suffix : Fix(p, y, m, x)
         \/ \E to \in Status : Transition(p, to)
         \/ \E c \in Client, r \in Record : CheckActive(c, p, r)
    \/ \E c \in Client, i \in DOMAIN participants : CheckRemoved(c, i)
    \/ \E c \in Client :
         \/ InsertParticipant(c)
         \/ MarkParticipantRemoved(c)
         \/ RecordAudit(c)
         \/ Cancel(c)

Spec == Init /\ [][Next]_vars

----------------------------------------------------------------------------
(* Properties *)

\* Every variable has the type of the row or Go value it models.
TypeOK ==
    /\ protocols \in Seq(Protocol)
    /\ participants \in Seq(Participant)
    /\ IsABag(actionLog) /\ BagToSet(actionLog) \subseteq Entry
    /\ call \in [Client -> Call]

\* Within a program group, a year and a suffix no two protocols share a number,
\* cancelled ones included (nextSequenceLocked, Fix).
NumbersAreUnique ==
    \A p, q \in DOMAIN protocols :
        /\ protocols[p].number # NoNumber
        /\ protocols[q].number # NoNumber
        /\ protocols[p].group = protocols[q].group
        /\ protocols[p].number.year = protocols[q].number.year
        /\ protocols[p].number.suffix = protocols[q].number.suffix
        /\ protocols[p].number.seq = protocols[q].number.seq
        => p = q

\* The annual numbering of a series has no gaps: whoever holds number n > 1 has
\* a predecessor in the same series (nextSequenceLocked, Fix, Transition).
NumbersHaveNoGaps ==
    \A p \in DOMAIN protocols :
        protocols[p].number # NoNumber /\ protocols[p].number.seq > 1 =>
            \E q \in DOMAIN protocols :
                /\ protocols[q].number # NoNumber
                /\ protocols[q].group = protocols[p].group
                /\ protocols[q].number.year = protocols[p].number.year
                /\ protocols[q].number.suffix = protocols[p].number.suffix
                /\ protocols[q].number.seq = protocols[p].number.seq - 1

\* A protocol has its number exactly as long as it is issued, or was issued
\* before it was cancelled; a draft never has one (Fix, Transition, the CHECK).
IssuedIsNumbered ==
    \A p \in DOMAIN protocols :
        /\ protocols[p].status \in Issued => protocols[p].number # NoNumber
        /\ protocols[p].status = "draft" => protocols[p].number = NoNumber

\* The numbers of a group, year and suffix are 1, 2, ... n, each given once, to
\* protocols that were issued (Fix, Transition, nextSequenceLocked).
NumberingIsSound == NumbersAreUnique /\ NumbersHaveNoGaps /\ IssuedIsNumbered

\* The number of a protocol never changes, and no request revives a protocol
\* that is completed or cancelled (Fix, validTransitions).
IssuedIsFinal ==
    [][\A p \in DOMAIN protocols :
          /\ protocols[p].number # NoNumber
               => protocols'[p].number = protocols[p].number
          /\ protocols[p].status \in {"completed", "cancelled"}
               => protocols'[p] = protocols[p]]_vars

\* A training record is an active participant of at most one protocol, also when
\* concurrent requests add it (AddParticipant).
OneActiveProtocolPerRecord ==
    \A i, j \in DOMAIN participants :
        /\ participants[i].record = participants[j].record
        /\ participants[i].status = "active"
        /\ participants[j].status = "active"
        => i = j

\* The action log tells the truth and tells it once: an entry about a participant
\* is there at most once, and a removal only for a removed participant
\* (RemoveParticipant: "without writing a duplicate audit row").
LogIsTruthful ==
    \A e \in BagToSet(actionLog) :
        /\ actionLog[e] = 1
        /\ e.id \in DOMAIN participants
        /\ e.action = "remove_participant" => participants[e.id].status = "removed"

\* All rows are well typed, and the log agrees with them (recordAudit).
LogMatchesRows == TypeOK /\ LogIsTruthful

============================================================================
