\* Two concurrent requests that add and remove one record in two protocols, which
\* are fixed in two groups and under two suffixes, moved on and cancelled.
CONSTANTS
    Client = {c1, c2}
    Group = {g1, g2}
    Record = {r}
    Year = {y}
    Month = {m}
    Suffix = {s1, s2}
    NoNumber = NoNumber
    MaxProtocols = 2
    MaxParticipants = 2
SYMMETRY ProtocolsSymmetry
SPECIFICATION Spec
CHECK_DEADLOCK FALSE
INVARIANTS
    NumberingIsSound
    OneActiveProtocolPerRecord
    LogMatchesRows
PROPERTIES
    IssuedIsFinal
