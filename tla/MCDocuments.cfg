\* One generation at a time beside one request that adds and removes participants
\* and any that fix, move or cancel the protocol.
CONSTANTS
    Client = {c1}
    Group = {g}
    Record = {r1, r2}
    Year = {y}
    Month = {m}
    Suffix = {s}
    NoNumber = NoNumber
    MaxProtocols = 1
    MaxParticipants = 2
    Generator = {d1}
    Code = {1, 2}
    MaxRuns = 2
SYMMETRY DocumentsSymmetry
SPECIFICATION DocumentsSpec
CHECK_DEADLOCK FALSE
INVARIANTS
    DocumentsCarryTheNumber
    RunsAreTruthful
    EveryoneListedOnce
    EntriesMatchTheirNames
