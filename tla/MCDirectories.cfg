\* Two requests at a time over three rows of any kinds and two keys.
CONSTANTS
    Client = {c1, c2}
    Key = {1, 2}
    MaxRows = 3
    MaxChanges = 4
SYMMETRY DirectoriesSymmetry
SPECIFICATION Spec
CHECK_DEADLOCK FALSE
INVARIANTS
    LogAccountsForRows
PROPERTIES
    DeactivationIsFinal
