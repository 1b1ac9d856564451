\* Two operators on three rows of one person, one of them malformed and one
\* with an unknown code, while assignments are made, moved and ended.
CONSTANTS
    p1 = p1
    g1 = g1
    g2 = g2
    Client = {c1, c2}
    RowCount = 3
    Person = {p1}
    Program = {g1, g2}
    Unknown = Unknown
    Employer = {e1, e2}
    RequestEmployer = e1
    PersonOf <- ThreePersons
    ItemsOf <- Overlapping
    Malformed = {1}
    MaxAssignments = 2
SPECIFICATION Spec
SYMMETRY RequestSymmetry
CHECK_DEADLOCK FALSE
INVARIANTS
    EnrolledOnce
    ItemsNameTheirRecord
    MalformedEnrolsNobody
PROPERTIES
    ReapplyIsHarmless
