\* An applied row that is skipped.
CONSTANTS
    p1 = p1
    g1 = g1
    g2 = g2
    Client = {c1, c2}
    RowCount = 1
    Person = {p1}
    Program = {g1, g2}
    Unknown = Unknown
    Employer = {e1, e2}
    RequestEmployer = e1
    PersonOf <- OnePerson
    ItemsOf <- OneItem
    Malformed = {}
    MaxAssignments = 0
SPECIFICATION Spec
PROPERTIES
    DecisionIsFinal
CHECK_DEADLOCK FALSE
