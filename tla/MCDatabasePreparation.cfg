\* Two builds on one database, two migrations apart, that keep one automatic
\* backup.
CONSTANTS
    old = old
    new = new
    Process = {old, new}
    NoOwner = NoOwner
    Target <- TwoBuilds
    Retention = 1
    MaxData = 1
    MaxFaults = 2
    MaxSequence = 3
    MaxInterventions = 1
SPECIFICATION Spec
INVARIANTS
    ServesItsOwnSchema
    MigrationIsProtected
    LastServedIsRecoverable
    InterruptedStartCanBeRetried
PROPERTIES
    RefusedIsUntouched
