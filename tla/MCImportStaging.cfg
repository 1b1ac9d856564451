\* Two workers replacing each other over a three-sheet workbook, until it is staged.
CONSTANTS
    Worker = {w1, w2}
    NoOwner = NoOwner
    SheetCount = 3
    RowsIn <- RowsThreeSheets
    BatchSize = 2
    LeaseDuration = 2
    MaxDelay = 1
SPECIFICATION FairSpec
INVARIANTS
    CheckpointIsExact
    SourceLifetime
    CountersAreCurrent
PROPERTIES
    LeaseIsExclusive
    
    ImplementsStagedCopy
    
