\* Two concurrent requests, three workbooks and one that fails preflight, room
\* for two in the queue, and a crash at any point.
CONSTANTS
    Client = {c1, c2}
    Key = {k1}
    NoKey = NoKey
    Sha = {a, b, c, bad}
    GoodSha = {a, b, c}
    Nobody = Nobody
    ActiveQueueLimit = 2
    MaxUploads = 3
    MaxCrashes = 1
SYMMETRY QueueSymmetry
SPECIFICATION Spec
CHECK_DEADLOCK FALSE
INVARIANTS
    QueueIsOrderly
    UploadsAreIdempotent
    FilesMatchRows
