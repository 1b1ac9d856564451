\* Every request is answered.
CONSTANTS
    Client = {c1, c2}
    Key = {k1}
    NoKey = NoKey
    Sha = {a}
    GoodSha = {a}
    Nobody = Nobody
    ActiveQueueLimit = 1
    MaxUploads = 2
    MaxCrashes = 0
SPECIFICATION FairSpec
CHECK_DEADLOCK FALSE
PROPERTIES
    EveryUploadIsAnswered
