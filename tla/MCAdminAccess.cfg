SPECIFICATION Spec
CONSTANTS
    Slot = {s1, s2}
    Key = {k1}
    User = {admin, operator}
    Admin = admin
    Nobody = Nobody
    MaxTokens = 1
    Window = 4
    Second = 2
    TTL = 1
    Token <- Tokens
    MaxTime = 4
SYMMETRY SlotSymmetry
INVARIANTS
    AttemptsAreBounded
    SessionsAreSound
PROPERTIES
    
    SessionEndsAfterTTL
