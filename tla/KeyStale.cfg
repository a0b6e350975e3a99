SPECIFICATION Spec
CONSTANTS
    NoKey = NoKey
    NoBlob = NoBlob
    NoTask = NoTask
    Peers = {1, 2}
    First = {}
    Leavers = {}
    Rotating = TRUE
    MaxLives = 1
    MaxEpoch = 1
INVARIANT HeldKeyIsCurrent
CHECK_DEADLOCK FALSE
