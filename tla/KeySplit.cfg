SPECIFICATION Spec
CONSTANTS
    NoKey = NoKey
    NoBlob = NoBlob
    NoTask = NoTask
    Peers = {1, 2, 3}
    First = {3}
    Leavers = {}
    Rotating = FALSE
    MaxLives = 1
    MaxEpoch = 1
INVARIANT NoSplitBrain
CHECK_DEADLOCK FALSE
