SPECIFICATION FairSpec
CONSTANTS
    NoKey = NoKey
    NoBlob = NoBlob
    NoTask = NoTask
    Peers = {1, 2}
    First = {}
    Leavers = {}
    Rotating = TRUE
    MaxLives = 1
    MaxEpoch = 2
PROPERTY EventuallyAgreed
CHECK_DEADLOCK FALSE
