SPECIFICATION FairSpec
CONSTANTS
    NoKey = NoKey
    NoBlob = NoBlob
    NoTask = NoTask
    Peers = {1, 2}
    First = {2}
    Leavers = {1}
    Rotating = FALSE
    MaxLives = 1
    MaxEpoch = 2
PROPERTY LearnsEpoch
CHECK_DEADLOCK FALSE
