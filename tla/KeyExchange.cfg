SPECIFICATION Spec
CONSTANTS
    NoKey = NoKey
    NoBlob = NoBlob
    NoTask = NoTask
    Peers = {1, 2, 3}
    First = {3}
    Leavers = {1, 3}
    Rotating = FALSE
    MaxLives = 1
    MaxEpoch = 2
INVARIANT TypeOK
INVARIANT NoPastKey
INVARIANT LeaverLockedOut
INVARIANT OneKeyPerSession
INVARIANT SealedIsCurrent
CHECK_DEADLOCK FALSE
