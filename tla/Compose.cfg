SPECIFICATION FairSpec
CONSTANTS
    NameChars <- MCNameChars
    Services <- MCServices
    Name <- MCName
    Leftover <- MCLeftover
    Remote <- MCRemote
    Probed <- MCProbed
    Jobs <- MCJobs
    Job <- MCJob
    MaxContainers = 5
    MaxTurns = 1
    MaxCommands = 2
    MaxFaults = 1
    LogLines = 3
    ErrLines = {2}
    Buffer = 1
INVARIANT TypeOK
INVARIANT ExpandLaw
INVARIANT EnvLaw
INVARIANT WavesSound
INVARIANT PlanOrdered
INVARIANT StartOrder
INVARIANT UpComplete
INVARIANT DownClears
INVARIANT LogsFaithful
PROPERTY OwnProject
PROPERTY CommandEnds
CHECK_DEADLOCK FALSE
