SPECIFICATION FairSpec
CONSTANTS
    c1 = c1  c2 = c2  c3 = c3  una = una  ulf = ulf  mute = mute
    NoConn = NoConn  NoUser = NoUser
    Conns = {c1, c2, c3}
    Users = {una, ulf}
    UserOf <- MCUserOf
    VoiceStates = {live, mute}
    Connected = live
    live = live
    Capacity = 2
    Disturbances = {}
    MaxBoots = 2
    MaxAsks = 1
INVARIANT PresentIsListed
INVARIANT IdleTimerWatches
PROPERTY NoSendAfterLeave
PROPERTY DesertedStops
CHECK_DEADLOCK FALSE
