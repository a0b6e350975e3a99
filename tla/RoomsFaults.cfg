SPECIFICATION FairSpec
CONSTANTS
    c1 = c1  c2 = c2  c3 = c3  una = una  ulf = ulf  mute = mute
    NoConn = NoConn  NoUser = NoUser
    Conns = {c1, c2, c3}
    Users = {una, ulf}
    UserOf <- MCUserOf
    VoiceStates = {live}
    Connected = live
    live = live
    Capacity = 1
    Disturbances = {"room_crash", "call_timeout", "join_crash", "kick"}
    MaxBoots = 2
    MaxAsks = 1
INVARIANT TypeOK
INVARIANT CapacityKept
PROPERTY EmptyEnds
CHECK_DEADLOCK FALSE
