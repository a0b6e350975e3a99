SPECIFICATION Spec
CONSTANTS
    c1 = c1  c2 = c2  c3 = c3  una = una  ulf = ulf  mute = mute
    NoConn = NoConn  NoUser = NoUser
    Conns = {c1, c2}
    Users = {una, ulf}
    UserOf <- PairUserOf
    VoiceStates = {live}
    Connected = live
    live = live
    Capacity = 2
    Disturbances = {}
    MaxBoots = 2
    MaxAsks = 0
INVARIANT EnsureFinds
CHECK_DEADLOCK FALSE
