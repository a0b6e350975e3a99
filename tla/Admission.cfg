SPECIFICATION FairSpec
CONSTANTS
    s1 = s1  s2 = s2  chess = chess  dean = dean  clare = clare
    una = una  ulf = ulf  p1 = p1  p2 = p2
    NoSession = NoSession  NoSeat = NoSeat  Nil = Nil
    SessionIds = {s1, s2}
    Audiences = {chess}
    Roles = {dean, clare}
    Subjects = {una, ulf}
    Pids = {p1, p2}
    Rosters <- TwoRosters
    Ttls = {0, 1, 4}
    Expiries = {1}
    Seqs = {1, 2}
    MaxLifetime = 3
    MaxSeats = 2
    MaxSessions = 2
    MaxSeq = 2
    MaxDraws = 3
    MaxClock = 1
    MaxRelays = 2
INVARIANT TypeOK
INVARIANT MonitorAgreement
INVARIANT CredentialOnce
INVARIANT ScopedLease
INVARIANT RelayOrder
INVARIANT IndInv
PROPERTY ImplementsAuthority
PROPERTY ToldWhenCut
PROPERTY DeadHolderFreed
PROPERTY OverdueRevoked
CHECK_DEADLOCK FALSE
