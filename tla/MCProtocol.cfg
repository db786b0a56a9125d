SPECIFICATION ProtocolSpec
CONSTANTS
    Parts = {"mgr", "udp", "pool", "frames"}
    Clients = {c1, c2}
    Listener = listener
    NoLink = none
    NoOne = nobody
    Versions <- VersionsDef
    Peer = {p1, p2}
    Major = {1}
    Sub = {0, 1}
    MaxAsks = 1
    Loss = TRUE
    Repeat = TRUE
    Stops = FALSE
    Pool = {t1, t2}
    Callers = {a1}
    Tasks = {}
    TimerIds = {1, 2}
    Elapse = {1}
    Hour = 3
    MaxTime = 2
    Jumps = TRUE
    Conns = {k1, k2}
    Traffic <- TrafficDef
SYMMETRY Symmetry
INVARIANTS
    TableIsTrue
    AuthFollowsAgreement
    TimersAreKept
    RoundTrip
    PacketsAreIntact
    DigestIsMd5
    CastIsSound
CHECK_DEADLOCK FALSE
