SPECIFICATION FairSpec
CONSTANTS
    Parts = {"mgr", "nego", "udp", "pool", "frames"}
    Clients = {c1}
    Listener = listener
    NoLink = none
    NoOne = nobody
    Versions <- VersionsDef
    Peer = {p1, p2}
    Major = {1}
    Sub = {0}
    MaxAsks = 1
    Loss = FALSE
    Repeat = FALSE
    Stops = TRUE
    Pool = {t1, t2}
    Callers = {a1}
    Tasks = {x1, x2}
    TimerIds = {1}
    Elapse = {1}
    Hour = 9
    MaxTime = 1
    Jumps = FALSE
    Conns = {k1}
    Traffic <- TrafficDef
INVARIANTS
    HandshakeIsSound
    NoTaskForgotten
PROPERTIES
    AskedIsAnswered
    EndReturns
CHECK_DEADLOCK FALSE
