SPECIFICATION Spec
CONSTANTS
    Bytes = 4
    Cap = 3
    LinkTypes = {"Connect", "Accept"}
    Resets = TRUE
    Links = {l1, l2}
    Limit = 2
    Jumps <- JumpsDef
    Own = {o1}
    Guest = {g1, g2}
    Fds = {f1, f2}
    NameFails = TRUE
    MaxInits = 3
    Half = 4
    MaxMade = 20
    MaxLive = 3
    Thread = {t1, t2, t3}
    Main = t1
    WarmObjects = 3
    ColdObjects = 2
    t1 = t1
    t2 = t2
    a = a
    b = b
    c = c
    Sharer = {t1, t2}
    PtrsOf <- PtrsOfDef
    Table = {m}
    MaxObjects = 2
INVARIANTS
    EndedIsClosed
CHECK_DEADLOCK FALSE
