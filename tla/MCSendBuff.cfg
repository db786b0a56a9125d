SPECIFICATION FairSpec
CONSTANTS
    Links = {l1}
    App = {a, b}
    Worker = w
    None = none
    MsgSize = 3
    Room = 1
    MaxSends = 2
    Resets = TRUE
    Traffic = TRUE
INVARIANTS
    TypeOK
    NoLostSend
    FlushWritesOpenSocket
    StreamIsIntact
PROPERTY FlushMovesOn
CHECK_DEADLOCK FALSE
