SPECIFICATION FairSpec
CONSTANTS
    Links = {l1}
    App = {a, b}
    Worker = w
    None = none
    MsgSize = 2
    Room = 1
    MaxSends = 2
    Resets = TRUE
    Traffic = TRUE
PROPERTY DestroyReturns
CHECK_DEADLOCK FALSE
