SPECIFICATION FairSpec
CONSTANTS
    Links = {l1}
    App = {a}
    Worker = w
    None = none
    MsgSize = 2
    Room = 1
    MaxSends = 2
    Resets = FALSE
    Traffic = FALSE
PROPERTY BufferedIsSent
CHECK_DEADLOCK FALSE
