SPECIFICATION FairSpec
CONSTANTS
    Links = {l1}
    App = {a}
    Worker = w
    None = none
    SndRoom = 1
    RcvRoom = 2
    Traffic = FALSE
    Errors = FALSE
PROPERTY WaitingIsRead
CHECK_DEADLOCK FALSE
