SPECIFICATION FairSpec
CONSTANTS
    Links = {l1}
    App = {a, b}
    Worker = w
    None = none
    SndRoom = 1
    RcvRoom = 2
    Traffic = TRUE
    Errors = TRUE
INVARIANTS
    TypeOK
    EarlyOnlyWhileCreating
    UninitLeavesNothing
PROPERTIES
    DestroyFreesSender
    WorkerServes
CHECK_DEADLOCK FALSE
