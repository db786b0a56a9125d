SPECIFICATION FairSpec
CONSTANTS
    Links = {l1, l2, l3, l4}
    App = {a}
    Worker = w
    Timer = timer
    None = none
    Created = {l1}
    Calm = {l2, l3, l4}
    Errors = FALSE
PROPERTY ConnectionIsAccepted
CHECK_DEADLOCK FALSE
