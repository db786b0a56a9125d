SPECIFICATION FairSpec
CONSTANTS
    Links = {l1, l2}
    App = {a}
    Worker = w
    Timer = timer
    None = none
    Created = {l1, l2}
    Calm = {}
    Errors = FALSE
PROPERTIES
    HangupIsHandled
    UninitReturns
    FarewellComes
CHECK_DEADLOCK FALSE
