SPECIFICATION Spec
CONSTANTS
    Links = {l1, l2}
    App = {a, b}
    Worker = w
    Timer = timer
    None = none
    Created = {l1, l2}
    Calm = {}
    Errors = TRUE
SYMMETRY Symmetry
INVARIANTS
    TypeOK
    RemovedIsTold
    NoDeafLink
    OneClosedUnlessRaced
    UninitLeavesNothing
PROPERTY KeepsContract
CHECK_DEADLOCK FALSE
