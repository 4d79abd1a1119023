CONSTANTS
    o1 = o1
    o2 = o2
    o3 = o3
    NoOp = NoOp
    Op = {o1, o2, o3}
    AlwaysAuthenticate = {TRUE}
    Others = {FALSE}
    Cancellable = {}
    Resettable = FALSE
SPECIFICATION Spec
CHECK_DEADLOCK FALSE
SYMMETRY Operations
INVARIANTS
    TokenRemovedMeansRemoval
