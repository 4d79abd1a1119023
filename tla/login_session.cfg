CONSTANTS
    o1 = o1
    o2 = o2
    o3 = o3
    NoOp = NoOp
    Op = {o1, o2}
    AlwaysAuthenticate = {FALSE, TRUE}
    Others = {FALSE, TRUE}
    Cancellable = {o1}
    Resettable = TRUE
SPECIFICATION FairSpec
CHECK_DEADLOCK FALSE
INVARIANTS
    ClosedSessionHasNoDevice
    SignsOnItsOwnSession
    WaitersAreServed
    LoginExcludesNewWork
    CancelledLoginTakesNobody
PROPERTIES
    CancelledLoginIsUndone
    OperationsAreAnswered
