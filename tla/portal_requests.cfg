CONSTANTS
    c1 = c1
    c2 = c2
    Caller = {c1}
    Exports = {"predicted", "other"}
    MaxEpoch = 3
SPECIFICATION FairSpec
CHECK_DEADLOCK FALSE
INVARIANTS
    AbandonedRequestIsClosed
    NoOrphanGrant
    SessionStaysWithItsOwner
    AvailabilityIsCurrent
    StoppedLoopOwesNothing
PROPERTIES
    FinalizeEnds
