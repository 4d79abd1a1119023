CONSTANTS
    s1 = s1
    s2 = s2
    a1 = a1
    a2 = a2
    g1 = g1
    c1 = c1
    c2 = c2
    c3 = c3
    t1 = t1
    t2 = t2
    NoCard = NoCard
    NoRequest = NoRequest
    TokenOf <- TokenTable
    Session = {s1}
    SessionOf <- OneSession
    Acquire = {a1}
    Sign = {}
    Presence = {c1, c2, c3}
    Serialless = {t2}
    Matching = {c1, c2, c3}
    Movable = {c1, c2}
    Settings <- DesktopOnly
    CancelReasons = {"cancelled"}
    Cancellable = {a1}
    MaxGeneration = 1
    MayShutDown = FALSE
SPECIFICATION Spec
CHECK_DEADLOCK FALSE
INVARIANTS
    NoGrantOnRemovedToken
    AcquisitionContinues
PROPERTIES
    SuccessDecidedOnLiveSession
