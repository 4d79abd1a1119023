CONSTANTS
    f1 = f1
    f2 = f2
    s1 = s1
    s2 = s2
    p1 = p1
    k1 = k1
    NoOwner = NoOwner
    NoSess = NoSess
    Frontend = {f1, f2}
    Sess = {s1}
    Path = {p1}
    PathOf <- ShortPath
    Call = {k1}
    LookupMayFail = FALSE
    MaxChanges = 1
    MayShutDown = TRUE
SPECIFICATION FairSpec
CHECK_DEADLOCK FALSE
INVARIANTS
    TableBelongsToOwner
    StaleOwnerIsNoticed
    ShutdownAnswersAll
PROPERTIES
    NoSuccessToFormerOwner
    LostFrontendIsAnswered
