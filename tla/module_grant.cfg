CONSTANTS
    p1 = p1
    p2 = p2
    p3 = p3
    NoThread = NoThread
    Thread = {p1, p2, p3}
    MaxLifecycle = 2
    MaxSerial = 2
    MaxGrant = 2
    MaxGeneration = 3
SPECIFICATION Spec
SYMMETRY Threads
CHECK_DEADLOCK FALSE
INVARIANTS
    GrantIsHeldOrClosed
    OperationUsesItsGrant
    HandleNamesItsGrant
