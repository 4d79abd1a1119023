CONSTANTS
    p1 = p1
    p2 = p2
    p3 = p3
    NoThread = NoThread
    Thread = {p1, p2}
    MaxLifecycle = 1
    MaxSerial = 1
    MaxGrant = 1
    MaxGeneration = 3
SPECIFICATION Spec
CHECK_DEADLOCK FALSE
INVARIANTS
    FreedTableUntouched
