CONSTANTS
    s1 = s1
    s2 = s2
    StoreIds = {s1, s2}
    Single = s1
    QueueCap = 2
    MaxInc = 4
    MaxOut = 2
SPECIFICATION MCSpec
CHECK_DEADLOCK FALSE
INVARIANTS  QueueSound
PROPERTIES ExitIsStored
