SPECIFICATION Spec
CONSTANTS
    s1 = s1
    s2 = s2
    c1 = c1
    c2 = c2
    w1 = w1
    w2 = w2
    Sessions = {s1, s2}
    Chunks = {c1}
    Parts <- OneAndEmpty
    Updates = {s1}
    Writers = {w1}
    None = None
    MaxSessions = 1
    MaxFaults = 1
    MaxCrashes = 1
INVARIANTS TypeOK OneOwner LimitKept DeliveredWhole
CHECK_DEADLOCK FALSE
