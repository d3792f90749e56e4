SPECIFICATION FairSpec
CONSTANTS
    s1 = s1
    s2 = s2
    c1 = c1
    c2 = c2
    w1 = w1
    w2 = w2
    Sessions = {s1}
    Chunks = {c1, c2}
    Parts <- OneOfTwo
    Updates = {}
    Writers = {w1, w2}
    None = None
    MaxSessions = 1
    MaxFaults = 1
    MaxCrashes = 1
INVARIANTS ClaimsHeld RetryPossible
PROPERTIES TempsVanish KeepsPromise
CHECK_DEADLOCK FALSE
