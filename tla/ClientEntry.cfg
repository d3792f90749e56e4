SPECIFICATION Spec
CONSTANTS
    r1 = r1
    r2 = r2
    r3 = r3
    k1 = k1
    k2 = k2
    Requests = {r1, r2, r3}
    NoRequest = NoRequest
    MaxQueued = 2
    MaxGeneration = 2
    MaxFrames = 2
    Kinds = {k1, k2}
    MaxRevision = 2
    MaxEpoch = 2
INVARIANTS
    EntrySafe
PROPERTIES
    EntryProgress
CHECK_DEADLOCK FALSE
