SPECIFICATION Spec
CONSTANTS
    a1 = a1
    a2 = a2
    u1 = u1
    u2 = u2
    c1 = c1
    c2 = c2
    Artifacts = {a1, a2}
    Users = {u1}
    Contents = {c1}
    None = None
    Siblings <- JarAndPom
    RequireGPG = FALSE
    AllowRedeployment = TRUE
    MaxReleases = 2
    MaxPending = 2
    MaxPendingPerUser = 1
    MaxRequests = 4
    MaxFaults = 1
    MaxCrashes = 0
INVARIANT PendingBounded
PROPERTY SiblingsSpared
CHECK_DEADLOCK FALSE
