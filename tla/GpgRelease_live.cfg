SPECIFICATION FairSpec
CONSTANTS
    a1 = a1
    a2 = a2
    u1 = u1
    u2 = u2
    c1 = c1
    c2 = c2
    Artifacts = {a1}
    Users = {u1}
    Contents = {c1, c2}
    None = None
    Siblings <- NoSiblings
    RequireGPG = TRUE
    AllowRedeployment = TRUE
    MaxReleases = 2
    MaxPending = 2
    MaxPendingPerUser = 2
    MaxRequests = 4
    MaxFaults = 0
    MaxCrashes = 1
CHECK_DEADLOCK FALSE
PROPERTIES ReleasesEnd OnlyVerifiedBytes
