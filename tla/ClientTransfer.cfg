SPECIFICATION Spec
CONSTANTS
    f1 = f1
    f2 = f2
    d1 = d1
    d2 = d2
    k1 = k1
    k2 = k2
    w1 = w1
    w2 = w2
    r1 = r1
    on = on
    off = off
    Files = {f1, f2}
    NoFile = NoFile
    SignatureOf <- JarAndSignature
    Protected = {f1}
    Directories = {d1, d2}
    Allows <- BothAllow
    Signed <- OneSigned
    Clicks = {k1, k2}
    MaxNavigations = 2
    MaxChecks = 1
    ChunkCount = 3
    TransferWorkers = {w1, w2}
    ChunkMaxRetries = 1
    ReviewFiles = {1, 2, 3}
    Downloaders = {w1, w2}
    MaxAttempts = 3
    Repositories = {r1}
    Settings = {on, off}
    Absent = Absent
    MaxRepositorySaves = 2
    MaxWaiting = 2
INVARIANTS
    TransferSafe
PROPERTIES
    TransferProgress
CHECK_DEADLOCK FALSE
