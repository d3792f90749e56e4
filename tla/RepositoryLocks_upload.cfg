SPECIFICATION Spec
CONSTANTS
    p1 = p1
    p2 = p2
    p3 = p3
    p4 = p4
    p5 = p5
    f1 = f1
    f2 = f2
    Procs = {p1, p2, p3}
    Kind <- UploadKinds
    PathOf <- OneFile
INVARIANT NoCircularWait
CHECK_DEADLOCK FALSE
