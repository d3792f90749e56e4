SPECIFICATION ExclusionSpec
CONSTANTS
    p1 = p1
    p2 = p2
    p3 = p3
    p4 = p4
    f1 = f1
    f2 = f2
    Procs = {p1, p2, p3, p4}
    Kind <- GateFirstKinds
    PathOf <- GateFirstPaths
    Mailers = {m1, m2}
    Installations <- OneOrTwo
    MaxJobs = 2
    Absent = Absent
    MaxRestarts = 1
SYMMETRY Interchangeable
INVARIANTS
    TypeOK NoCircularWait MigrationAlone
    SubmittedOnce MailConsistent
