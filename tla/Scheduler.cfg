SPECIFICATION FairSpec
CONSTANTS
    t1 = t1
    w1 = w1
    w2 = w2
    Tasks = {t1}
    Workers = {w1, w2}
    NoTask = NoTask
    Interval <- MC_Interval
    Delay <- MC_Delay
    MaxNow = 3
INVARIANTS TypeOK NonReentrant DoneIsQuiescent
PROPERTIES CadenceKept NoBurst DueIsTaken CloseCompletes
CHECK_DEADLOCK FALSE
