SPECIFICATION FairSpec
CONSTANTS
    r1 = r1
    r2 = r2
    w1 = w1
    Readers = {r1, r2}
    Writers = {w1}
    MaxTasks = 1
    MaxCommits = 1
    AppTimeout = 1
    OneDay = 2
INVARIANTS
    TypeOK
    UndisturbedRight
PROPERTIES
    NoStaleForever
CHECK_DEADLOCK FALSE
