SPECIFICATION FairSpec
CONSTANTS
    left = left
    right = right
    Tabs = {left}
    NTasks = 3
    Others = {}
    Faults = FALSE
    MaxOpens = 1
INVARIANTS
    FinishedMeansAll
CHECK_DEADLOCK FALSE
