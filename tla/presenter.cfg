SPECIFICATION FairSpec
CONSTANTS
    left = left
    right = right
    Tabs = {left, right}
    NTasks = 3
    Others = {1, 2}
    Faults = TRUE
    MaxOpens = 2
INVARIANTS
    TypeOK
    PresentedOnce
    FewLeftBehind
PROPERTIES
    AnswerGoesOn
CHECK_DEADLOCK FALSE
