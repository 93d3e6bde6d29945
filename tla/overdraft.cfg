SPECIFICATION Spec
CONSTANTS
    s1 = s1
    s2 = s2
    e1 = e1
    e2 = e2
    Sessions = {s1, s2}
    NRuns = 2
    Rate = 1
    Count = 1
    Exchanges = {e1, e2}
    Amounts = {1}
    MaxOperations = 4
SYMMETRY Interchangeable
INVARIANTS
    NeverOverdrawn
CHECK_DEADLOCK FALSE
