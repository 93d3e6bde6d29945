SPECIFICATION Spec
CONSTANTS
    alice = alice
    bob = bob
    carol = carol
    worker1 = worker1
    worker2 = worker2
    Users = {alice, bob, carol}
    Sessions = {worker1, worker2}
    NAnswers = 1
    Timeout = 3
    Grace = 1
    Failures = TRUE
SYMMETRY Interchangeable
INVARIANTS
    TypeOK
    KeyOutlivesLocks
    LocksBounded
