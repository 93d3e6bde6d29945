SPECIFICATION FairSpec
CONSTANTS
    alice = alice
    bob = bob
    carol = carol
    worker1 = worker1
    worker2 = worker2
    Users = {alice, bob}
    Sessions = {worker1, worker2}
    NAnswers = 1
    Timeout = 2
    Grace = 1
    Failures = TRUE
PROPERTIES
    ValidUntilExpired
