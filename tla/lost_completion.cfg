SPECIFICATION Spec
CONSTANTS
    alice = alice
    bob = bob
    alice1 = alice1
    alice2 = alice2
    bob1 = bob1
    Users = {alice, bob}
    Sessions = {alice1, alice2, bob1}
    UserOf <- MCUserOf
    Redundancies = {2}
    MaxPosts = 3
    Admin = {}
INVARIANTS
    CompletedWhenAnswered
CHECK_DEADLOCK FALSE
