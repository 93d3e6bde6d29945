SPECIFICATION FairSpec
CONSTANTS
    alice = alice
    bob = bob
    alice1 = alice1
    alice2 = alice2
    bob1 = bob1
    Users = {alice, bob}
    Sessions = {alice1, alice2, bob1}
    UserOf <- MCUserOf
    Redundancies = {2}
    MaxPosts = 4
    Admin = {"edit_task"}
INVARIANTS
    CompletedWithResult
PROPERTIES
    RequestsEnd
CHECK_DEADLOCK FALSE
