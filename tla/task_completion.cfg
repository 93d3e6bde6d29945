SPECIFICATION Spec
CONSTANTS
    alice = alice
    bob = bob
    alice1 = alice1
    alice2 = alice2
    bob1 = bob1
    Users = {alice, bob}
    Sessions = {alice1, alice2, bob1}
    UserOf <- MCUserOf
    Redundancies = {1, 2}
    MaxPosts = 3
    Admin = {"delete_run", "edit_task", "redundancy", "publish"}
SYMMETRY AliceSymmetry
INVARIANTS
    TypeOK
    UniqueLastVersion
    NewerResultKeepsAnswers
    AnswersBoundedByRequests
    EveryResultAnnounced
    HolderNeverWaits
PROPERTIES
    ResultsEvolve
CHECK_DEADLOCK FALSE
