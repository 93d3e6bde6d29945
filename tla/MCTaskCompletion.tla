-------------------------- MODULE MCTaskCompletion --------------------------
(***************************************************************************)
(* Instances of TaskCompletion for TLC: alice has two requests open at a   *)
(* time (two browser tabs), bob one.  Her two sessions are interchangeable.*)
(***************************************************************************)
EXTENDS TaskCompletion, TLC

CONSTANTS alice, bob, alice1, alice2, bob1

MCUserOf == [s \in Sessions |-> IF s = bob1 THEN bob ELSE alice]

AliceSymmetry == Permutations({alice1, alice2})

=============================================================================
