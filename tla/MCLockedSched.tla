--------------------------- MODULE MCLockedSched ---------------------------
(***************************************************************************)
(* Instances of LockedSched for TLC: three users on two workers, one       *)
(* answer asked for.  Where no liveness is checked, users and workers are  *)
(* interchangeable.                                                        *)
(***************************************************************************)
EXTENDS LockedSched, TLC

CONSTANTS alice, bob, carol, worker1, worker2

Interchangeable ==
    Permutations({alice, bob, carol}) \cup Permutations({worker1, worker2})

=============================================================================
