--------------------------- MODULE MCProjectCache ---------------------------
(***************************************************************************)
(* Instances of ProjectCache for TLC.                                      *)
(***************************************************************************)
EXTENDS ProjectCache, TLC

CONSTANTS r1, r2, w1

=============================================================================
