--------------------------- MODULE MCProjectLife ---------------------------
(***************************************************************************)
(* Instances of ProjectLife for TLC.                                       *)
(***************************************************************************)
EXTENDS ProjectLife, TLC

CONSTANT p1

\* A small project, one whose last task is more than half a percent of it, and
\* one whose last task is just half a percent.
InitialDef == {[tasks |-> n, done |-> n - 1]: n \in {1, 150, 200}}

=============================================================================
