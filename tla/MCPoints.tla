----------------------------- MODULE MCPoints -----------------------------
(***************************************************************************)
(* Instances of Points for TLC: sessions are interchangeable, and so are   *)
(* the rows of exchange.                                                   *)
(***************************************************************************)
EXTENDS Points, TLC

CONSTANTS s1, s2, e1, e2

Interchangeable == Permutations({s1, s2}) \cup Permutations({e1, e2})

=============================================================================
