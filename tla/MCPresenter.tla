---------------------------- MODULE MCPresenter ----------------------------
(***************************************************************************)
(* Instances of Presenter for TLC: one or two tabs of the contributor.     *)
(***************************************************************************)
EXTENDS Presenter, TLC

CONSTANTS left, right

=============================================================================
