------------------------------ MODULE Ledger ------------------------------
(***************************************************************************)
(* What the points of a contributor promise: the balance together with     *)
(* what the administrator owes on requests for exchange is never more than *)
(* was earned. Each step changes the account of one thing only: points are *)
(* earned, taken for a request, given back for it, or written off with a   *)
(* request that failed after they were taken.                              *)
(*                                                                         *)
(* Nothing is promised once an update of the balance was overwritten.      *)
(***************************************************************************)
EXTENDS Integers, Functions

CONSTANTS
    Requests,   \* the requests for exchange
    Amounts,    \* what a request may be for
    Rate        \* what is earned at a time

VARIABLES
    balance,    \* the points that can be spent
    earned,     \* all the points that were ever earned
    claims,     \* what was taken for each request and not given back
    overwritten \* an update of the balance was lost

accounts == <<balance, earned, claims, overwritten>>

Start ==
    /\ balance = 0
    /\ earned = 0
    /\ claims = [e \in Requests |-> 0]
    /\ overwritten = FALSE

Earn ==
    /\ balance' = balance + Rate
    /\ earned' = earned + Rate
    /\ UNCHANGED <<claims, overwritten>>

\* Points are taken for a request before anything is owed on it, and once.
Take(e, a) ==
    /\ claims[e] = 0
    /\ balance' = balance - a
    /\ claims' = [claims EXCEPT ![e] = a]
    /\ UNCHANGED <<earned, overwritten>>

\* Nothing keeps the administrator from giving points back twice: the claim
\* is negative then.
GiveBack(e, a) ==
    /\ balance' = balance + a
    /\ claims' = [claims EXCEPT ![e] = @ - a]
    /\ UNCHANGED <<earned, overwritten>>

WriteOff(e) ==
    /\ claims[e] > 0
    /\ claims' = [claims EXCEPT ![e] = 0]
    /\ UNCHANGED <<balance, earned, overwritten>>

Overwrite == overwritten'

Move ==
    \/ Earn
    \/ \E e \in Requests, a \in Amounts: Take(e, a) \/ GiveBack(e, a)
    \/ \E e \in Requests: WriteOff(e)
    \/ Overwrite

Book == Start /\ [][Move]_accounts

\* The balance and what was taken and not given back are within what was
\* earned.
Balanced == overwritten \/ balance + SumFunction(claims) <= earned

=============================================================================
