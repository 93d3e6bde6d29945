--------------------------- MODULE LedgerProofs ---------------------------
(***************************************************************************)
(* A ledger is balanced: no entry changes the balance and the claims       *)
(* together by more than what was earned.                                  *)
(***************************************************************************)
EXTENDS Ledger, SumLemmas

Accounts ==
    /\ balance \in Int
    /\ earned \in Int
    /\ claims \in [Requests -> Int]

LInv == overwritten \/ (Accounts /\ balance + SumFunction(claims) <= earned)

\* A ledger starts with nothing.
LEMMA StartBalanced ==
    ASSUME IsFiniteSet(Requests), Start
    PROVE  LInv
<1>1. claims \in [Requests -> Nat] /\ \A e \in Requests: claims[e] = 0
  BY DEF Start
<1>2. SumFunction(claims) = 0
  BY <1>1, SumOfNats
<1>3. balance + SumFunction(claims) <= earned
  BY <1>2 DEF Start
<1> QED
  BY <1>3 DEF Start, LInv, Accounts

\* An entry moves as much from the balance to a claim as the other way, or
\* less.
LEMMA ClaimChanges ==
    ASSUME IsFiniteSet(Requests), Accounts, NEW e \in Requests, NEW c \in Int,
           claims' = [claims EXCEPT ![e] = c]
    PROVE  /\ claims' \in [Requests -> Int]
           /\ SumFunction(claims) \in Int
           /\ SumFunction(claims') = SumFunction(claims) - claims[e] + c
<1>1. claims \in [Requests -> Int]
  BY DEF Accounts
<1>. DEFINE new == claims'
<1>2. /\ new \in [Requests -> Int] /\ new[e] = c
      /\ \A x \in Requests: x # e => new[x] = claims[x]
  BY <1>1
<1>. HIDE DEF new
<1>3. SumFunction(new) = SumFunction(claims) - claims[e] + new[e]
  BY <1>1, <1>2, SumOfChanged
<1>4. SumFunction(claims) \in Int
  BY <1>1, SumOfInts
<1> QED
  BY <1>2, <1>3, <1>4 DEF new

\* Every entry of a balanced ledger leaves it balanced.
LEMMA MoveBalanced ==
    ASSUME IsFiniteSet(Requests), Rate \in Nat, Amounts \subseteq Nat,
           LInv, Move
    PROVE  LInv'
<1>1. CASE Overwrite
  BY <1>1 DEF Overwrite, LInv
<1>2. CASE overwritten /\ ~Overwrite
  BY <1>2 DEF Move, Earn, Take, GiveBack, WriteOff, LInv
<1>. SUFFICES ASSUME Accounts, balance + SumFunction(claims) <= earned,
                     ~Overwrite
              PROVE  Accounts' /\ balance' + SumFunction(claims') <= earned'
  BY <1>1, <1>2 DEF LInv
<1>. balance \in Int /\ earned \in Int /\ claims \in [Requests -> Int]
  BY DEF Accounts
<1>. SumFunction(claims) \in Int
  BY SumOfInts
<1>3. CASE Earn
  <2>1. claims' = claims
    BY <1>3 DEF Earn
  <2>2. SumFunction(claims') = SumFunction(claims)
    BY <2>1
  <2> QED
    BY <1>3, <2>1, <2>2 DEF Earn, Accounts
<1>4. ASSUME NEW e \in Requests, NEW a \in Amounts, Take(e, a)
      PROVE  Accounts' /\ balance' + SumFunction(claims') <= earned'
  <2>1. a \in Int
    OBVIOUS
  <2>2. /\ claims' \in [Requests -> Int]
        /\ SumFunction(claims') = SumFunction(claims) - claims[e] + a
    BY <1>4, <2>1, ClaimChanges DEF Take
  <2>3. claims[e] = 0 /\ balance' = balance - a /\ earned' = earned
    BY <1>4 DEF Take
  <2> QED
    BY <2>1, <2>2, <2>3 DEF Accounts
<1>5. ASSUME NEW e \in Requests, NEW a \in Amounts, GiveBack(e, a)
      PROVE  Accounts' /\ balance' + SumFunction(claims') <= earned'
  <2>1. a \in Int /\ claims[e] \in Int /\ claims[e] - a \in Int
    OBVIOUS
  <2>2. /\ claims' \in [Requests -> Int]
        /\ SumFunction(claims')
             = SumFunction(claims) - claims[e] + (claims[e] - a)
    BY <1>5, <2>1, ClaimChanges DEF GiveBack
  <2>3. balance' = balance + a /\ earned' = earned
    BY <1>5 DEF GiveBack
  <2> QED
    BY <2>1, <2>2, <2>3 DEF Accounts
<1>6. ASSUME NEW e \in Requests, WriteOff(e)
      PROVE  Accounts' /\ balance' + SumFunction(claims') <= earned'
  <2>1. claims[e] \in Int /\ claims[e] > 0
    BY <1>6 DEF WriteOff
  <2>2. /\ claims' \in [Requests -> Int]
        /\ SumFunction(claims') = SumFunction(claims) - claims[e] + 0
    <3>1. claims' = [claims EXCEPT ![e] = 0] /\ 0 \in Int
      BY <1>6 DEF WriteOff
    <3> QED
      BY <3>1, ClaimChanges
  <2>3. balance' = balance /\ earned' = earned
    BY <1>6 DEF WriteOff
  <2> QED
    BY <2>1, <2>2, <2>3 DEF Accounts
<1> QED
  BY <1>3, <1>4, <1>5, <1>6 DEF Move

\* However many requests there are, the balance of a ledger and what was taken
\* for requests and not given back are within what was earned.
THEOREM BalancedAlways ==
    ASSUME IsFiniteSet(Requests), Rate \in Nat, Amounts \subseteq Nat
    PROVE  Book => []Balanced
<1>1. LInv /\ UNCHANGED accounts => LInv'
  BY DEF LInv, Accounts, accounts
<1>2. LInv => Balanced
  BY DEF LInv, Balanced
<1>3. Start => LInv
  BY StartBalanced
<1>4. LInv /\ Move => LInv'
  BY MoveBalanced
<1> QED
  BY <1>1, <1>2, <1>3, <1>4, PTL DEF Book

=============================================================================
