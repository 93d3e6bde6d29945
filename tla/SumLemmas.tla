----------------------------- MODULE SumLemmas -----------------------------
(***************************************************************************)
(* Sums over finite sets, as Functions defines them: what a sum is after   *)
(* one of its terms has changed.                                           *)
(*                                                                         *)
(* Where a proof goes by induction on a finite set, it takes a smallest    *)
(* set among those that do not have the property: the sets inclusion       *)
(* orders are well founded, and that fact is first-order.                  *)
(***************************************************************************)
EXTENDS Integers, FiniteSets, Functions, FiniteSetTheorems,
        WellFoundedInduction, TLAPS

Choice(s) == CHOOSE x \in s: TRUE

\* What SumFunctionOnSet computes for s, by g for the set with one term less.
Body(f, g, s) == IF s = {} THEN 0 ELSE f[Choice(s)] + g[s \ {Choice(s)}]

\* g is a solution of the recursive definition for the subsets of U.
Solves(f, U, g) == g = [s \in SUBSET U |-> Body(f, g, s)]

\* Among sets of subsets of a finite set there is one that contains no other.
LEMMA SmallestSet ==
    ASSUME NEW D, IsFiniteSet(D), NEW T \in SUBSET (SUBSET D), T # {}
    PROVE  \E U \in T: \A V \in T: V \subseteq U => V = U
<1>1. IsWellFoundedOn(StrictSubsetOrdering(D), SUBSET D)
  BY FS_StrictSubsetOrderingWellFounded, FS_FiniteSubsetsOfFinite
<1>2. PICK U \in T: \A V \in T: <<V, U>> \notin StrictSubsetOrdering(D)
  BY <1>1, WFMin, Zenon
<1> QED
  BY <1>2 DEF StrictSubsetOrdering

\* What the folds of Functions come to.
LEMMA SumUnfold ==
    ASSUME NEW f, NEW S
    PROVE  SumFunctionOnSet(f, S) = (CHOOSE g: Solves(f, S, g))[S]
  BY DEF SumFunctionOnSet, FoldFunctionOnSet, MapThenFoldSet, Body, Choice,
         Solves

\* Two solutions are the same where both are defined.
LEMMA SolutionsAgree ==
    ASSUME NEW f, NEW D, IsFiniteSet(D), NEW U \in SUBSET D, NEW V \in SUBSET D,
           NEW g, Solves(f, U, g), NEW h, Solves(f, V, h)
    PROVE  \A s \in SUBSET (U \cap V): g[s] = h[s]
<1>. DEFINE Bad == {s \in SUBSET (U \cap V): g[s] # h[s]}
<1>1. SUFFICES ASSUME Bad # {}
               PROVE  FALSE
  OBVIOUS
<1>2. PICK s \in Bad: \A t \in Bad: t \subseteq s => t = s
  <2>1. Bad \in SUBSET (SUBSET D)
    OBVIOUS
  <2>. HIDE DEF Bad
  <2> QED
    BY <1>1, <2>1, SmallestSet
<1>3. g[s] = Body(f, g, s) /\ h[s] = Body(f, h, s)
  BY <1>2 DEF Solves
<1>4. CASE s = {}
  BY <1>2, <1>3, <1>4 DEF Body
<1>5. CASE s # {}
  <2>1. Choice(s) \in s
    BY <1>5 DEF Choice
  <2>2. g[s \ {Choice(s)}] = h[s \ {Choice(s)}]
    BY <1>2, <2>1
  <2> QED
    BY <1>2, <1>3, <1>5, <2>2 DEF Body
<1> QED
  BY <1>4, <1>5

\* There is a solution for every finite set: a smallest one without would get
\* one from those of its subsets.
LEMMA SolutionExists ==
    ASSUME NEW f, NEW D, IsFiniteSet(D)
    PROVE  \E g: Solves(f, D, g)
<1>. DEFINE Bad == {U \in SUBSET D: ~ \E g: Solves(f, U, g)}
<1>1. SUFFICES ASSUME Bad # {}
               PROVE  FALSE
  OBVIOUS
<1>2. PICK U \in Bad: \A V \in Bad: V \subseteq U => V = U
  <2>1. Bad \in SUBSET (SUBSET D)
    OBVIOUS
  <2>. HIDE DEF Bad
  <2> QED
    BY <1>1, <2>1, SmallestSet
<1>. DEFINE G(s) == CHOOSE g: Solves(f, s, g)
            h == [s \in SUBSET U |->
                    IF s = {} THEN 0
                    ELSE f[Choice(s)] + G(s \ {Choice(s)})[s \ {Choice(s)}]]
<1>3. ASSUME NEW s \in SUBSET U, s # U
      PROVE  Solves(f, s, G(s))
  BY <1>2, <1>3
<1>. HIDE DEF G
<1>4. ASSUME NEW t \in SUBSET U, t # U
      PROVE  h[t] = G(t)[t]
  <2>1. G(t)[t] = Body(f, G(t), t)
    BY <1>3, <1>4 DEF Solves
  <2>2. CASE t = {}
    BY <2>1, <2>2 DEF Body
  <2>3. CASE t # {}
    <3>. DEFINE r == t \ {Choice(t)}
    <3>1. Choice(t) \in t
      BY <2>3 DEF Choice
    <3>2. r \in SUBSET U /\ r # U /\ r \in SUBSET (t \cap r)
      BY <3>1
    <3>3. Solves(f, t, G(t)) /\ Solves(f, r, G(r))
      BY <1>3, <1>4, <3>2
    <3>4. G(t)[r] = G(r)[r]
      <4>1. t \in SUBSET D /\ r \in SUBSET D
        BY <1>2, <1>4
      <4>. DEFINE gt == G(t)
                  gr == G(r)
      <4>2. Solves(f, t, gt) /\ Solves(f, r, gr)
        BY <3>3
      <4>3. r \in SUBSET (t \cap r)
        BY <3>2
      <4>. HIDE DEF r, Bad, gt, gr
      <4>4. \A s \in SUBSET (t \cap r): gt[s] = gr[s]
        BY <4>1, <4>2, SolutionsAgree
      <4>5. gt[r] = gr[r]
        BY <4>3, <4>4
      <4> QED
        BY <4>5 DEF gt, gr
    <3> QED
      BY <2>1, <2>3, <3>4 DEF Body
  <2> QED
    BY <2>2, <2>3
<1>5. ASSUME NEW s \in SUBSET U
      PROVE  h[s] = Body(f, h, s)
  <2>1. CASE s = {}
    BY <2>1 DEF Body
  <2>2. CASE s # {}
    <3>1. Choice(s) \in s
      BY <2>2 DEF Choice
    <3>2. h[s \ {Choice(s)}] = G(s \ {Choice(s)})[s \ {Choice(s)}]
      BY <1>4, <3>1
    <3> QED
      BY <2>2, <3>2 DEF Body
  <2> QED
    BY <2>1, <2>2
<1>6. h = [s \in SUBSET U |-> h[s]]
  OBVIOUS
<1>. HIDE DEF h
<1>7. h = [s \in SUBSET U |-> Body(f, h, s)]
  BY <1>5, <1>6
<1> QED
  BY <1>2, <1>7 DEF Solves

\* The equation of the recursive definition.
LEMMA SumEquation ==
    ASSUME NEW f, NEW S, IsFiniteSet(S)
    PROVE  SumFunctionOnSet(f, S) =
             IF S = {} THEN 0
             ELSE f[Choice(S)] + SumFunctionOnSet(f, S \ {Choice(S)})
<1>. DEFINE T == S \ {Choice(S)}
            g == CHOOSE x: Solves(f, S, x)
            h == CHOOSE x: Solves(f, T, x)
<1>1. Solves(f, S, g)
  BY SolutionExists
<1>2. Solves(f, T, h)
  <2>1. IsFiniteSet(T)
    BY FS_Subset
  <2>2. \E x: Solves(f, T, x)
    BY <2>1, SolutionExists
  <2> QED
    BY <2>2
<1>3. SumFunctionOnSet(f, S) = g[S] /\ SumFunctionOnSet(f, T) = h[T]
  BY SumUnfold
<1>. HIDE DEF g, h
<1>4. g[S] = Body(f, g, S)
  BY <1>1 DEF Solves
<1>5. g[T] = h[T]
  <2>1. S \in SUBSET S /\ T \in SUBSET S /\ T \in SUBSET (S \cap T)
    OBVIOUS
  <2>. HIDE DEF T
  <2>2. \A s \in SUBSET (S \cap T): g[s] = h[s]
    BY <1>1, <1>2, <2>1, SolutionsAgree
  <2> QED
    BY <2>1, <2>2
<1> QED
  BY <1>3, <1>4, <1>5 DEF Body

\* A sum of no terms is zero.
LEMMA SumEmpty == ASSUME NEW f PROVE SumFunctionOnSet(f, {}) = 0
  BY SumEquation, FS_EmptySet

\* A sum of integers is an integer.
LEMMA SumType ==
    ASSUME NEW D, IsFiniteSet(D), NEW f \in [D -> Int]
    PROVE  \A S \in SUBSET D: SumFunctionOnSet(f, S) \in Int
<1>. DEFINE Sum(S) == SumFunctionOnSet(f, S)
            Bad == {S \in SUBSET D: Sum(S) \notin Int}
<1>1. SUFFICES ASSUME Bad # {}
               PROVE  FALSE
  OBVIOUS
<1>2. PICK S \in Bad: \A T \in Bad: T \subseteq S => T = S
  <2>1. Bad \in SUBSET (SUBSET D)
    OBVIOUS
  <2>. HIDE DEF Bad
  <2> QED
    BY <1>1, <2>1, SmallestSet
<1>3. Sum(S) = IF S = {} THEN 0 ELSE f[Choice(S)] + Sum(S \ {Choice(S)})
  <2>1. IsFiniteSet(S)
    BY FS_Subset
  <2> QED
    BY <2>1, SumEquation
<1>. HIDE DEF Sum
<1>4. S # {}
  BY <1>2, <1>3
<1>5. Sum(S) = f[Choice(S)] + Sum(S \ {Choice(S)})
  BY <1>3, <1>4
<1>6. Choice(S) \in S
  BY <1>4 DEF Choice
<1>7. Sum(S \ {Choice(S)}) \in Int
  BY <1>2, <1>6
<1>8. f[Choice(S)] \in Int
  BY <1>6
<1> QED
  BY <1>2, <1>5, <1>7, <1>8

\* Any term may be taken out of a sum.
LEMMA SumRemove ==
    ASSUME NEW D, IsFiniteSet(D), NEW f \in [D -> Int]
    PROVE  \A S \in SUBSET D: \A e \in S:
             SumFunctionOnSet(f, S) = f[e] + SumFunctionOnSet(f, S \ {e})
<1>. DEFINE Sum(S) == SumFunctionOnSet(f, S)
            Right(S) == \A x \in S: Sum(S) = f[x] + Sum(S \ {x})
            Bad == {S \in SUBSET D: ~Right(S)}
<1>1. \A S \in SUBSET D: Sum(S) \in Int
  BY SumType
<1>2. \A S \in SUBSET D: S # {} =>
        Sum(S) = f[Choice(S)] + Sum(S \ {Choice(S)})
  <2>1. \A S \in SUBSET D: IsFiniteSet(S)
    BY FS_Subset
  <2> QED
    BY <2>1, SumEquation
<1>3. SUFFICES ASSUME Bad # {}
               PROVE  FALSE
  OBVIOUS
<1>. HIDE DEF Sum
<1>4. PICK S \in Bad: \A T \in Bad: T \subseteq S => T = S
  <2>1. Bad \in SUBSET (SUBSET D)
    OBVIOUS
  <2>. HIDE DEF Bad
  <2> QED
    BY <1>3, <2>1, SmallestSet
<1>5. PICK x \in S: Sum(S) # f[x] + Sum(S \ {x})
  BY <1>4
<1>. DEFINE c == Choice(S)
<1>6. c \in S
  BY <1>5 DEF Choice
<1>. HIDE DEF c
<1>7. Sum(S) = f[c] + Sum(S \ {c})
  BY <1>2, <1>5 DEF c
<1>8. x # c
  BY <1>5, <1>7
<1>9. Right(S \ {c}) /\ Right(S \ {x})
  BY <1>4, <1>5, <1>6
<1>10. Sum(S \ {c}) = f[x] + Sum((S \ {c}) \ {x})
  BY <1>5, <1>8, <1>9
<1>11. Sum(S \ {x}) = f[c] + Sum((S \ {x}) \ {c})
  BY <1>6, <1>8, <1>9
<1>12. (S \ {c}) \ {x} = (S \ {x}) \ {c}
  OBVIOUS
<1>. DEFINE rest == Sum((S \ {x}) \ {c})
<1>13. f[c] \in Int /\ f[x] \in Int /\ rest \in Int
  BY <1>1, <1>5, <1>6
<1>14. Sum(S) = f[c] + (f[x] + rest) /\ Sum(S \ {x}) = f[c] + rest
  BY <1>7, <1>10, <1>11, <1>12
<1>. HIDE DEF rest
<1> QED
  BY <1>5, <1>13, <1>14

\* The sum depends on the terms only.
LEMMA SumSame ==
    ASSUME NEW D, IsFiniteSet(D), NEW f, NEW g, \A x \in D: f[x] = g[x]
    PROVE  SumFunctionOnSet(f, D) = SumFunctionOnSet(g, D)
<1>. DEFINE Bad == {S \in SUBSET D:
                      SumFunctionOnSet(f, S) # SumFunctionOnSet(g, S)}
<1>1. SUFFICES ASSUME Bad # {}
               PROVE  FALSE
  OBVIOUS
<1>2. PICK S \in Bad: \A T \in Bad: T \subseteq S => T = S
  <2>1. Bad \in SUBSET (SUBSET D)
    OBVIOUS
  <2>. HIDE DEF Bad
  <2> QED
    BY <1>1, <2>1, SmallestSet
<1>3. IsFiniteSet(S)
  BY FS_Subset
<1>4. S # {}
  BY <1>2, SumEmpty
<1>5. Choice(S) \in S
  BY <1>4 DEF Choice
<1>6. SumFunctionOnSet(f, S \ {Choice(S)}) = SumFunctionOnSet(g, S \ {Choice(S)})
  BY <1>2, <1>5
<1>7. f[Choice(S)] = g[Choice(S)]
  BY <1>5
<1> QED
  BY <1>2, <1>3, <1>4, <1>6, <1>7, SumEquation

-----------------------------------------------------------------------------
(* Sums of functions *)

\* The sum of the values of a function into the integers is an integer.
LEMMA SumOfInts ==
    ASSUME NEW D, IsFiniteSet(D), NEW f \in [D -> Int]
    PROVE  SumFunction(f) \in Int
  BY SumType DEF SumFunction

\* A function of which one value changes changes its sum by as much.
LEMMA SumOfChanged ==
    ASSUME NEW D, IsFiniteSet(D), NEW f \in [D -> Int], NEW g \in [D -> Int],
           NEW e \in D, \A x \in D: x # e => g[x] = f[x]
    PROVE  SumFunction(g) = SumFunction(f) - f[e] + g[e]
<1>. DEFINE R == D \ {e}
<1>1. SumFunctionOnSet(f, R) = SumFunctionOnSet(g, R)
  <2>1. IsFiniteSet(R) /\ \A x \in R: f[x] = g[x]
    BY FS_Subset
  <2>. HIDE DEF R
  <2> QED
    BY <2>1, SumSame
<1>2. /\ SumFunctionOnSet(f, D) = f[e] + SumFunctionOnSet(f, R)
      /\ SumFunctionOnSet(g, D) = g[e] + SumFunctionOnSet(g, R)
  BY SumRemove
<1>3. SumFunctionOnSet(f, R) \in Int /\ f[e] \in Int /\ g[e] \in Int
  BY SumType
<1>4. SumFunction(f) = SumFunctionOnSet(f, D) /\ SumFunction(g) = SumFunctionOnSet(g, D)
  BY DEF SumFunction
<1> QED
  BY <1>1, <1>2, <1>3, <1>4

\* A sum of terms that are not negative is not negative, and one of zeros is
\* zero.
LEMMA SumOfNats ==
    ASSUME NEW D, IsFiniteSet(D), NEW f \in [D -> Nat]
    PROVE  /\ SumFunction(f) \in Nat
           /\ (\A x \in D: f[x] = 0) => SumFunction(f) = 0
<1>. DEFINE Sum(S) == SumFunctionOnSet(f, S)
            Right(S) == /\ Sum(S) \in Nat
                        /\ (\A x \in S: f[x] = 0) => Sum(S) = 0
            Bad == {S \in SUBSET D: ~Right(S)}
<1>1. SUFFICES ASSUME Bad # {}
               PROVE  FALSE
  <2>1. ASSUME Bad = {}
        PROVE  Right(D)
    BY <2>1
  <2> QED
    BY <2>1 DEF SumFunction
<1>2. PICK S \in Bad: \A T \in Bad: T \subseteq S => T = S
  <2>1. Bad \in SUBSET (SUBSET D)
    OBVIOUS
  <2>. HIDE DEF Bad
  <2> QED
    BY <1>1, <2>1, SmallestSet
<1>3. Sum(S) = IF S = {} THEN 0 ELSE f[Choice(S)] + Sum(S \ {Choice(S)})
  <2>1. IsFiniteSet(S)
    BY FS_Subset
  <2> QED
    BY <2>1, SumEquation
<1>. HIDE DEF Sum
<1>4. S # {}
  BY <1>2, <1>3
<1>5. Sum(S) = f[Choice(S)] + Sum(S \ {Choice(S)})
  BY <1>3, <1>4
<1>6. Choice(S) \in S
  BY <1>4 DEF Choice
<1>7. Right(S \ {Choice(S)})
  BY <1>2, <1>6
<1>8. f[Choice(S)] \in Nat
  BY <1>6
<1> QED
  BY <1>2, <1>5, <1>6, <1>7, <1>8

=============================================================================
