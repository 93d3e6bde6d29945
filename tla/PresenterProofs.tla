-------------------------- MODULE PresenterProofs --------------------------
(***************************************************************************)
(* Proofs about Presenter, for every set of tabs, every number of tasks    *)
(* and of pages opened, and whatever the others complete.                  *)
(***************************************************************************)
EXTENDS Presenter, FiniteSetTheorems, WellFoundedInduction, TLAPS

-----------------------------------------------------------------------------
(* The candidates in their order *)

LEMMA LeastNatural ==
    ASSUME NEW S \in SUBSET Nat, S # {}
    PROVE  \E m \in S: \A k \in S: m <= k
<1>. DEFINE R == OpToRel(<, Nat)
<1>1. IsWellFoundedOn(R, Nat)
  BY NatLessThanWellFounded
<1>. HIDE DEF R
<1>2. PICK m \in S: \A k \in S: ~ (<<k, m>> \in R)
  BY <1>1, WFMin
<1>3. \A k \in S: <<k, m>> \notin R => m <= k
  BY DEF R, OpToRel
<1> QED
  BY <1>2, <1>3

LEMMA CandidatesFinite ==
    /\ Candidates \in SUBSET Nat
    /\ Empty \notin Candidates
    /\ IsFiniteSet(Candidates)
    /\ \A t: IsFiniteSet(Before(t))
<1>1. IsFiniteSet(Tasks) /\ Tasks \subseteq Nat
  BY FS_Interval, ProjectAssumption DEF Tasks
<1>2. Candidates \subseteq Tasks
  BY DEF Candidates
<1>3. IsFiniteSet(Candidates)
  BY <1>1, <1>2, FS_Subset
<1>4. \A t: Before(t) \subseteq Candidates
  BY DEF Before
<1> QED
  BY <1>1, <1>2, <1>3, <1>4, FS_Subset DEF Tasks, Empty

LEMMA CandidateFound ==
    ASSUME NEW n
    PROVE  \/ /\ Candidate(n) = Empty
              /\ \A t \in Candidates: Cardinality(Before(t)) # n
           \/ /\ Candidate(n) \in Candidates
              /\ Cardinality(Before(Candidate(n))) = n
<1>. DEFINE found == {t \in Candidates: Cardinality(Before(t)) = n}
<1>1. CASE found = {}
  BY <1>1 DEF Candidate
<1>2. CASE found # {}
  <2>1. Candidate(n) \in found
    BY <1>2 DEF Candidate
  <2> QED
    BY <2>1
<1> QED
  BY <1>1, <1>2

LEMMA SmallSets ==
    /\ Cardinality({}) = 0
    /\ \A a: Cardinality({a}) = 1
    /\ \A a, b: a # b => Cardinality({a, b}) = 2
<1>1. Cardinality({}) = 0 /\ \A a: IsFiniteSet({a}) /\ Cardinality({a}) = 1
  BY FS_EmptySet, FS_Singleton
<1>2. ASSUME NEW a, NEW b, a # b
      PROVE  Cardinality({a, b}) = 2
  <2>1. Cardinality({a} \cup {b}) = IF b \in {a} THEN 1 ELSE 1 + 1
    BY <1>1, FS_AddElement
  <2>2. {a} \cup {b} = {a, b}
    OBVIOUS
  <2> QED
    BY <1>2, <2>1, <2>2
<1> QED
  BY <1>1, <1>2

LEMMA NoneBelow ==
    ASSUME NEW S \in SUBSET Nat, NEW a \in S, \A k \in S: a <= k
    PROVE  {u \in S: u < a} = {}
<1>1. ASSUME NEW u \in S
      PROVE  ~ (u < a)
  <2>1. u \in Nat /\ a \in Nat /\ a <= u
    OBVIOUS
  <2> QED
    BY <2>1
<1> QED
  BY <1>1

LEMMA OneBelow ==
    ASSUME NEW S \in SUBSET Nat, NEW a \in S, \A k \in S: a <= k,
           NEW b \in S, a # b, \A k \in S: k # a => b <= k
    PROVE  {u \in S: u < b} = {a}
<1>1. ASSUME NEW u \in S
      PROVE  u < b <=> u = a
  <2>1. u \in Nat /\ a \in Nat /\ b \in Nat /\ a <= b
    OBVIOUS
  <2>2. u # a => b <= u
    OBVIOUS
  <2> QED
    BY <2>1, <2>2
<1> QED
  BY <1>1

LEMMA TwoBelow ==
    ASSUME NEW S \in SUBSET Nat, NEW a \in S, \A k \in S: a <= k,
           NEW b \in S, a # b, \A k \in S: k # a => b <= k,
           NEW c \in S, a # c, b # c, \A k \in S: k # a /\ k # b => c <= k
    PROVE  {u \in S: u < c} = {a, b}
<1>1. ASSUME NEW u \in S
      PROVE  u < c <=> u = a \/ u = b
  <2>1. /\ u \in Nat /\ a \in Nat /\ b \in Nat /\ c \in Nat
        /\ a <= c /\ b <= c
    OBVIOUS
  <2>2. u # a /\ u # b => c <= u
    OBVIOUS
  <2> QED
    BY <2>1, <2>2
<1> QED
  BY <1>1

\* With more than two candidates there is one at each of the offsets used.
LEMMA CandidateAtOffset ==
    ASSUME ~ (Cardinality(Candidates) <= 2), NEW n \in 0..2
    PROVE  \E t \in Candidates: Cardinality(Before(t)) = n
<1>0. Candidates \in SUBSET Nat
  BY CandidatesFinite
<1>1. Candidates # {}
  BY SmallSets
<1>2. PICK a \in Candidates: \A k \in Candidates: a <= k
  BY <1>0, <1>1, LeastNatural
<1>3. Candidates \ {a} # {}
  <2>1. Cardinality({a}) = 1
    BY SmallSets
  <2>2. Candidates # {a}
    BY <2>1
  <2> QED
    BY <2>2
<1>4. PICK b \in Candidates \ {a}: \A k \in Candidates \ {a}: b <= k
  BY <1>0, <1>3, LeastNatural
<1>5. Cardinality({a, b}) = 2
  <2>1. a # b
    BY <1>4
  <2> QED
    BY <2>1, SmallSets
<1>6. PICK c \in Candidates \ {a, b}: \A k \in Candidates \ {a, b}: c <= k
  <2>1. Candidates # {a, b}
    BY <1>5
  <2>2. Candidates \ {a, b} # {} /\ Candidates \ {a, b} \subseteq Nat
    BY <1>0, <1>2, <1>4, <2>1
  <2> QED
    BY <2>2, LeastNatural
<1>7. Before(a) = {}
  BY <1>0, <1>2, NoneBelow DEF Before
<1>8. Before(b) = {a}
  BY <1>0, <1>2, <1>4, OneBelow DEF Before
<1>9. Before(c) = {a, b}
  BY <1>0, <1>2, <1>4, <1>6, TwoBelow DEF Before
<1>10. Cardinality(Before(a)) = 0 /\ Cardinality(Before(b)) = 1
  BY <1>7, <1>8, SmallSets
<1>11. Cardinality(Before(c)) = 2
  BY <1>5, <1>9
<1> QED
  BY <1>2, <1>4, <1>6, <1>10, <1>11

LEMMA NothingLeft ==
    ASSUME NEW n \in 0..2, Candidate(n) = Empty
    PROVE  Cardinality(Candidates) <= 2
  BY CandidateAtOffset, CandidateFound, CandidatesFinite

\* What was among the first two candidates stays there as the set shrinks.
LEMMA RankFalls ==
    ASSUME Candidates' \subseteq Candidates, NEW t
    PROVE  /\ IsFiniteSet(Before(t)')
           /\ Cardinality(Before(t)') <= Cardinality(Before(t))
           /\ Cardinality(Candidates') <= Cardinality(Candidates)
<1>1. Before(t)' \subseteq Before(t)
  BY DEF Before
<1> QED
  BY <1>1, CandidatesFinite, FS_Subset

-----------------------------------------------------------------------------
(* Types *)

LEMMA BecomeTab ==
    ASSUME NEW p \in Tabs, NEW q \in Tab, tab \in [Tabs -> Tab], Become(p, q)
    PROVE  /\ tab' \in [Tabs -> Tab]
           /\ tab'[p] = q
           /\ \A r \in Tabs \ {p}: tab'[r] = tab[r]
  BY DEF Become

LEMMA CandidateType == ASSUME NEW n PROVE Candidate(n) \in Tasks \cup {Empty}
<1>1. Candidates \subseteq Tasks
  BY DEF Candidates
<1> QED
  BY <1>1, CandidateFound

LEMMA ClosedType ==
    ASSUME NEW url \in Tasks \cup {Empty}
    PROVE  [Closed EXCEPT !.url = url, !.fetch = "first"] \in Tab
  BY DEF Closed, Tab, Empty, Undefined

\* The changes the actions make to a tab keep its type.
LEMMA ChangeTypes ==
    ASSUME NEW q \in Tab
    PROVE  /\ \A t \in Tasks \cup {Empty}:
                [q EXCEPT !.fetch = "loading", !.next = t] \in Tab
           /\ \A f \in {"second", "loaded", "lost"}:
                [q EXCEPT !.fetch = f] \in Tab
           /\ \A v \in {"no", "posting", "stored", "yes"}:
                [q EXCEPT !.solved = v] \in Tab
  BY DEF Tab

LEMMA LoopType ==
    ASSUME NEW q \in Tab
    PROVE  [q EXCEPT !.shown = q.next,
                     !.past = @ \cup ({q.shown} \ {Undefined}),
                     !.fetch = "first", !.solved = "no"] \in Tab
  BY DEF Tab

LEMMA StampType ==
    ASSUME NEW t \in Tasks \cup {Empty}, stamped \subseteq Tasks, Stamp(t)
    PROVE  stamped' \subseteq Tasks
  BY DEF Stamp

LEMMA RunType ==
    ASSUME TypeOK, NEW p \in Tabs, Run(p)
    PROVE  TypeOK'
<1>. USE DEF TypeOK
<1>. tab[p] \in Tab /\ tab[p].url \in Tasks \cup {Empty}
  BY DEF Tab
<1>1. CASE FetchTask(p)
  BY <1>1, BecomeTab, ChangeTypes DEF FetchTask, Load
<1>2. CASE FetchNewTask(p)
  <2>1. tab' \in [Tabs -> Tab]
    BY <1>2, BecomeTab, ChangeTypes, CandidateType DEF FetchNewTask, Load
  <2> QED
    BY <1>2, <2>1, StampType, CandidateType DEF FetchNewTask
<1>3. CASE FetchSecond(p)
  <2>1. tab' \in [Tabs -> Tab]
    BY <1>3, BecomeTab, ChangeTypes, CandidateType DEF FetchSecond, Load
  <2> QED
    BY <1>3, <2>1, StampType, CandidateType DEF FetchSecond
<1>4. CASE TaskLoaded(p)
  BY <1>4, BecomeTab, ChangeTypes DEF TaskLoaded
<1>5. CASE Loop(p)
  BY <1>5, BecomeTab, LoopType DEF Loop, Shown
<1> QED
  BY <1>1, <1>2, <1>3, <1>4, <1>5 DEF Run

LEMMA StepType ==
    ASSUME TypeOK, Next
    PROVE  TypeOK'
<1>. USE DEF TypeOK
<1>. \A p \in Tabs: tab[p] \in Tab
  OBVIOUS
<1>1. ASSUME NEW p \in Tabs, NEW url \in Tasks \cup {Empty}, Open(p, url)
      PROVE  TypeOK'
  <2>1. opens' \in 0..MaxOpens
    BY <1>1, ProjectAssumption DEF Open
  <2> QED
    BY <1>1, <2>1, ClosedType, StampType, BecomeTab DEF Open
<1>2. ASSUME NEW p \in Tabs, SaveTask(p)
      PROVE  TypeOK'
  BY <1>2, BecomeTab, ChangeTypes DEF SaveTask
<1>3. ASSUME NEW p \in Tabs, StoreAnswer(p)
      PROVE  TypeOK'
  <2>1. tab' \in [Tabs -> Tab]
    BY <1>3, BecomeTab, ChangeTypes DEF StoreAnswer
  <2>2. answered' \subseteq Tasks /\ stamped' \subseteq Tasks
    BY <1>3 DEF StoreAnswer, Refused
  <2> QED
    BY <1>3, <2>1, <2>2 DEF StoreAnswer
<1>4. ASSUME NEW p \in Tabs, Resolve(p) \/ LoseAnswer(p)
      PROVE  TypeOK'
  BY <1>4, BecomeTab, ChangeTypes DEF Resolve, LoseAnswer
<1>5. ASSUME NEW p \in Tabs, LoseFetch(p)
      PROVE  TypeOK'
  <2>1. tab' \in [Tabs -> Tab]
    BY <1>5, BecomeTab, ChangeTypes DEF LoseFetch
  <2>2. stamped' \subseteq Tasks
    BY <1>5, StampType, CandidateType DEF LoseFetch
  <2> QED
    BY <1>5, <2>1, <2>2 DEF LoseFetch
<1>6. ASSUME NEW t \in Tasks, OthersComplete(t) \/ StampExpires(t)
      PROVE  TypeOK'
  BY <1>6 DEF OthersComplete, StampExpires
<1> QED
  BY <1>1, <1>2, <1>3, <1>4, <1>5, <1>6, RunType DEF Next

LEMMA InitType == Init => TypeOK
  BY ProjectAssumption
  DEF Init, TypeOK, Closed, Tab, Empty, Undefined

\* Every variable of pybossa.js and of the server keeps its type.
THEOREM TypeCorrect == Spec => []TypeOK
<1>1. TypeOK /\ UNCHANGED vars => TypeOK'
  BY DEF TypeOK, vars
<1> QED
  BY <1>1, InitType, StepType, PTL DEF Spec

-----------------------------------------------------------------------------
(* The inductive invariant *)

\* What was presented before is answered, and so never a candidate again.
PastOK(p) ==
    /\ tab[p].past \subseteq answered
    /\ Shown(p) = Undefined => tab[p].past = {}
    /\ Shown(p) \notin tab[p].past

SolvedOK(p) ==
    /\ tab[p].solved # "no" => Shown(p) \in Tasks
    /\ tab[p].solved \in {"stored", "yes"} => Shown(p) \in answered

\* The second try is made while the task shown is one of the first two.
SecondOK(p) ==
    tab[p].fetch = "second" /\ Shown(p) \in Candidates =>
        Cardinality(Before(Shown(p))) <= 1

\* What the loop will present is new, or there was nothing at an offset.
NextOK(p) ==
    tab[p].fetch \in {"loading", "loaded"} =>
        /\ tab[p].next \notin tab[p].past
        /\ tab[p].next = Shown(p) => tab[p].next = Empty
        /\ tab[p].next = Empty => Cardinality(Candidates) <= 2

EmptyOK(p) == Shown(p) = Empty => Cardinality(Candidates) <= 2

TabOK(p) == PastOK(p) /\ SolvedOK(p) /\ SecondOK(p) /\ NextOK(p) /\ EmptyOK(p)

LoopOK == \A p \in Tabs: TabOK(p)

\* No step makes a task a candidate, and no answer is taken back.
LEMMA CandidatesShrink ==
    ASSUME TypeOK, Next
    PROVE  Candidates' \subseteq Candidates /\ answered \subseteq answered'
<1>1. completed \subseteq completed' /\ answered \subseteq answered'
  <2>1. ASSUME NEW p \in Tabs, Run(p)
        PROVE  completed \subseteq completed' /\ answered \subseteq answered'
    BY <2>1 DEF Run, FetchTask, FetchNewTask, FetchSecond, TaskLoaded, Loop
  <2>2. ASSUME NEW p \in Tabs, StoreAnswer(p)
        PROVE  completed \subseteq completed' /\ answered \subseteq answered'
    BY <2>2 DEF StoreAnswer
  <2>3. ASSUME NEW t \in Tasks, OthersComplete(t) \/ StampExpires(t)
        PROVE  completed \subseteq completed' /\ answered \subseteq answered'
    BY <2>3 DEF OthersComplete, StampExpires
  <2> QED
    BY <2>1, <2>2, <2>3
    DEF Next, Open, SaveTask, Resolve, LoseFetch, LoseAnswer
<1> QED
  BY <1>1 DEF Candidates

\* The natural numbers that bound the counts.
LEMMA Counts ==
    ASSUME NEW t
    PROVE  Cardinality(Candidates) \in Nat /\ Cardinality(Before(t)) \in Nat
  BY CandidatesFinite, FS_CardinalityType

LEMMA FewStayFew ==
    ASSUME Candidates' \subseteq Candidates
    PROVE  /\ Cardinality(Candidates) <= 2 => Cardinality(Candidates') <= 2
           /\ \A t: Cardinality(Before(t)) <= 1 => Cardinality(Before(t)') <= 1
<1>1. /\ Cardinality(Candidates) \in Nat
      /\ Cardinality(Candidates') \in Nat
      /\ Cardinality(Candidates') <= Cardinality(Candidates)
  <2>1. IsFiniteSet(Candidates')
    BY CandidatesFinite, FS_Subset
  <2> QED
    BY <2>1, Counts, RankFalls, FS_CardinalityType
<1>2. ASSUME NEW t, Cardinality(Before(t)) <= 1
      PROVE  Cardinality(Before(t)') <= 1
  <2>1. /\ Cardinality(Before(t)) \in Nat
        /\ Cardinality(Before(t)') \in Nat
        /\ Cardinality(Before(t)') <= Cardinality(Before(t))
    BY Counts, RankFalls, FS_CardinalityType
  <2> QED
    BY <1>2, <2>1
<1> QED
  BY <1>1, <1>2

\* A step that leaves the tab as it is keeps the invariant of the tab,
\* whatever it answers or completes.
LEMMA TabKept ==
    ASSUME NEW p \in Tabs, TabOK(p), tab'[p] = tab[p],
           Candidates' \subseteq Candidates, answered \subseteq answered'
    PROVE  TabOK(p)'
<1>1. Shown(p)' = Shown(p)
  BY DEF Shown
<1>2. PastOK(p)'
  BY <1>1 DEF TabOK, PastOK
<1>3. SolvedOK(p)'
  BY <1>1 DEF TabOK, SolvedOK
<1>4. SecondOK(p)'
  <2>1. ASSUME NEW t, t = Shown(p), tab[p].fetch = "second", t \in Candidates
        PROVE  Cardinality(Before(t)') <= 1
    <3>1. Cardinality(Before(t)) <= 1
      BY <2>1 DEF TabOK, SecondOK
    <3> QED
      BY <3>1, FewStayFew
  <2> QED
    BY <1>1, <2>1 DEF SecondOK, Before
<1>5. NextOK(p)' /\ EmptyOK(p)'
  BY <1>1, FewStayFew DEF TabOK, NextOK, EmptyOK
<1> QED
  BY <1>2, <1>3, <1>4, <1>5 DEF TabOK

\* A step of the tab that changes at most its fetch, its next task and its
\* solved state keeps what it has presented.
LEMMA PastKept ==
    ASSUME NEW p \in Tabs, TabOK(p), Shown(p)' = Shown(p),
           tab'[p].past = tab[p].past,
           Candidates' \subseteq Candidates, answered \subseteq answered'
    PROVE  PastOK(p)' /\ EmptyOK(p)'
<1>1. PastOK(p)'
  BY DEF TabOK, PastOK
<1>2. EmptyOK(p)'
  BY FewStayFew DEF TabOK, EmptyOK
<1> QED
  BY <1>1, <1>2

\* A candidate of the scheduler was not presented on the page before.
LEMMA CandidateIsNew ==
    ASSUME NEW p \in Tabs, PastOK(p), TypeOK, NEW n
    PROVE  Candidate(n) \notin tab[p].past
<1>1. Candidates \cap answered = {} /\ Empty \notin answered
  BY DEF Candidates, TypeOK, Tasks, Empty
<1> QED
  BY <1>1, CandidateFound DEF PastOK

LEMMA LoadedNext ==
    ASSUME TypeOK, NEW p \in Tabs, TabOK(p), NEW t \in Tasks \cup {Empty},
           t \notin tab[p].past, t = Shown(p) => t = Empty,
           t = Empty => Cardinality(Candidates) <= 2,
           Load(p, t), UNCHANGED <<completed, answered>>
    PROVE  TabOK(p)'
<1>1. /\ tab'[p] = [tab[p] EXCEPT !.fetch = "loading", !.next = t]
      /\ tab[p] \in Tab
  BY BecomeTab, ChangeTypes DEF Load, TypeOK
<1>2. /\ tab'[p].shown = tab[p].shown /\ tab'[p].past = tab[p].past
      /\ tab'[p].solved = tab[p].solved /\ tab'[p].fetch = "loading"
      /\ tab'[p].next = t
  BY <1>1 DEF Tab
<1>3. Candidates' = Candidates /\ Shown(p)' = Shown(p)
  BY <1>2 DEF Candidates, Shown
<1>4. PastOK(p)' /\ EmptyOK(p)'
  BY <1>2, <1>3, PastKept
<1>5. SolvedOK(p)'
  BY <1>2, <1>3 DEF TabOK, SolvedOK
<1>6. SecondOK(p)'
  BY <1>2 DEF SecondOK
<1>7. NextOK(p)'
  BY <1>2, <1>3 DEF NextOK
<1> QED
  BY <1>4, <1>5, <1>6, <1>7 DEF TabOK

LEMMA FetchTaskTab ==
    ASSUME TypeOK, NEW p \in Tabs, TabOK(p), FetchTask(p)
    PROVE  TabOK(p)'
<1>1. /\ tab[p].url \in Tasks \cup {Empty} /\ tab[p].url # Empty
      /\ tab[p].url # Shown(p) /\ tab[p].past = {}
  <2>1. Shown(p) = Undefined
    BY DEF FetchTask, AtTaskAddress
  <2>2. tab[p].url \in Tasks
    BY DEF FetchTask, AtTaskAddress, TypeOK, Tab
  <2> QED
    BY <2>1, <2>2 DEF TabOK, PastOK, Undefined, Empty, Tasks
<1> QED
  BY <1>1, LoadedNext DEF FetchTask

LEMMA FetchNewTaskTab ==
    ASSUME TypeOK, NEW p \in Tabs, TabOK(p), FetchNewTask(p)
    PROVE  TabOK(p)'
<1>. DEFINE n == FirstOffset(p)
            t == Candidate(n)
<1>0. n \in 0..2
  BY DEF FirstOffset
<1>. HIDE DEF n
<1>1. CASE SameAsPrevious(p, t)
  <2>1. /\ tab'[p] = [tab[p] EXCEPT !.fetch = "second"]
        /\ tab[p] \in Tab
    BY <1>1, BecomeTab, ChangeTypes DEF FetchNewTask, TypeOK, n
  <2>2. /\ tab'[p].shown = tab[p].shown /\ tab'[p].past = tab[p].past
        /\ tab'[p].solved = tab[p].solved /\ tab'[p].fetch = "second"
    BY <2>1 DEF Tab
  <2>3. Candidates' = Candidates /\ Shown(p)' = Shown(p) /\ answered' = answered
    BY <2>2 DEF Candidates, Shown, FetchNewTask
  <2>4. PastOK(p)' /\ EmptyOK(p)'
    BY <2>2, <2>3, PastKept
  <2>5. SolvedOK(p)'
    BY <2>2, <2>3 DEF TabOK, SolvedOK
  <2>6. Shown(p) \in Candidates => Cardinality(Before(Shown(p))) <= 1
    <3>1. t = Shown(p)
      BY <1>1 DEF SameAsPrevious
    <3>2. t \in Candidates => Cardinality(Before(t)) = n
      BY CandidateFound, CandidatesFinite
    <3>3. n <= 1
      BY DEF n, FirstOffset
    <3> QED
      BY <3>1, <3>2, <3>3
  <2>7. SecondOK(p)'
    BY <2>3, <2>6 DEF SecondOK, Before
  <2>8. NextOK(p)'
    BY <2>2 DEF NextOK
  <2> QED
    BY <2>4, <2>5, <2>7, <2>8 DEF TabOK
<1>2. CASE ~SameAsPrevious(p, t)
  <2>1. Load(p, t) /\ UNCHANGED <<completed, answered>>
    BY <1>2 DEF FetchNewTask, n
  <2>2. t # Shown(p) /\ t \in Tasks \cup {Empty}
    BY <1>2, CandidateType DEF SameAsPrevious
  <2>3. t \notin tab[p].past
    BY CandidateIsNew DEF TabOK
  <2>4. t = Empty => Cardinality(Candidates) <= 2
    BY <1>0, NothingLeft
  <2> QED
    BY <2>1, <2>2, <2>3, <2>4, LoadedNext
<1> QED
  BY <1>1, <1>2

\* The second offset passes over the task shown, candidate or not.
LEMMA FetchSecondTab ==
    ASSUME TypeOK, NEW p \in Tabs, TabOK(p), FetchSecond(p)
    PROVE  TabOK(p)'
<1>. DEFINE t == Candidate(SecondOffset)
<1>1. t = Shown(p) => t = Empty
  <2>1. SUFFICES ASSUME t = Shown(p), t # Empty
                 PROVE  FALSE
    OBVIOUS
  <2>2. t \in Candidates /\ Cardinality(Before(t)) = 2
    BY <2>1, CandidateFound DEF SecondOffset
  <2>3. Cardinality(Before(t)) <= 1
    BY <2>1, <2>2 DEF TabOK, SecondOK, FetchSecond
  <2> QED
    BY <2>2, <2>3
<1>2. t \notin tab[p].past
  BY CandidateIsNew DEF TabOK
<1>3. t = Empty => Cardinality(Candidates) <= 2
  BY NothingLeft DEF SecondOffset
<1>4. Load(p, t) /\ UNCHANGED <<completed, answered>> /\ t \in Tasks \cup {Empty}
  BY CandidateType DEF FetchSecond
<1>. HIDE DEF t
<1> QED
  BY <1>1, <1>2, <1>3, <1>4, LoadedNext

LEMMA LoopTab ==
    ASSUME TypeOK, NEW p \in Tabs, TabOK(p), Loop(p)
    PROVE  TabOK(p)'
<1>1. /\ tab'[p] = [tab[p] EXCEPT !.shown = tab[p].next,
                      !.past = @ \cup ({Shown(p)} \ {Undefined}),
                      !.fetch = "first", !.solved = "no"]
      /\ tab[p] \in Tab
  BY BecomeTab, LoopType DEF Loop, TypeOK, Shown
<1>2. /\ tab'[p].shown = tab[p].next /\ tab'[p].fetch = "first"
      /\ tab'[p].past = tab[p].past \cup ({Shown(p)} \ {Undefined})
      /\ tab'[p].solved = "no"
  BY <1>1 DEF Tab
<1>3. Candidates' = Candidates /\ Shown(p)' = tab[p].next /\ answered' = answered
  BY <1>2 DEF Candidates, Shown, Loop
<1>4. /\ tab[p].next \notin tab[p].past
      /\ tab[p].next = Shown(p) => tab[p].next = Empty
      /\ tab[p].next = Empty => Cardinality(Candidates) <= 2
  BY DEF TabOK, NextOK, Loop
<1>5. Shown(p) = Undefined \/ (Shown(p) \in answered /\ Shown(p) \in Tasks)
  BY DEF Loop, TabOK, SolvedOK
<1>6. tab[p].next # Undefined
  BY <1>1 DEF Tab, Undefined, Empty, Tasks
<1>7. PastOK(p)'
  <2>1. tab[p].next \notin tab'[p].past
    BY <1>2, <1>4, <1>5 DEF Tasks, Empty
  <2>2. tab'[p].past \subseteq answered
    BY <1>2, <1>5 DEF TabOK, PastOK
  <2> QED
    BY <1>3, <1>6, <2>1, <2>2 DEF PastOK
<1>8. SolvedOK(p)' /\ SecondOK(p)' /\ NextOK(p)'
  BY <1>2 DEF SolvedOK, SecondOK, NextOK
<1>9. EmptyOK(p)'
  BY <1>3, <1>4 DEF EmptyOK
<1> QED
  BY <1>7, <1>8, <1>9 DEF TabOK

\* The callbacks that only move fetch or solved on.
LEMMA ProgressTab ==
    ASSUME TypeOK, NEW p \in Tabs, TabOK(p),
           \/ TaskLoaded(p)
           \/ LoseFetch(p)
           \/ SaveTask(p)
           \/ StoreAnswer(p)
           \/ Resolve(p)
           \/ LoseAnswer(p)
    PROVE  TabOK(p)'
<1>. tab[p] \in Tab /\ tab \in [Tabs -> Tab]
  BY DEF TypeOK
<1>0. Candidates' \subseteq Candidates /\ answered \subseteq answered'
  BY CandidatesShrink DEF Next, Run
<1>1. CASE TaskLoaded(p) \/ LoseFetch(p)
  <2>1. /\ \/ tab'[p] = [tab[p] EXCEPT !.fetch = "loaded"]
           \/ tab'[p] = [tab[p] EXCEPT !.fetch = "lost"]
        /\ tab[p].fetch = "loading" \/ tab'[p].fetch = "lost"
    <3>1. CASE TaskLoaded(p)
      BY <3>1, BecomeTab, ChangeTypes DEF TaskLoaded
    <3>2. CASE LoseFetch(p)
      <4>1. tab'[p] = [tab[p] EXCEPT !.fetch = "lost"]
        BY <3>2, BecomeTab, ChangeTypes DEF LoseFetch
      <4> QED
        BY <4>1 DEF Tab
    <3> QED
      BY <1>1, <3>1, <3>2
  <2>2. /\ tab'[p].shown = tab[p].shown /\ tab'[p].past = tab[p].past
        /\ tab'[p].solved = tab[p].solved /\ tab'[p].next = tab[p].next
        /\ tab'[p].fetch \in {"loaded", "lost"}
    BY <2>1 DEF Tab
  <2>3. Shown(p)' = Shown(p)
    BY <2>2 DEF Shown
  <2>4. PastOK(p)' /\ EmptyOK(p)'
    BY <1>0, <2>2, <2>3, PastKept
  <2>5. SolvedOK(p)' /\ SecondOK(p)'
    BY <1>0, <2>2, <2>3 DEF TabOK, SolvedOK, SecondOK
  <2>6. NextOK(p)'
    BY <1>0, <2>1, <2>2, <2>3, FewStayFew DEF TabOK, NextOK
  <2> QED
    BY <2>4, <2>5, <2>6 DEF TabOK
<1>2. CASE SaveTask(p) \/ StoreAnswer(p) \/ Resolve(p) \/ LoseAnswer(p)
  <2>1. PICK v \in {"no", "posting", "stored", "yes"}:
            /\ tab'[p] = [tab[p] EXCEPT !.solved = v]
            /\ v # "no" => Shown(p) \in Tasks
            /\ v \in {"stored", "yes"} => Shown(p) \in answered'
    <3>1. CASE SaveTask(p)
      BY <3>1, BecomeTab, ChangeTypes DEF SaveTask
    <3>2. CASE StoreAnswer(p)
      <4>1. Shown(p) \in Tasks
        BY <3>2 DEF StoreAnswer, TabOK, SolvedOK
      <4>2. CASE Refused(p)
        BY <3>2, <4>2, BecomeTab, ChangeTypes DEF StoreAnswer
      <4>3. CASE ~Refused(p)
        BY <3>2, <4>1, <4>3, BecomeTab, ChangeTypes DEF StoreAnswer
      <4> QED
        BY <4>2, <4>3
    <3>3. CASE Resolve(p)
      BY <3>3, BecomeTab, ChangeTypes DEF Resolve, TabOK, SolvedOK
    <3>4. CASE LoseAnswer(p)
      BY <3>4, BecomeTab, ChangeTypes DEF LoseAnswer
    <3> QED
      BY <1>2, <3>1, <3>2, <3>3, <3>4
  <2>2. /\ tab'[p].shown = tab[p].shown /\ tab'[p].past = tab[p].past
        /\ tab'[p].solved = v /\ tab'[p].next = tab[p].next
        /\ tab'[p].fetch = tab[p].fetch
    BY <2>1 DEF Tab
  <2>3. Shown(p)' = Shown(p)
    BY <2>2 DEF Shown
  <2>4. PastOK(p)' /\ EmptyOK(p)'
    BY <1>0, <2>2, <2>3, PastKept
  <2>5. SolvedOK(p)'
    BY <2>1, <2>2, <2>3 DEF SolvedOK
  <2>6. SecondOK(p)'
    <3>1. ASSUME NEW t, t = Shown(p), tab[p].fetch = "second", t \in Candidates
          PROVE  Cardinality(Before(t)') <= 1
      <4>1. Cardinality(Before(t)) <= 1
        BY <3>1 DEF TabOK, SecondOK
      <4> QED
        BY <1>0, <4>1, FewStayFew
    <3> QED
      BY <1>0, <2>2, <2>3, <3>1 DEF SecondOK, Before
  <2>7. NextOK(p)'
    BY <1>0, <2>2, <2>3, FewStayFew DEF TabOK, NextOK
  <2> QED
    BY <2>4, <2>5, <2>6, <2>7 DEF TabOK
<1> QED
  BY <1>1, <1>2

LEMMA OpenTab ==
    ASSUME TypeOK, NEW p \in Tabs, NEW url \in Tasks \cup {Empty}, Open(p, url)
    PROVE  TabOK(p)'
<1>1. tab'[p] = [Closed EXCEPT !.url = url, !.fetch = "first"]
  BY ClosedType, BecomeTab DEF Open, TypeOK
<1>2. /\ tab'[p].shown = Undefined /\ tab'[p].past = {}
      /\ tab'[p].solved = "no" /\ tab'[p].fetch = "first"
  BY <1>1 DEF Closed
<1> QED
  BY <1>2 DEF TabOK, PastOK, SolvedOK, SecondOK, NextOK, EmptyOK, Shown,
              Undefined, Empty

LEMMA LoopStep ==
    ASSUME TypeOK, LoopOK, Next
    PROVE  LoopOK'
<1>0. Candidates' \subseteq Candidates /\ answered \subseteq answered'
  BY CandidatesShrink
<1>1. ASSUME NEW p \in Tabs, NEW s, Become(p, s), TabOK(p)'
      PROVE  LoopOK'
  <2>1. ASSUME NEW r \in Tabs, r # p
        PROVE  TabOK(r)'
    <3>1. tab'[r] = tab[r]
      BY <1>1, <2>1 DEF Become, TypeOK
    <3> QED
      BY <1>0, <3>1, TabKept DEF LoopOK
  <2> QED
    BY <1>1, <2>1 DEF LoopOK
<1>2. ASSUME NEW p \in Tabs, NEW url \in Tasks \cup {Empty}, Open(p, url)
      PROVE  LoopOK'
  BY <1>1, <1>2, OpenTab DEF Open
<1>3. ASSUME NEW p \in Tabs, Run(p)
      PROVE  LoopOK'
  <2>1. TabOK(p)
    BY DEF LoopOK
  <2>2. TabOK(p)'
    BY <1>3, <2>1, FetchTaskTab, FetchNewTaskTab, FetchSecondTab, ProgressTab,
       LoopTab DEF Run
  <2>3. \E s: Become(p, s)
    BY <1>3 DEF Run, FetchTask, FetchNewTask, FetchSecond, TaskLoaded, Loop, Load
  <2> QED
    BY <1>1, <2>2, <2>3
<1>4. ASSUME NEW p \in Tabs,
             \/ SaveTask(p)
             \/ StoreAnswer(p)
             \/ Resolve(p)
             \/ LoseFetch(p)
             \/ LoseAnswer(p)
      PROVE  LoopOK'
  <2>1. TabOK(p)'
    BY <1>4, ProgressTab DEF LoopOK
  <2>2. \E s: Become(p, s)
    BY <1>4 DEF SaveTask, StoreAnswer, Resolve, LoseFetch, LoseAnswer
  <2> QED
    BY <1>1, <2>1, <2>2
<1>5. ASSUME NEW t \in Tasks, OthersComplete(t) \/ StampExpires(t)
      PROVE  LoopOK'
  <2>1. tab' = tab
    BY <1>5 DEF OthersComplete, StampExpires
  <2> QED
    BY <1>0, <2>1, TabKept DEF LoopOK
<1> QED
  BY <1>2, <1>3, <1>4, <1>5 DEF Next

LEMMA LoopStutter == LoopOK /\ TypeOK /\ UNCHANGED vars => LoopOK'
  BY TabKept DEF vars, LoopOK, Candidates

LEMMA LoopInit == Init => LoopOK
  BY DEF Init, LoopOK, TabOK, PastOK, SolvedOK, SecondOK, NextOK, EmptyOK,
         Shown, Closed, Undefined, Empty

THEOREM LoopCorrect == Spec => []LoopOK
  BY TypeCorrect, LoopInit, LoopStep, LoopStutter, PTL DEF Spec

\* A page never presents a task it has presented before: the prefetch at a
\* fixed offset is compared with the task shown, and the second try passes
\* over it, because others only ever take candidates away.
THEOREM PresentedOnceAlways == Spec => []PresentedOnce
<1>1. LoopOK => PresentedOnce
  BY DEF LoopOK, TabOK, PastOK, PresentedOnce
<1> QED
  BY <1>1, LoopCorrect, PTL

\* The end of the tasks is announced with at most two candidates left.
THEOREM FewLeftBehindAlways == Spec => []FewLeftBehind
<1>1. LoopOK => FewLeftBehind
  BY DEF LoopOK, TabOK, EmptyOK, FewLeftBehind
<1> QED
  BY <1>1, LoopCorrect, PTL

=============================================================================
