------------------------ MODULE TaskCompletionProofs ------------------------
(***************************************************************************)
(* Proofs about TaskCompletion, for every set of sessions and users, every *)
(* redundancy, every number of posts and every choice of administrative    *)
(* operations.                                                             *)
(*                                                                         *)
(* The safety properties speak of committed rows.  None is inductive: each *)
(* is strengthened with what the transactions in progress have read and    *)
(* will write.                                                             *)
(***************************************************************************)
EXTENDS TaskCompletion, FiniteSetTheorems, TLAPS

\* The types, with what the queries count being finite and what an edit
\* writes to n_answers being one of its values.
TypeInv ==
    /\ TypeOK
    /\ IsFiniteSet(runs)
    /\ \A s \in Sessions:
         /\ At(s, "edit") => tx[s].n \in Redundancies \cup {0}
         /\ At(s, "redundancy") => tx[s].n \in Redundancies

\* A transaction that updated the task row holds its lock until it ends, and
\* only such a transaction has a result to commit, which lists its own run.
RowHeld ==
    \A s \in Sessions:
        /\ Completes(s) => At(s, "ready") /\ tx[s].run \in tx[s].ids
        /\ At(s, "marked") \/ Completes(s) => rowLock = s

\* The result about to be committed demotes every current last version.
DemotesLast ==
    \A s \in Sessions:
        Completes(s) => \A r \in results: r.last => r.id \in tx[s].seen

VersionInv == RowHeld /\ DemotesLast /\ UniqueLastVersion

\* Ids come from their sequence: those given out are below its next value.
IdsBelow ==
    /\ \A r \in runs: r.id < nextRun
    /\ \A r \in results: r.id < nextResult /\ \A i \in r.ids: i < nextRun
    /\ \A s \in Sessions:
         /\ InTransaction(s) => tx[s].run < nextRun
         /\ Completes(s) => /\ tx[s].result < nextResult
                            /\ \A i \in tx[s].ids: i < nextRun

\* A run that is not committed is known to nobody but its transaction.
RunsPrivate ==
    \A s \in Sessions:
        InTransaction(s) =>
            /\ \A r \in runs: r.id # tx[s].run
            /\ \A r \in results: tx[s].run \notin r.ids
            /\ \A t \in Sessions \ {s}:
                 /\ InTransaction(t) => tx[t].run # tx[s].run
                 /\ Completes(t) => tx[s].run \notin tx[t].ids

\* The result about to be committed is newer than the stored ones and keeps
\* the answers they list.
NextKeepsAnswers ==
    \A s \in Sessions:
        Completes(s) =>
            \A r \in results:
                /\ r.id < tx[s].result
                /\ r.ids \cap RunIds \subseteq tx[s].ids

KeepsInv ==
    /\ IdsBelow
    /\ RunsPrivate
    /\ NextKeepsAnswers
    /\ NewerResultKeepsAnswers

\* Requests of u that are past the authorization and not finished.
Authorized(s) == At(s, "authorized") \/ InTransaction(s)

PastCheck(u) == {s \in SessionsOf(u): Authorized(s)}

\* A user's stored answers and the requests that may still add one.
QuotaInv ==
    \A u \in Users: Cardinality(RunsOf(u)) + Cardinality(PastCheck(u))
                        <= Cardinality(SessionsOf(u))

\* A result is announced before it is committed.
AnnouncedInv ==
    /\ EveryResultAnnounced
    /\ \A s \in Sessions: Completes(s) => tx[s].result \in webhooks

-----------------------------------------------------------------------------
(* Type correctness *)

LEMMA IdleType == Idle \in Request
  BY DEF Idle, Request

LEMMA InitType == Init => TypeInv
<1> SUFFICES ASSUME Init
             PROVE  TypeInv
  OBVIOUS
<1>1. TypeOK
  <2>1. task \in [state: {"ongoing", "completed"}, n: Redundancies]
    BY DEF Init
  <2>2. tx \in [Sessions -> Request]
    BY IdleType DEF Init
  <2>3. runs \subseteq Run /\ results \subseteq Result /\ webhooks \subseteq Nat
    BY DEF Init
  <2>4. nextRun \in Nat \ {0} /\ nextResult \in Nat \ {0}
    BY DEF Init
  <2>5. published \in BOOLEAN /\ rowLock \in Sessions \cup {NoSession}
    BY DEF Init
  <2> QED
    BY <2>1, <2>2, <2>3, <2>4, <2>5 DEF TypeOK
<1>2. IsFiniteSet(runs)
  BY FS_EmptySet DEF Init
<1>3. ASSUME NEW s \in Sessions
      PROVE  ~At(s, "edit") /\ ~At(s, "redundancy")
  BY <1>3 DEF Init, At, Idle
<1> QED
  BY <1>1, <1>2, <1>3 DEF TypeInv

LEMMA BecomeType ==
    ASSUME NEW s, NEW q \in Request, tx \in [Sessions -> Request], Become(s, q)
    PROVE  tx' \in [Sessions -> Request]
  BY DEF Become

LEMMA GotoType ==
    ASSUME NEW s \in Sessions, tx \in [Sessions -> Request],
           NEW pc \in {"authorized", "complete", "marked", "ready",
                       "publish", "clear_runs", "clear_results"},
           Goto(s, pc)
    PROVE  /\ tx' \in [Sessions -> Request]
           /\ \A t \in Sessions:
                tx'[t].pc \in {"edit", "redundancy"} =>
                    t # s /\ tx'[t] = tx[t]
<1>1. [tx[s] EXCEPT !.pc = pc] \in Request
  BY DEF Request
<1>2. tx' \in [Sessions -> Request]
  BY <1>1, BecomeType DEF Goto
<1> QED
  BY <1>2 DEF Goto, Become, Request

LEMMA FinishType ==
    ASSUME NEW s \in Sessions, tx \in [Sessions -> Request], Finish(s)
    PROVE  /\ tx' \in [Sessions -> Request]
           /\ \A t \in Sessions:
                tx'[t].pc \in {"edit", "redundancy"} =>
                    t # s /\ tx'[t] = tx[t]
  BY IdleType DEF Finish, Become, Idle

LEMMA CountedType ==
    ASSUME NEW q \in Request, NEW i \in Nat, NEW n \in Nat
    PROVE  [q EXCEPT !.pc = "counted", !.run = i, !.n = n] \in Request
  BY DEF Request

LEMMA ReadyType ==
    ASSUME NEW q \in Request, NEW i \in SUBSET Nat, NEW d \in SUBSET Nat,
           NEW n \in Nat
    PROVE  [q EXCEPT !.pc = "ready", !.ids = i, !.seen = d, !.result = n]
             \in Request
  BY DEF Request

\* The request of an edit.
LEMMA EditType ==
    ASSUME NEW q \in Request, NEW m \in Redundancies, NEW n \in Redundancies,
           NEW completed \in BOOLEAN
    PROVE  LET edit == [q EXCEPT !.pc = "edit",
                                 !.n = IF n = m THEN 0 ELSE n,
                                 !.reopen = completed /\ m <= n]
           IN  edit \in Request /\ edit.n \in Redundancies \cup {0}
<1>. DEFINE written == IF n = m THEN 0 ELSE n
            reopen == completed /\ m <= n
<1>1. written \in Nat /\ written \in Redundancies \cup {0}
  BY BoundsAssumption
<1>2. reopen \in BOOLEAN
  OBVIOUS
<1>. HIDE DEF written, reopen
<1>3. LET edit == [q EXCEPT !.pc = "edit", !.n = written, !.reopen = reopen]
      IN  edit \in Request /\ edit.n \in Redundancies \cup {0}
  BY <1>1, <1>2 DEF Request
<1> QED
  BY <1>3 DEF written, reopen

LEMMA NextType == TypeInv /\ [Next]_vars => TypeInv'
<1> SUFFICES ASSUME TypeInv, [Next]_vars
             PROVE  TypeInv'
  OBVIOUS
<1> USE DEF TypeInv, TypeOK
<1>a. Cardinality(runs) \in Nat
  BY FS_CardinalityType
<1>b. ASSUME NEW S \in SUBSET runs
      PROVE  IsFiniteSet(S)
  BY <1>b, FS_Subset
<1>1. ASSUME NEW s \in Sessions, Post(s)
      PROVE  TypeInv'
  <2>1. CASE Authorize(s)
    BY <2>1, GotoType DEF Authorize, At
  <2>2. CASE Insert(s)
    <3> DEFINE q == [tx[s] EXCEPT !.pc = "counted",
                                  !.run = nextRun,
                                  !.n = Cardinality(runs) + 1]
    <3>1. q \in Request /\ q.pc = "counted"
      <4>1. /\ tx[s] \in Request
            /\ nextRun \in Nat
            /\ Cardinality(runs) + 1 \in Nat
        BY <1>a
      <4>2. q.pc = "counted"
        BY DEF Request
      <4> QED
        BY <4>1, <4>2, CountedType
    <3>2. Become(s, q)
      BY <2>2 DEF Insert
    <3> HIDE DEF q
    <3>3. tx' \in [Sessions -> Request]
      BY <3>1, <3>2, BecomeType
    <3> QED
      BY <2>2, <3>1, <3>2, <3>3 DEF Insert, Become, At
  <2>3. CASE Count(s)
    BY <2>3, GotoType DEF Count, At
  <2>4. CASE MarkCompleted(s)
    BY <2>4, GotoType DEF MarkCompleted, At
  <2>5. CASE CreateResult(s)
    <3> DEFINE q == [tx[s] EXCEPT !.pc = "ready",
                                  !.ids = VisibleRuns(s),
                                  !.seen = ResultIds,
                                  !.result = nextResult]
    <3>1. ResultIds \in SUBSET Nat
      BY DEF ResultIds, Result
    <3>2. RunIds \in SUBSET Nat /\ tx[s].run \in Nat
      BY DEF RunIds, Run, Request
    <3>3. VisibleRuns(s) \in SUBSET Nat
      BY <3>2 DEF VisibleRuns
    <3>4. q \in Request /\ q.pc = "ready"
      <4>1. q.pc = "ready"
        BY DEF Request
      <4>2. tx[s] \in Request /\ nextResult \in Nat
        OBVIOUS
      <4> QED
        BY <3>1, <3>3, <4>1, <4>2, ReadyType
    <3>5. Become(s, q)
      BY <2>5 DEF CreateResult
    <3> HIDE DEF q
    <3>6. tx' \in [Sessions -> Request]
      BY <3>4, <3>5, BecomeType
    <3> QED
      BY <2>5, <3>4, <3>5, <3>6 DEF CreateResult, PushWebhook, Become, At
  <2>6. CASE Commit(s)
    <3> DEFINE run == [id |-> tx[s].run, user |-> UserOf[s]]
    <3>1. run \in Run
      BY SessionsAssumption DEF Run, Request
    <3>2. runs' = runs \cup {run}
      BY <2>6 DEF Commit
    <3> HIDE DEF run
    <3>3. runs' \subseteq Run /\ IsFiniteSet(runs')
      BY <3>1, <3>2, FS_AddElement
    <3>4. results' \subseteq Result
      <4>1. ASSUME NEW r \in results
            PROVE  [r EXCEPT !.last = @ /\ r.id \notin tx[s].seen] \in Result
        BY DEF Result
      <4>2. [id |-> tx[s].result, ids |-> tx[s].ids, last |-> TRUE] \in Result
        BY DEF Result, Request
      <4>3. CommittedResults(s) \subseteq Result
        BY <4>1, <4>2 DEF CommittedResults
      <4> QED
        BY <2>6, <4>3 DEF Commit
    <3>5. task' \in [state: {"ongoing", "completed"}, n: Redundancies]
      BY <2>6 DEF Commit
    <3>6. rowLock' \in Sessions \cup {NoSession}
      BY <2>6 DEF Commit, Unlock
    <3>7. Finish(s)
      BY <2>6 DEF Commit
    <3> QED
      BY <2>6, <3>3, <3>4, <3>5, <3>6, <3>7, FinishType DEF Commit, At
  <2>7. CASE Rollback(s)
    BY <2>7, FinishType DEF Rollback, Unlock, At
  <2> QED
    BY <1>1, <2>1, <2>2, <2>3, <2>4, <2>5, <2>6, <2>7 DEF Post
<1>2. ASSUME NEW s \in Sessions, Administer(s)
      PROVE  TypeInv'
  <2>1. CASE AuthorizeDelete(s)
    <3>1. PICK run \in runs:
            Become(s, [tx[s] EXCEPT !.pc = "delete", !.run = run.id])
      BY <2>1 DEF AuthorizeDelete
    <3> DEFINE q == [tx[s] EXCEPT !.pc = "delete", !.run = run.id]
    <3>2. q \in Request /\ q.pc = "delete"
      BY DEF Run, Request
    <3>3. Become(s, q)
      BY <3>1
    <3> HIDE DEF q
    <3>4. tx' \in [Sessions -> Request]
      BY <3>2, <3>3, BecomeType
    <3> QED
      BY <2>1, <3>2, <3>3, <3>4 DEF AuthorizeDelete, Become, At
  <2>2. CASE DeleteRun(s)
    <3>1. runs' \in SUBSET runs /\ IsFiniteSet(runs')
      BY <1>b, <2>2 DEF DeleteRun
    <3> QED
      BY <2>2, <3>1, FinishType DEF DeleteRun, At
  <2>3. CASE LoadTask(s)
    <3>1. PICK n \in Redundancies:
            Become(s, [tx[s] EXCEPT !.pc = "edit",
                                    !.n = IF n = task.n THEN 0 ELSE n,
                                    !.reopen = /\ task.state = "completed"
                                               /\ task.n <= n])
      BY <2>3 DEF LoadTask
    <3> DEFINE q == [tx[s] EXCEPT !.pc = "edit",
                                  !.n = IF n = task.n THEN 0 ELSE n,
                                  !.reopen = /\ task.state = "completed"
                                             /\ task.n <= n]
    <3>2. q \in Request /\ q.n \in Redundancies \cup {0}
      BY EditType
    <3>3. Become(s, q)
      BY <3>1
    <3> HIDE DEF q
    <3>4. tx' \in [Sessions -> Request]
      BY <3>2, <3>3, BecomeType
    <3> QED
      BY <2>3, <3>2, <3>3, <3>4 DEF LoadTask, Become, At
  <2>4. CASE EditTask(s)
    <3>1. WrittenRedundancy(s) \in Redundancies
      BY <2>4 DEF EditTask, WrittenRedundancy, At
    <3>2. task' \in [state: {"ongoing", "completed"}, n: Redundancies]
      BY <2>4, <3>1 DEF EditTask
    <3> QED
      BY <2>4, <3>2, FinishType DEF EditTask, At
  <2>5. CASE ReadUnpublished(s)
    BY <2>5, GotoType DEF ReadUnpublished, At
  <2>6. CASE SavePublished(s)
    BY <2>6, GotoType DEF SavePublished, At
  <2>7. CASE ClearRuns(s)
    BY <2>7, GotoType, FS_EmptySet DEF ClearRuns, At
  <2>8. CASE ClearResults(s)
    BY <2>8, FinishType DEF ClearResults, At
  <2>9. CASE UpdateRedundancy(s)
    <3>1. PICK n \in Redundancies:
            Become(s, [tx[s] EXCEPT !.pc = "redundancy",
                                    !.n = n,
                                    !.reopen = Cardinality(runs) < n])
      BY <2>9 DEF UpdateRedundancy
    <3> DEFINE few == Cardinality(runs) < n
               q == [tx[s] EXCEPT !.pc = "redundancy", !.n = n, !.reopen = few]
    <3>2. n \in Nat /\ few \in BOOLEAN
      BY <1>a, BoundsAssumption
    <3>3. Become(s, q)
      BY <3>1
    <3> HIDE DEF few
    <3>4. q \in Request /\ q.pc = "redundancy" /\ q.n = n
      BY <3>2 DEF Request
    <3> HIDE DEF q
    <3>5. tx' \in [Sessions -> Request]
      BY <3>3, <3>4, BecomeType
    <3> QED
      BY <2>9, <3>3, <3>4, <3>5 DEF UpdateRedundancy, Become, At
  <2>10. CASE CommitRedundancy(s)
    <3>1. task' \in [state: {"ongoing", "completed"}, n: Redundancies]
      BY <2>10 DEF CommitRedundancy, At
    <3> QED
      BY <2>10, <3>1, FinishType DEF CommitRedundancy, Unlock, At
  <2> QED
    BY <1>2, <2>1, <2>2, <2>3, <2>4, <2>5, <2>6, <2>7, <2>8, <2>9, <2>10
       DEF Administer
<1>3. CASE UNCHANGED vars
  BY <1>3 DEF vars, At
<1> QED
  BY <1>1, <1>2, <1>3 DEF Next

\* Every column and every request record keeps its type, whatever requests
\* overlap and whichever of them fail.
THEOREM TypeCorrect == Spec => []TypeOK
<1>1. TypeInv => TypeOK
  BY DEF TypeInv
<1> QED
  BY <1>1, InitType, NextType, PTL DEF Spec

-----------------------------------------------------------------------------
(* What a step does to the requests *)

LEMMA BecomeView ==
    ASSUME NEW s \in Sessions, NEW q, tx \in [Sessions -> Request],
           Become(s, q)
    PROVE  /\ tx'[s] = q
           /\ \A t \in Sessions \ {s}: tx'[t] = tx[t]
  BY DEF Become

LEMMA GotoView ==
    ASSUME NEW s \in Sessions, NEW pc, tx \in [Sessions -> Request],
           Goto(s, pc)
    PROVE  /\ tx'[s] = [tx[s] EXCEPT !.pc = pc]
           /\ tx'[s].pc = pc
           /\ tx'[s].run = tx[s].run
           /\ tx'[s].ids = tx[s].ids
           /\ tx'[s].result = tx[s].result
           /\ \A t \in Sessions \ {s}: tx'[t] = tx[t]
  BY DEF Goto, Become, Request

LEMMA FinishView ==
    ASSUME NEW s \in Sessions, tx \in [Sessions -> Request], Finish(s)
    PROVE  /\ tx'[s].pc = "idle" /\ tx'[s].result = 0
           /\ \A t \in Sessions \ {s}: tx'[t] = tx[t]
  BY DEF Finish, Become, Idle

Moves(s, from, to) ==
    /\ tx[s].pc = from
    /\ tx'[s].pc = to
    /\ \A t \in Sessions \ {s}: tx'[t] = tx[t]

SameResult(s) == tx'[s].result = tx[s].result /\ tx'[s].ids = tx[s].ids

LEMMA PostView ==
    ASSUME TypeInv, NEW s \in Sessions
    PROVE  /\ Authorize(s) => Moves(s, "idle", "authorized") /\ SameResult(s)
           /\ Insert(s) => /\ Moves(s, "authorized", "counted")
                           /\ SameResult(s)
                           /\ tx'[s].run = nextRun
           /\ Count(s) => \E pc \in {"complete", "ready"}:
                            /\ Moves(s, "counted", pc)
                            /\ SameResult(s)
                            /\ tx'[s].run = tx[s].run
           /\ MarkCompleted(s) => /\ Moves(s, "complete", "marked")
                                  /\ SameResult(s)
                                  /\ tx'[s].run = tx[s].run
           /\ CreateResult(s) => /\ Moves(s, "marked", "ready")
                                 /\ tx'[s].run = tx[s].run
                                 /\ tx'[s].ids = VisibleRuns(s)
                                 /\ tx'[s].seen = ResultIds
                                 /\ tx'[s].result = nextResult
           /\ Commit(s) => Moves(s, "ready", "idle") /\ tx'[s].result = 0
           /\ Rollback(s) => /\ InTransaction(s)
                             /\ Moves(s, tx[s].pc, "idle")
                             /\ tx'[s].result = 0
<1>a. tx \in [Sessions -> Request] /\ tx[s] \in Request
  BY DEF TypeInv, TypeOK
<1>1. ASSUME Authorize(s)
      PROVE  Moves(s, "idle", "authorized") /\ SameResult(s)
  BY <1>a, <1>1, GotoView DEF Authorize, Moves, SameResult, At
<1>2. ASSUME Insert(s)
      PROVE  /\ Moves(s, "authorized", "counted")
             /\ SameResult(s)
             /\ tx'[s].run = nextRun
  <2> DEFINE q == [tx[s] EXCEPT !.pc = "counted",
                                !.run = nextRun,
                                !.n = Cardinality(runs) + 1]
  <2>1. /\ q.pc = "counted"
        /\ q.result = tx[s].result
        /\ q.ids = tx[s].ids
        /\ q.run = nextRun
    BY <1>a DEF Request
  <2>2. Become(s, q)
    BY <1>2 DEF Insert
  <2> HIDE DEF q
  <2> QED
    BY <1>a, <1>2, <2>1, <2>2, BecomeView DEF Insert, Moves, SameResult, At
<1>3. ASSUME Count(s)
      PROVE  \E pc \in {"complete", "ready"}: /\ Moves(s, "counted", pc)
                                              /\ SameResult(s)
                                              /\ tx'[s].run = tx[s].run
  <2>1. PICK pc \in {"complete", "ready"}: Goto(s, pc)
    BY <1>3 DEF Count
  <2> QED
    BY <1>a, <1>3, <2>1, GotoView DEF Count, Moves, SameResult, At
<1>4. ASSUME MarkCompleted(s)
      PROVE  /\ Moves(s, "complete", "marked")
             /\ SameResult(s)
             /\ tx'[s].run = tx[s].run
  BY <1>a, <1>4, GotoView DEF MarkCompleted, Moves, SameResult, At
<1>5. ASSUME CreateResult(s)
      PROVE  /\ Moves(s, "marked", "ready")
             /\ tx'[s].run = tx[s].run
             /\ tx'[s].ids = VisibleRuns(s)
             /\ tx'[s].seen = ResultIds
             /\ tx'[s].result = nextResult
  <2> DEFINE q == [tx[s] EXCEPT !.pc = "ready",
                                !.ids = VisibleRuns(s),
                                !.seen = ResultIds,
                                !.result = nextResult]
  <2>1. /\ q.pc = "ready"
        /\ q.run = tx[s].run
        /\ q.ids = VisibleRuns(s)
        /\ q.seen = ResultIds
        /\ q.result = nextResult
    BY <1>a DEF Request
  <2>2. Become(s, q)
    BY <1>5 DEF CreateResult
  <2> HIDE DEF q
  <2> QED
    BY <1>a, <1>5, <2>1, <2>2, BecomeView DEF CreateResult, Moves, At
<1>6. ASSUME Commit(s)
      PROVE  Moves(s, "ready", "idle") /\ tx'[s].result = 0
  BY <1>a, <1>6, FinishView DEF Commit, Moves, At
<1>7. ASSUME Rollback(s)
      PROVE  /\ InTransaction(s)
             /\ Moves(s, tx[s].pc, "idle")
             /\ tx'[s].result = 0
  BY <1>a, <1>7, FinishView DEF Rollback, Moves
<1> QED
  BY <1>1, <1>2, <1>3, <1>4, <1>5, <1>6, <1>7

\* An administrative request never is in the transaction of a submission.
LEMMA AdministerView ==
    ASSUME TypeInv, NEW s \in Sessions, Administer(s)
    PROVE  /\ ~InTransaction(s) /\ ~InTransaction(s)' /\ ~Authorized(s)'
           /\ tx'[s].result \in {0, tx[s].result}
           /\ \A t \in Sessions \ {s}: tx'[t] = tx[t]
           /\ runs' \subseteq runs
           /\ results' \subseteq results
           /\ UNCHANGED <<webhooks, nextRun, nextResult>>
           /\ \A t \in Sessions \ {s}: rowLock = t => rowLock' = t
           /\ tx'[s].pc # "marked"
<1>a. tx \in [Sessions -> Request] /\ tx[s] \in Request
  BY DEF TypeInv, TypeOK
<1> USE DEF InTransaction, Authorized, At
<1>1. CASE AuthorizeDelete(s)
  <2>1. PICK run \in runs:
          Become(s, [tx[s] EXCEPT !.pc = "delete", !.run = run.id])
    BY <1>1 DEF AuthorizeDelete
  <2> DEFINE q == [tx[s] EXCEPT !.pc = "delete", !.run = run.id]
  <2>2. q.pc = "delete" /\ q.result = tx[s].result
    BY <1>a DEF Request
  <2>3. Become(s, q)
    BY <2>1
  <2> HIDE DEF q
  <2> QED
    BY <1>a, <1>1, <2>2, <2>3, BecomeView DEF AuthorizeDelete
<1>2. CASE DeleteRun(s)
  BY <1>a, <1>2, FinishView DEF DeleteRun
<1>3. CASE LoadTask(s)
  <2>1. PICK n \in Redundancies:
          Become(s, [tx[s] EXCEPT !.pc = "edit",
                                  !.n = IF n = task.n THEN 0 ELSE n,
                                  !.reopen = /\ task.state = "completed"
                                             /\ task.n <= n])
    BY <1>3 DEF LoadTask
  <2> DEFINE q == [tx[s] EXCEPT !.pc = "edit",
                                !.n = IF n = task.n THEN 0 ELSE n,
                                !.reopen = /\ task.state = "completed"
                                           /\ task.n <= n]
  <2>2. q.pc = "edit" /\ q.result = tx[s].result
    BY <1>a DEF Request
  <2>3. Become(s, q)
    BY <2>1
  <2> HIDE DEF q
  <2> QED
    BY <1>a, <1>3, <2>2, <2>3, BecomeView DEF LoadTask
<1>4. CASE EditTask(s)
  BY <1>a, <1>4, FinishView DEF EditTask
<1>5. CASE ReadUnpublished(s)
  BY <1>a, <1>5, GotoView DEF ReadUnpublished
<1>6. CASE SavePublished(s)
  BY <1>a, <1>6, GotoView DEF SavePublished
<1>7. CASE ClearRuns(s)
  BY <1>a, <1>7, GotoView DEF ClearRuns
<1>8. CASE ClearResults(s)
  BY <1>a, <1>8, FinishView DEF ClearResults
<1>9. CASE UpdateRedundancy(s)
  <2>1. PICK n \in Redundancies:
          Become(s, [tx[s] EXCEPT !.pc = "redundancy",
                                  !.n = n,
                                  !.reopen = Cardinality(runs) < n])
    BY <1>9 DEF UpdateRedundancy
  <2> DEFINE q == [tx[s] EXCEPT !.pc = "redundancy",
                                !.n = n,
                                !.reopen = Cardinality(runs) < n]
  <2>2. q.pc = "redundancy" /\ q.result = tx[s].result
    BY <1>a DEF Request
  <2>3. Become(s, q)
    BY <2>1
  <2> HIDE DEF q
  <2> QED
    BY <1>a, <1>9, <2>2, <2>3, BecomeView, SessionsAssumption
       DEF UpdateRedundancy, TaskRowFree
<1>10. CASE CommitRedundancy(s)
  BY <1>a, <1>10, FinishView DEF CommitRedundancy, Unlock
<1> QED
  BY <1>1, <1>2, <1>3, <1>4, <1>5, <1>6, <1>7, <1>8, <1>9, <1>10
     DEF Administer

-----------------------------------------------------------------------------
(* One last version *)

\* No result is added, and a session that has marked the task or has a
\* result did before and keeps the row lock.
Uninvolved ==
    /\ results' \subseteq results
    /\ \A t \in Sessions:
         tx'[t].pc = "marked" \/ tx'[t].result # 0 =>
             tx'[t] = tx[t] /\ (rowLock = t => rowLock' = t)

LEMMA UninvolvedVersion ==
    ASSUME VersionInv, Uninvolved
    PROVE  VersionInv'
<1>1. RowHeld'
  BY DEF VersionInv, RowHeld, Uninvolved, Completes, At
<1>2. DemotesLast'
  BY DEF VersionInv, DemotesLast, Uninvolved, Completes
<1>3. UniqueLastVersion'
  BY DEF VersionInv, UniqueLastVersion, Uninvolved
<1> QED
  BY <1>1, <1>2, <1>3 DEF VersionInv

LEMMA InitVersion == Init => VersionInv
  BY DEF Init, VersionInv, RowHeld, DemotesLast, UniqueLastVersion,
         Completes, At, Idle

LEMMA NextVersion == TypeInv /\ VersionInv /\ [Next]_vars => VersionInv'
<1> SUFFICES ASSUME TypeInv, VersionInv, [Next]_vars
             PROVE  VersionInv'
  OBVIOUS
<1>a. RowHeld
  BY DEF VersionInv
<1>b. ASSUME NEW s \in Sessions, tx[s].pc # "ready"
      PROVE  tx[s].result = 0
  BY <1>a, <1>b DEF RowHeld, Completes, At
<1>1. ASSUME NEW s \in Sessions, Post(s)
      PROVE  VersionInv'
  <2>1. CASE Authorize(s) \/ Insert(s) \/ Count(s)
    <3>1. UNCHANGED <<results, rowLock>>
      BY <2>1 DEF Authorize, Insert, Count
    <3>2. /\ tx[s].pc # "ready" /\ tx'[s].pc # "marked"
          /\ SameResult(s)
          /\ \A t \in Sessions \ {s}: tx'[t] = tx[t]
      BY <2>1, PostView DEF Moves
    <3>3. tx'[s].result = 0
      BY <1>b, <3>2 DEF SameResult
    <3> QED
      BY <3>1, <3>2, <3>3, UninvolvedVersion DEF Uninvolved
  <2>2. CASE MarkCompleted(s)
    <3>1. tx[s].result = 0 /\ rowLock = NoSession /\ rowLock' = s
      BY <1>b, <2>2 DEF MarkCompleted, TaskRowFree, At
    <3>2. \A t \in Sessions: tx[t].pc # "marked" /\ tx[t].result = 0
      BY <1>a, <3>1, SessionsAssumption DEF RowHeld, Completes, At
    <3>3. /\ \A t \in Sessions: tx'[t].result = 0
          /\ \A t \in Sessions \ {s}: tx'[t].pc # "marked"
      BY <2>2, <3>2, PostView DEF Moves, SameResult
    <3>4. RowHeld' /\ DemotesLast'
      BY <3>1, <3>3 DEF RowHeld, DemotesLast, Completes, At
    <3> QED
      BY <2>2, <3>4 DEF MarkCompleted, VersionInv, UniqueLastVersion
  <2>3. CASE CreateResult(s)
    <3>1. rowLock = s
      BY <1>a, <2>3 DEF CreateResult, RowHeld, At
    <3>2. \A t \in Sessions \ {s}: tx[t].pc # "marked" /\ tx[t].result = 0
      BY <1>a, <3>1 DEF RowHeld, Completes, At
    <3>3. /\ tx'[s].pc = "ready" /\ tx'[s].seen = ResultIds
          /\ tx'[s].run \in tx'[s].ids
          /\ \A t \in Sessions \ {s}: tx'[t] = tx[t]
      BY <2>3, PostView DEF Moves, VisibleRuns
    <3>4. RowHeld'
      BY <2>3, <3>1, <3>2, <3>3 DEF CreateResult, RowHeld, Completes, At
    <3>5. DemotesLast'
      BY <2>3, <3>2, <3>3 DEF CreateResult, DemotesLast, Completes, ResultIds
    <3> QED
      BY <2>3, <3>4, <3>5 DEF CreateResult, VersionInv, UniqueLastVersion
  <2>4. CASE Commit(s)
    <3>1. /\ tx'[s].pc = "idle" /\ tx'[s].result = 0
          /\ \A t \in Sessions \ {s}: tx'[t] = tx[t]
      BY <2>4, PostView DEF Moves
    <3>2. RowHeld'
      BY <1>a, <2>4, <3>1 DEF Commit, Unlock, RowHeld, Completes, At
    <3>3. CASE ~Completes(s)
      <4>1. results' = results
        BY <2>4, <3>3 DEF Commit
      <4> QED
        BY <3>1, <3>2, <4>1
           DEF VersionInv, DemotesLast, UniqueLastVersion, Completes
    <3>4. CASE Completes(s)
      <4>1. rowLock = s
        BY <1>a, <3>4 DEF RowHeld
      <4>2. \A t \in Sessions \ {s}: tx[t].result = 0
        BY <1>a, <4>1 DEF RowHeld, Completes
      <4>3. DemotesLast'
        BY <3>1, <4>2 DEF DemotesLast, Completes
      <4> DEFINE new == [id |-> tx[s].result, ids |-> tx[s].ids, last |-> TRUE]
      <4>4. ASSUME NEW r \in results', r.last
            PROVE  r = new
        <5>1. ASSUME NEW o \in results
              PROVE  ~[o EXCEPT !.last = @ /\ o.id \notin tx[s].seen].last
          <6>1. o.last => o.id \in tx[s].seen
            BY <3>4 DEF VersionInv, DemotesLast
          <6>2. o \in Result
            BY DEF TypeInv, TypeOK
          <6> QED
            BY <6>1, <6>2 DEF Result
        <5>2. results' = CommittedResults(s)
          BY <2>4, <3>4 DEF Commit
        <5> QED
          BY <4>4, <5>1, <5>2 DEF CommittedResults
      <4>5. UniqueLastVersion'
        BY <4>4 DEF UniqueLastVersion
      <4> QED
        BY <3>2, <4>3, <4>5 DEF VersionInv
    <3> QED
      BY <3>3, <3>4
  <2>5. CASE Rollback(s)
    <3>1. /\ tx'[s].pc = "idle" /\ tx'[s].result = 0
          /\ \A t \in Sessions \ {s}: tx'[t] = tx[t]
      BY <2>5, PostView DEF Moves
    <3>2. RowHeld' /\ DemotesLast'
      BY <2>5, <3>1
         DEF Rollback, Unlock, VersionInv, RowHeld, DemotesLast, Completes, At
    <3> QED
      BY <2>5, <3>2 DEF Rollback, VersionInv, UniqueLastVersion
  <2> QED
    BY <1>1, <2>1, <2>2, <2>3, <2>4, <2>5 DEF Post
<1>2. ASSUME NEW s \in Sessions, Administer(s)
      PROVE  VersionInv'
  <2>1. tx[s].result = 0
    BY <1>2, <1>b, AdministerView DEF InTransaction
  <2>2. tx'[s].result = 0 /\ tx'[s].pc # "marked"
    BY <1>2, <2>1, AdministerView DEF InTransaction
  <2>3. Uninvolved
    BY <1>2, <2>2, AdministerView DEF Uninvolved
  <2> QED
    BY <2>3, UninvolvedVersion
<1>3. CASE UNCHANGED vars
  BY <1>3, UninvolvedVersion DEF vars, Uninvolved
<1> QED
  BY <1>1, <1>2, <1>3 DEF Next

\* However the submissions that complete the task overlap, and whatever an
\* administrator does meanwhile, it has at most one last version of its
\* result: on_taskrun_submit updates the task row before create_result reads
\* the results it demotes.
THEOREM OneLastVersion == Spec => []UniqueLastVersion
<1>1. TypeInv /\ VersionInv => UniqueLastVersion
  BY DEF VersionInv
<1> QED
  BY <1>1, InitType, NextType, InitVersion, NextVersion, PTL DEF Spec

-----------------------------------------------------------------------------
(* Announced results *)

LEMMA InitAnnounced == Init => AnnouncedInv
  BY DEF Init, AnnouncedInv, EveryResultAnnounced, ResultIds, Completes, Idle

LEMMA NextAnnounced == TypeInv /\ AnnouncedInv /\ [Next]_vars => AnnouncedInv'
<1> SUFFICES ASSUME TypeInv, AnnouncedInv, [Next]_vars
             PROVE  AnnouncedInv'
  OBVIOUS
<1> USE DEF AnnouncedInv, EveryResultAnnounced, ResultIds, Completes
<1>1. ASSUME NEW s \in Sessions, Post(s)
      PROVE  AnnouncedInv'
  <2>1. CASE Authorize(s) \/ Insert(s) \/ Count(s) \/ MarkCompleted(s)
    <3>1. UNCHANGED <<results, webhooks>>
      BY <2>1 DEF Authorize, Insert, Count, MarkCompleted
    <3>2. SameResult(s) /\ \A t \in Sessions \ {s}: tx'[t] = tx[t]
      BY <2>1, PostView DEF Moves
    <3> QED
      BY <3>1, <3>2 DEF SameResult
  <2>2. CASE CreateResult(s)
    BY <2>2, PostView DEF CreateResult, PushWebhook, Moves
  <2>3. CASE Commit(s)
    <3>1. /\ tx'[s].result = 0
          /\ \A t \in Sessions \ {s}: tx'[t] = tx[t]
          /\ webhooks' = webhooks
      BY <2>3, PostView DEF Commit, Moves
    <3>2. CASE tx[s].result = 0
      BY <2>3, <3>1, <3>2 DEF Commit
    <3>3. CASE tx[s].result # 0
      <4>1. results' = CommittedResults(s)
        BY <2>3, <3>3 DEF Commit
      <4>2. ASSUME NEW r \in results
            PROVE  [r EXCEPT !.last = @ /\ r.id \notin tx[s].seen].id = r.id
        BY DEF TypeInv, TypeOK, Result
      <4> DEFINE demoted(r) == [r EXCEPT !.last = @ /\ r.id \notin tx[s].seen]
                 new == [id |-> tx[s].result, ids |-> tx[s].ids, last |-> TRUE]
      <4>3. results' = {demoted(r): r \in results} \cup {new}
        BY <4>1 DEF CommittedResults
      <4>4. new.id \in webhooks
        BY <3>3
      <4>5. \A r \in results: demoted(r).id \in webhooks
        BY <4>2
      <4> HIDE DEF demoted, new
      <4>6. \A r \in results': r.id \in webhooks
        BY <4>3, <4>4, <4>5
      <4> QED
        BY <3>1, <4>6
    <3> QED
      BY <3>2, <3>3
  <2>4. CASE Rollback(s)
    BY <2>4, PostView DEF Rollback, Moves
  <2> QED
    BY <1>1, <2>1, <2>2, <2>3, <2>4 DEF Post
<1>2. ASSUME NEW s \in Sessions, Administer(s)
      PROVE  AnnouncedInv'
  BY <1>2, AdministerView
<1>3. CASE UNCHANGED vars
  BY <1>3 DEF vars
<1> QED
  BY <1>1, <1>2, <1>3 DEF Next

\* Whatever fails around the commit, a stored result had its task_completed
\* webhook queued before: push_webhook runs inside the transaction.
THEOREM ResultsAnnounced == Spec => []EveryResultAnnounced
<1>1. AnnouncedInv => EveryResultAnnounced
  BY DEF AnnouncedInv
<1> QED
  BY <1>1, InitType, NextType, InitAnnounced, NextAnnounced, PTL DEF Spec

-----------------------------------------------------------------------------
(* Answers of a user *)

LEMMA CountsTyped ==
    ASSUME IsFiniteSet(runs), NEW u
    PROVE  /\ IsFiniteSet(RunsOf(u)) /\ Cardinality(RunsOf(u)) \in Nat
           /\ IsFiniteSet(PastCheck(u)) /\ Cardinality(PastCheck(u)) \in Nat
           /\ Cardinality(SessionsOf(u)) \in Nat
           /\ Cardinality(PastCheck(u)) <= Cardinality(SessionsOf(u))
<1>1. IsFiniteSet(RunsOf(u))
  BY FS_Subset DEF RunsOf
<1>2. IsFiniteSet(SessionsOf(u))
  BY FS_Subset, SessionsAssumption DEF SessionsOf
<1>3. /\ IsFiniteSet(PastCheck(u))
      /\ Cardinality(PastCheck(u)) <= Cardinality(SessionsOf(u))
  BY <1>2, FS_Subset DEF PastCheck
<1> QED
  BY <1>1, <1>2, <1>3, FS_CardinalityType

\* A step that stores no run and lets no request past the check.
LEMMA NoMoreAnswers ==
    ASSUME IsFiniteSet(runs), QuotaInv, runs' \subseteq runs,
           \A s \in Sessions: Authorized(s)' => Authorized(s)
    PROVE  QuotaInv'
<1> SUFFICES ASSUME NEW u \in Users
             PROVE  Cardinality(RunsOf(u)') + Cardinality(PastCheck(u)')
                      <= Cardinality(SessionsOf(u))
  BY DEF QuotaInv, SessionsOf
<1>1. Cardinality(RunsOf(u)) + Cardinality(PastCheck(u))
        <= Cardinality(SessionsOf(u))
  BY DEF QuotaInv
<1>2. /\ Cardinality(RunsOf(u)') \in Nat
      /\ Cardinality(RunsOf(u)') <= Cardinality(RunsOf(u))
  <2>1. RunsOf(u)' \subseteq RunsOf(u)
    BY DEF RunsOf
  <2> QED
    BY <2>1, CountsTyped, FS_Subset, FS_CardinalityType
<1>3. /\ Cardinality(PastCheck(u)') \in Nat
      /\ Cardinality(PastCheck(u)') <= Cardinality(PastCheck(u))
  <2>1. PastCheck(u)' \subseteq PastCheck(u)
    BY DEF PastCheck, SessionsOf
  <2> QED
    BY <2>1, CountsTyped, FS_Subset, FS_CardinalityType
<1> QED
  BY <1>1, <1>2, <1>3, CountsTyped

LEMMA InitQuota == Init => QuotaInv
<1> SUFFICES ASSUME Init, NEW u \in Users
             PROVE  Cardinality(RunsOf(u)) + Cardinality(PastCheck(u))
                      <= Cardinality(SessionsOf(u))
  BY DEF QuotaInv
<1>1. RunsOf(u) = {} /\ IsFiniteSet(runs)
  BY FS_EmptySet DEF Init, RunsOf
<1> QED
  BY <1>1, CountsTyped, FS_EmptySet

LEMMA NextQuota == TypeInv /\ QuotaInv /\ [Next]_vars => QuotaInv'
<1> SUFFICES ASSUME TypeInv, QuotaInv, [Next]_vars
             PROVE  QuotaInv'
  OBVIOUS
<1>a. IsFiniteSet(runs) /\ IsFiniteSet(runs')
  BY NextType DEF TypeInv
<1>1. ASSUME NEW s \in Sessions, Post(s)
      PROVE  QuotaInv'
  <2>1. CASE Authorize(s)
    <3>1. ASSUME NEW u \in Users
          PROVE  Cardinality(RunsOf(u)') + Cardinality(PastCheck(u)')
                   <= Cardinality(SessionsOf(u))
      <4>1. RunsOf(u)' = RunsOf(u)
        BY <2>1 DEF Authorize, RunsOf
      <4>2. CASE u = UserOf[s]
        <5>1. RunsOf(u) = {}
          BY <2>1, <4>2 DEF Authorize, MayAnswer
        <5>2. Cardinality(PastCheck(u)') <= Cardinality(SessionsOf(u))
          <6>1. PastCheck(u)' \subseteq SessionsOf(u)
            BY DEF PastCheck, SessionsOf
          <6> QED
            BY <6>1, SessionsAssumption, FS_Subset DEF SessionsOf
        <5>3. Cardinality(PastCheck(u)') \in Nat
          <6>1. PastCheck(u)' \subseteq Sessions
            BY DEF PastCheck, SessionsOf
          <6> QED
            BY <6>1, SessionsAssumption, FS_Subset, FS_CardinalityType
        <5> QED
          BY <4>1, <5>1, <5>2, <5>3, FS_EmptySet
      <4>3. CASE u # UserOf[s]
        <5>1. PastCheck(u)' = PastCheck(u)
          BY <2>1, <4>3, PostView
             DEF PastCheck, SessionsOf, Authorized, InTransaction, At, Moves
        <5> QED
          BY <4>1, <5>1 DEF QuotaInv
      <4> QED
        BY <4>2, <4>3
    <3> QED
      BY <3>1 DEF QuotaInv, SessionsOf
  <2>2. CASE Insert(s) \/ Count(s) \/ MarkCompleted(s) \/ CreateResult(s)
               \/ Rollback(s)
    <3>1. runs' = runs
      BY <2>2
         DEF Insert, Count, MarkCompleted, CreateResult, Rollback
    <3>2. Authorized(s) /\ \A t \in Sessions \ {s}: tx'[t] = tx[t]
      BY <2>2, PostView DEF Moves, Authorized, InTransaction, At
    <3>3. \A t \in Sessions: Authorized(t)' => Authorized(t)
      BY <3>2 DEF Authorized, InTransaction, At
    <3> QED
      BY <1>a, <3>1, <3>3, NoMoreAnswers
  <2>3. CASE Commit(s)
    <3> DEFINE run == [id |-> tx[s].run, user |-> UserOf[s]]
    <3>1. runs' = runs \cup {run} /\ run.user = UserOf[s]
      BY <2>3 DEF Commit
    <3>2. Authorized(s)
      BY <2>3 DEF Commit, Authorized, InTransaction, At
    <3>3. ~Authorized(s)' /\ \A t \in Sessions \ {s}: tx'[t] = tx[t]
      BY <2>3, PostView DEF Moves, Authorized, InTransaction, At
    <3> HIDE DEF run
    <3>4. ASSUME NEW u \in Users
          PROVE  Cardinality(RunsOf(u)') + Cardinality(PastCheck(u)')
                   <= Cardinality(SessionsOf(u))
      <4>1. CASE u = UserOf[s]
        <5>1. RunsOf(u)' = RunsOf(u) \cup {run}
          BY <3>1, <4>1 DEF RunsOf
        <5>2. PastCheck(u)' = PastCheck(u) \ {s} /\ s \in PastCheck(u)
          BY <3>2, <3>3, <4>1
             DEF PastCheck, SessionsOf, Authorized, InTransaction, At
        <5>3. /\ Cardinality(RunsOf(u)') \in Nat
              /\ Cardinality(RunsOf(u)') <= Cardinality(RunsOf(u)) + 1
          <6>1. IsFiniteSet(RunsOf(u)) /\ Cardinality(RunsOf(u)) \in Nat
            BY <1>a, CountsTyped
          <6>2. \/ Cardinality(RunsOf(u) \cup {run}) = Cardinality(RunsOf(u))
                \/ Cardinality(RunsOf(u) \cup {run}) = Cardinality(RunsOf(u)) + 1
            BY <6>1, FS_AddElement
          <6> QED
            BY <5>1, <6>1, <6>2
        <5>4. Cardinality(PastCheck(u)') = Cardinality(PastCheck(u)) - 1
          BY <1>a, <5>2, CountsTyped, FS_RemoveElement
        <5>5. Cardinality(RunsOf(u)) + Cardinality(PastCheck(u))
                <= Cardinality(SessionsOf(u))
          BY DEF QuotaInv
        <5> QED
          BY <1>a, <5>3, <5>4, <5>5, CountsTyped
      <4>2. CASE u # UserOf[s]
        <5>1. RunsOf(u)' = RunsOf(u)
          BY <3>1, <4>2 DEF RunsOf
        <5>2. PastCheck(u)' = PastCheck(u)
          BY <3>3, <4>2
             DEF PastCheck, SessionsOf, Authorized, InTransaction, At
        <5> QED
          BY <5>1, <5>2 DEF QuotaInv
      <4> QED
        BY <4>1, <4>2
    <3> QED
      BY <3>4 DEF QuotaInv, SessionsOf
  <2> QED
    BY <1>1, <2>1, <2>2, <2>3 DEF Post
<1>2. ASSUME NEW s \in Sessions, Administer(s)
      PROVE  QuotaInv'
  <2>1. \A t \in Sessions: Authorized(t)' => Authorized(t)
    BY <1>2, AdministerView DEF Authorized, InTransaction, At
  <2> QED
    BY <1>2, <1>a, <2>1, AdministerView, NoMoreAnswers
<1>3. CASE UNCHANGED vars
  BY <1>3, <1>a, NoMoreAnswers DEF vars, Authorized, InTransaction, At
<1> QED
  BY <1>1, <1>2, <1>3 DEF Next

\* A user's stored answers never outnumber the requests the user can have
\* open: each was allowed by a count of TaskRunAuth._create that found none.
THEOREM AnswersBounded == Spec => []AnswersBoundedByRequests
<1>1. TypeInv /\ QuotaInv => AnswersBoundedByRequests
  <2> SUFFICES ASSUME TypeInv, QuotaInv, NEW u \in Users
               PROVE  Cardinality(RunsOf(u)) <= Cardinality(SessionsOf(u))
    BY DEF AnswersBoundedByRequests
  <2> QED
    BY CountsTyped DEF TypeInv, QuotaInv
<1> QED
  BY <1>1, InitType, NextType, InitQuota, NextQuota, PTL DEF Spec

-----------------------------------------------------------------------------
(* Answers listed by the versions of the result *)

LEMMA IdsTyped ==
    ASSUME TypeInv
    PROVE  /\ nextRun \in Nat /\ nextResult \in Nat
           /\ \A r \in runs: r.id \in Nat
           /\ \A r \in results: r.id \in Nat /\ \A i \in r.ids: i \in Nat
           /\ \A s \in Sessions:
                /\ tx[s].run \in Nat /\ tx[s].result \in Nat
                /\ \A i \in tx[s].ids: i \in Nat
<1> USE DEF TypeInv, TypeOK
<1>1. \A r \in runs: r.id \in Nat
  BY DEF Run
<1>2. \A r \in results: r.id \in Nat /\ \A i \in r.ids: i \in Nat
  BY DEF Result
<1>3. \A s \in Sessions: /\ tx[s].run \in Nat /\ tx[s].result \in Nat
                         /\ \A i \in tx[s].ids: i \in Nat
  BY DEF Request
<1> QED
  BY <1>1, <1>2, <1>3

\* A step that adds no row and starts no transaction.
NothingNew ==
    /\ runs' \subseteq runs
    /\ results' \subseteq results
    /\ UNCHANGED <<nextRun, nextResult>>
    /\ \A t \in Sessions:
         /\ InTransaction(t)' => InTransaction(t) /\ tx'[t].run = tx[t].run
         /\ Completes(t)' => Completes(t) /\ SameResult(t)

LEMMA NothingNewKeeps ==
    ASSUME KeepsInv, NothingNew
    PROVE  KeepsInv'
<1> USE DEF KeepsInv, NothingNew, SameResult
<1>1. RunIds' \subseteq RunIds
  BY DEF RunIds
<1>2. IdsBelow'
  BY DEF IdsBelow
<1>3. RunsPrivate'
  BY DEF RunsPrivate
<1>4. NextKeepsAnswers'
  BY <1>1 DEF NextKeepsAnswers
<1>5. NewerResultKeepsAnswers'
  BY <1>1 DEF NewerResultKeepsAnswers
<1> QED
  BY <1>2, <1>3, <1>4, <1>5

LEMMA InitKeeps == Init => KeepsInv
  BY DEF Init, KeepsInv, IdsBelow, RunsPrivate, NextKeepsAnswers,
         NewerResultKeepsAnswers, InTransaction, Completes, At, Idle

LEMMA InsertKeeps ==
    ASSUME TypeInv, RowHeld, KeepsInv, NEW s \in Sessions, Insert(s)
    PROVE  KeepsInv'
<1>1. /\ UNCHANGED <<runs, results, nextResult>>
      /\ nextRun' = nextRun + 1
  BY DEF Insert
<1>2. /\ tx'[s].run = nextRun /\ ~Completes(s)'
      /\ \A t \in Sessions \ {s}: tx'[t] = tx[t]
  BY PostView DEF Moves, SameResult, RowHeld, Completes, At
<1>3. \A t \in Sessions \ {s}: /\ InTransaction(t)' <=> InTransaction(t)
                               /\ Completes(t)' <=> Completes(t)
  BY <1>2 DEF InTransaction, Completes, At
<1>4. IdsBelow'
  BY <1>1, <1>2, <1>3, IdsTyped DEF KeepsInv, IdsBelow
<1>5. RunsPrivate'
  <2>1. ASSUME NEW t \in Sessions \ {s}, InTransaction(t)
        PROVE  tx[t].run # nextRun
    BY <2>1, IdsTyped DEF KeepsInv, IdsBelow
  <2>2. /\ \A r \in runs: r.id # nextRun
        /\ \A r \in results: nextRun \notin r.ids
        /\ \A t \in Sessions: Completes(t) => nextRun \notin tx[t].ids
    BY IdsTyped DEF KeepsInv, IdsBelow
  <2> QED
    BY <1>1, <1>2, <1>3, <2>1, <2>2 DEF KeepsInv, RunsPrivate
<1>6. NextKeepsAnswers'
  BY <1>1, <1>2, <1>3 DEF KeepsInv, NextKeepsAnswers, RunIds
<1>7. NewerResultKeepsAnswers'
  BY <1>1 DEF KeepsInv, NewerResultKeepsAnswers, RunIds
<1> QED
  BY <1>4, <1>5, <1>6, <1>7 DEF KeepsInv

LEMMA CreateResultKeeps ==
    ASSUME TypeInv, KeepsInv, NEW s \in Sessions, CreateResult(s)
    PROVE  KeepsInv'
<1>1. /\ UNCHANGED <<runs, results, nextRun>>
      /\ nextResult' = nextResult + 1
  BY DEF CreateResult
<1>2. /\ tx'[s].run = tx[s].run
      /\ tx'[s].ids = RunIds \cup {tx[s].run}
      /\ tx'[s].result = nextResult
      /\ \A t \in Sessions \ {s}: tx'[t] = tx[t]
  BY PostView DEF Moves, VisibleRuns
<1>3. InTransaction(s) /\ InTransaction(s)'
  BY PostView DEF Moves, InTransaction, At
<1>4. \A t \in Sessions \ {s}: /\ InTransaction(t)' <=> InTransaction(t)
                               /\ Completes(t)' <=> Completes(t)
  BY <1>2 DEF InTransaction, Completes, At
<1>5. IdsBelow'
  <2>1. tx[s].run < nextRun /\ \A i \in RunIds: i < nextRun
    BY <1>3 DEF KeepsInv, IdsBelow, RunIds
  <2> QED
    BY <1>1, <1>2, <1>3, <1>4, <2>1, IdsTyped DEF KeepsInv, IdsBelow
<1>6. RunsPrivate'
  <2>1. ASSUME NEW t \in Sessions \ {s}, InTransaction(t)
        PROVE  tx[t].run \notin RunIds \cup {tx[s].run}
    BY <1>3, <2>1 DEF KeepsInv, RunsPrivate, RunIds
  <2> QED
    BY <1>1, <1>2, <1>3, <1>4, <2>1 DEF KeepsInv, RunsPrivate
<1>7. NextKeepsAnswers'
  <2>1. RunIds' = RunIds
    BY <1>1 DEF RunIds
  <2>2. \A r \in results: r.id < nextResult
    BY DEF KeepsInv, IdsBelow
  <2> QED
    BY <1>1, <1>2, <1>4, <2>1, <2>2 DEF KeepsInv, NextKeepsAnswers
<1>8. NewerResultKeepsAnswers'
  BY <1>1 DEF KeepsInv, NewerResultKeepsAnswers, RunIds
<1> QED
  BY <1>5, <1>6, <1>7, <1>8 DEF KeepsInv

LEMMA CommitKeeps ==
    ASSUME TypeInv, RowHeld, KeepsInv, NEW s \in Sessions, Commit(s)
    PROVE  KeepsInv'
<1>1. /\ ~InTransaction(s)' /\ ~Completes(s)'
      /\ \A t \in Sessions \ {s}: tx'[t] = tx[t]
  BY PostView DEF Moves, InTransaction, Completes, At
<1>2. \A t \in Sessions \ {s}: /\ InTransaction(t)' <=> InTransaction(t)
                               /\ Completes(t)' <=> Completes(t)
  BY <1>1 DEF InTransaction, Completes, At
<1>3. UNCHANGED <<nextRun, nextResult>> /\ InTransaction(s)
  BY DEF Commit, InTransaction, At
<1>4. \A r \in runs': r \in runs \/ r.id = tx[s].run
  BY DEF Commit
<1>5. RunIds' \subseteq RunIds \cup {tx[s].run}
  BY <1>4 DEF RunIds
\* A stored result is one there was, demoted perhaps, or the new version.
<1>6. ASSUME NEW r \in results'
      PROVE  \/ \E o \in results: r.id = o.id /\ r.ids = o.ids
             \/ Completes(s) /\ r.id = tx[s].result /\ r.ids = tx[s].ids
  <2>1. CASE ~Completes(s)
    BY <2>1, <1>6 DEF Commit
  <2>2. CASE Completes(s)
    <3> DEFINE demoted(o) == [o EXCEPT !.last = @ /\ o.id \notin tx[s].seen]
               new == [id |-> tx[s].result, ids |-> tx[s].ids, last |-> TRUE]
    <3>1. results' = {demoted(o): o \in results} \cup {new}
      BY <2>2 DEF Commit, CommittedResults
    <3>2. new.id = tx[s].result /\ new.ids = tx[s].ids
      OBVIOUS
    <3>3. \A o \in results: demoted(o).id = o.id /\ demoted(o).ids = o.ids
      BY DEF TypeInv, TypeOK, Result
    <3> HIDE DEF demoted, new
    <3> QED
      BY <1>6, <2>2, <3>1, <3>2, <3>3
  <2> QED
    BY <2>1, <2>2
<1>7. IdsBelow'
  <2>1. \A r \in runs': r.id < nextRun
    BY <1>3, <1>4 DEF KeepsInv, IdsBelow
  <2>2. \A r \in results': r.id < nextResult /\ \A i \in r.ids: i < nextRun
    BY <1>6 DEF KeepsInv, IdsBelow
  <2> QED
    BY <1>1, <1>2, <1>3, <2>1, <2>2 DEF KeepsInv, IdsBelow
<1>8. RunsPrivate'
  <2>1. ASSUME NEW t \in Sessions \ {s}, InTransaction(t)
        PROVE  /\ \A r \in runs': r.id # tx[t].run
               /\ \A r \in results': tx[t].run \notin r.ids
    BY <1>3, <1>4, <1>6, <2>1 DEF KeepsInv, RunsPrivate
  <2> QED
    BY <1>1, <1>2, <2>1 DEF KeepsInv, RunsPrivate
<1>9. NextKeepsAnswers'
  <2> SUFFICES ASSUME NEW t \in Sessions \ {s}, Completes(t),
                      NEW r \in results'
               PROVE  /\ r.id < tx[t].result
                      /\ r.ids \cap RunIds' \subseteq tx[t].ids
    BY <1>1, <1>2 DEF NextKeepsAnswers
  <2>1. ~Completes(s)
    BY DEF RowHeld
  <2>2. PICK o \in results: r.id = o.id /\ r.ids = o.ids
    BY <1>6, <2>1
  <2>3. tx[s].run \notin r.ids
    BY <1>3, <2>2 DEF KeepsInv, RunsPrivate
  <2> QED
    BY <1>5, <2>2, <2>3 DEF KeepsInv, NextKeepsAnswers
<1>10. NewerResultKeepsAnswers'
  <2> SUFFICES ASSUME NEW r1 \in results', NEW r2 \in results',
                      r1.id < r2.id
               PROVE  r1.ids \cap RunIds' \subseteq r2.ids
    BY DEF NewerResultKeepsAnswers
  <2>1. CASE \E o1 \in results: r1.id = o1.id /\ r1.ids = o1.ids
    <3>1. PICK o1 \in results: r1.id = o1.id /\ r1.ids = o1.ids
      BY <2>1
    <3>2. r1.ids \cap RunIds' \subseteq o1.ids \cap RunIds
      BY <1>3, <1>5, <3>1 DEF KeepsInv, RunsPrivate
    <3>3. CASE \E o2 \in results: r2.id = o2.id /\ r2.ids = o2.ids
      BY <3>1, <3>2, <3>3 DEF KeepsInv, NewerResultKeepsAnswers
    <3>4. CASE Completes(s) /\ r2.id = tx[s].result /\ r2.ids = tx[s].ids
      BY <3>2, <3>4 DEF KeepsInv, NextKeepsAnswers
    <3> QED
      BY <1>6, <3>3, <3>4
  <2>2. CASE Completes(s) /\ r1.id = tx[s].result /\ r1.ids = tx[s].ids
    <3>1. \A o \in results: o.id < tx[s].result /\ o.id \in Nat
      BY <2>2, IdsTyped DEF KeepsInv, NextKeepsAnswers
    <3>2. tx[s].result \in Nat
      BY IdsTyped
    <3> QED
      BY <1>6, <2>2, <3>1, <3>2
  <2> QED
    BY <1>6, <2>1, <2>2
<1> QED
  BY <1>7, <1>8, <1>9, <1>10 DEF KeepsInv

LEMMA NextKeeps ==
    TypeInv /\ VersionInv /\ KeepsInv /\ [Next]_vars => KeepsInv'
<1> SUFFICES ASSUME TypeInv, VersionInv, KeepsInv, [Next]_vars
             PROVE  KeepsInv'
  OBVIOUS
<1>a. RowHeld
  BY DEF VersionInv
<1>1. ASSUME NEW s \in Sessions, Post(s)
      PROVE  KeepsInv'
  <2>1. CASE Authorize(s) \/ Count(s) \/ MarkCompleted(s) \/ Rollback(s)
    <3>1. UNCHANGED <<runs, results, nextRun, nextResult>>
      BY <2>1 DEF Authorize, Count, MarkCompleted, Rollback
    <3>2. /\ InTransaction(s)' => InTransaction(s) /\ tx'[s].run = tx[s].run
          /\ Completes(s)' => Completes(s) /\ SameResult(s)
          /\ \A t \in Sessions \ {s}: tx'[t] = tx[t]
      BY <2>1, PostView DEF Moves, SameResult, InTransaction, Completes, At
    <3>3. NothingNew
      BY <3>1, <3>2
         DEF NothingNew, SameResult, InTransaction, Completes, At
    <3> QED
      BY <3>3, NothingNewKeeps
  <2> QED
    BY <1>1, <1>a, <2>1, InsertKeeps, CreateResultKeeps, CommitKeeps DEF Post
<1>2. ASSUME NEW s \in Sessions, Administer(s)
      PROVE  KeepsInv'
  <2>1. tx[s].result = 0
    BY <1>2, <1>a, AdministerView DEF RowHeld, InTransaction, Completes, At
  <2>2. ~InTransaction(s)' /\ ~Completes(s)'
    BY <1>2, <2>1, AdministerView DEF Completes
  <2>3. NothingNew
    BY <1>2, <2>2, AdministerView
       DEF NothingNew, SameResult, InTransaction, Completes, At
  <2> QED
    BY <2>3, NothingNewKeeps
<1>3. CASE UNCHANGED vars
  BY <1>3, NothingNewKeeps
     DEF vars, NothingNew, SameResult, InTransaction, Completes, At
<1> QED
  BY <1>1, <1>2, <1>3 DEF Next

\* No version of the result is built from older runs than the version before
\* it: the runs are read under the lock of the task row, so an answer that an
\* earlier version lists and that is still stored is in the later ones.
THEOREM AnswersKept == Spec => []NewerResultKeepsAnswers
<1>1. KeepsInv => NewerResultKeepsAnswers
  BY DEF KeepsInv
<1> QED
  BY <1>1, InitType, NextType, InitVersion, NextVersion, InitKeeps, NextKeeps,
     PTL DEF Spec

-----------------------------------------------------------------------------
(* The history of the task *)

LEMMA InitHistory == Init => History!Init
  BY DEF Init, History!Init, RunIds

LEMMA CommitHistory ==
    ASSUME TypeInv, VersionInv, KeepsInv, NEW s \in Sessions, Commit(s)
    PROVE  History!AddAnswer \/ History!NewVersion
<1> DEFINE i == tx[s].run
<1>1. InTransaction(s)
  BY DEF Commit, InTransaction, At
<1>2. History!Fresh(i)
  BY <1>1 DEF History!Fresh, KeepsInv, RunsPrivate, RunIds
<1>3. RunIds' = RunIds \cup {i} /\ i \in RunIds' \ RunIds
  <2> DEFINE run == [id |-> i, user |-> UserOf[s]]
  <2>1. runs' = runs \cup {run} /\ run.id = i
    BY DEF Commit
  <2> HIDE DEF run
  <2>2. RunIds' = RunIds \cup {i}
    BY <2>1 DEF RunIds
  <2> QED
    BY <1>2, <2>2 DEF History!Fresh
<1>4. CASE ~Completes(s)
  <2>1. results' = results
    BY <1>4 DEF Commit
  <2> QED
    BY <1>2, <1>3, <2>1 DEF History!AddAnswer
<1>5. CASE Completes(s)
  <2> DEFINE new == [id |-> tx[s].result, ids |-> tx[s].ids, last |-> TRUE]
             kept(o) == [o EXCEPT !.last = @ /\ o.id \notin tx[s].seen]
  <2>1. \A o \in results: kept(o) = [o EXCEPT !.last = FALSE]
    BY <1>5 DEF VersionInv, DemotesLast, TypeInv, TypeOK, Result
  <2>2. results' = {kept(o): o \in results} \cup {new}
    BY <1>5 DEF Commit, CommittedResults
  <2>3. results' = {[o EXCEPT !.last = FALSE]: o \in results} \cup {new}
    BY <2>1, <2>2
  <2>4. History!Follows(new, i)
    BY <1>5 DEF History!Follows, VersionInv, RowHeld, KeepsInv,
                NextKeepsAnswers
  <2> HIDE DEF new
  <2> QED
    BY <1>2, <1>3, <2>3, <2>4 DEF History!NewVersion
<1> QED
  BY <1>4, <1>5

LEMMA NextHistory ==
    TypeInv /\ VersionInv /\ KeepsInv /\ [Next]_vars
        => [History!Next]_<<RunIds, results>>
<1> SUFFICES ASSUME TypeInv, VersionInv, KeepsInv, [Next]_vars
             PROVE  [History!Next]_<<RunIds, results>>
  OBVIOUS
<1>1. ASSUME NEW s \in Sessions, Post(s)
      PROVE  [History!Next]_<<RunIds, results>>
  <2>1. CASE Commit(s)
    BY <2>1, CommitHistory DEF History!Next
  <2>2. CASE ~Commit(s)
    BY <1>1, <2>2
       DEF Post, Authorize, Insert, Count, MarkCompleted, CreateResult,
           Rollback, RunIds
  <2> QED
    BY <2>1, <2>2
<1>2. ASSUME NEW s \in Sessions, Administer(s)
      PROVE  [History!Next]_<<RunIds, results>>
  <2>1. CASE ClearResults(s)
    BY <2>1 DEF ClearResults, RunIds, History!Next, History!ClearResults
  <2>2. CASE ~ClearResults(s)
    <3>1. RunIds' \subseteq RunIds
      BY <1>2, AdministerView DEF RunIds
    <3>2. UNCHANGED results
      BY <1>2, <2>2
         DEF Administer, AuthorizeDelete, DeleteRun, LoadTask, EditTask,
             UpdateRedundancy, CommitRedundancy, ReadUnpublished,
             SavePublished, ClearRuns
    <3> QED
      BY <3>1, <3>2 DEF History!Next, History!RemoveAnswers
  <2> QED
    BY <2>1, <2>2
<1>3. CASE UNCHANGED vars
  BY <1>3 DEF vars, RunIds
<1> QED
  BY <1>1, <1>2, <1>3 DEF Next

\* However requests overlap and fail, answers and results evolve by single
\* steps of ResultHistory: an answer is stored, a version follows all that
\* was stored before, answers or results are removed.
THEOREM HistoryKept == Spec => ResultsEvolve
<1> QED
  BY InitType, NextType, InitVersion, NextVersion, InitKeeps, NextKeeps,
     InitHistory, NextHistory, PTL DEF Spec, ResultsEvolve, History!Spec

-----------------------------------------------------------------------------
(* The lock of the task row *)

Holding == {"marked", "ready", "redundancy"}

\* A step of s that leaves the row with its holder, if it is another request,
\* and that takes or keeps it only with steps of its own to follow.
LEMMA HolderStep ==
    ASSUME HolderNeverWaits, NEW s \in Sessions,
           \A t \in Sessions \ {s}: tx'[t] = tx[t],
           rowLock' \in {rowLock, NoSession, s},
           rowLock \in Sessions \cup {NoSession},
           rowLock' = s => tx'[s].pc \in Holding
    PROVE  HolderNeverWaits'
<1>1. CASE rowLock' = s
  BY <1>1 DEF HolderNeverWaits, Holding
<1>2. CASE rowLock' # s /\ rowLock' # NoSession
  <2>1. rowLock' = rowLock /\ rowLock \in Sessions \ {s}
    BY <1>2
  <2> QED
    BY <2>1 DEF HolderNeverWaits
<1> QED
  BY <1>1, <1>2 DEF HolderNeverWaits

LEMMA PostHolder ==
    ASSUME TypeInv, HolderNeverWaits, NEW s \in Sessions, Post(s)
    PROVE  HolderNeverWaits'
<1>a. /\ rowLock \in Sessions \cup {NoSession}
      /\ s # NoSession
      /\ rowLock = s => tx[s].pc \in Holding
  BY SessionsAssumption DEF TypeInv, TypeOK, HolderNeverWaits, Holding
\* A request that does not hold the row and does not take it.
<1>b. ASSUME UNCHANGED rowLock, tx[s].pc \notin Holding,
             \A t \in Sessions \ {s}: tx'[t] = tx[t]
      PROVE  HolderNeverWaits'
  BY <1>a, <1>b, HolderStep
\* A request that ends and gives up the row if it has it.
<1>c. ASSUME Unlock(s), \A t \in Sessions \ {s}: tx'[t] = tx[t]
      PROVE  HolderNeverWaits'
  <2>1. rowLock' \in {rowLock, NoSession} /\ rowLock' # s
    BY <1>a, <1>c DEF Unlock
  <2> QED
    BY <1>a, <1>c, <2>1, HolderStep
<1>1. CASE Authorize(s)
  BY <1>1, <1>b, PostView DEF Authorize, Moves, Holding
<1>2. CASE Insert(s)
  BY <1>2, <1>b, PostView DEF Insert, Moves, Holding
<1>3. CASE Count(s)
  BY <1>3, <1>b, PostView DEF Count, Moves, Holding
<1>4. CASE MarkCompleted(s)
  <2>1. rowLock' = s /\ Moves(s, "complete", "marked")
    BY <1>4, PostView DEF MarkCompleted
  <2> QED
    BY <1>a, <2>1, HolderStep DEF Moves, Holding
<1>5. CASE CreateResult(s)
  <2>1. rowLock' = rowLock /\ Moves(s, "marked", "ready")
    BY <1>5, PostView DEF CreateResult
  <2> QED
    BY <1>a, <2>1, HolderStep DEF Moves, Holding
<1>6. CASE Commit(s)
  BY <1>6, <1>c, PostView DEF Commit, Moves
<1>7. CASE Rollback(s)
  BY <1>7, <1>c, PostView DEF Rollback, Moves
<1> QED
  BY <1>1, <1>2, <1>3, <1>4, <1>5, <1>6, <1>7 DEF Post

LEMMA AdministerHolder ==
    ASSUME TypeInv, HolderNeverWaits, NEW s \in Sessions, Administer(s)
    PROVE  HolderNeverWaits'
<1>a. /\ rowLock \in Sessions \cup {NoSession}
      /\ s # NoSession
      /\ rowLock = s => tx[s].pc \in Holding
  BY SessionsAssumption DEF TypeInv, TypeOK, HolderNeverWaits, Holding
<1>b. \A t \in Sessions \ {s}: tx'[t] = tx[t]
  BY AdministerView
<1>1. CASE UpdateRedundancy(s)
  <2>1. rowLock' = s
    BY <1>1 DEF UpdateRedundancy
  <2>2. tx'[s].pc = "redundancy"
    <3>1. PICK n \in Redundancies:
            Become(s, [tx[s] EXCEPT !.pc = "redundancy",
                                    !.n = n,
                                    !.reopen = Cardinality(runs) < n])
      BY <1>1 DEF UpdateRedundancy
    <3> QED
      BY <3>1 DEF Become, TypeInv, TypeOK, Request
  <2> QED
    BY <1>a, <1>b, <2>1, <2>2, HolderStep DEF Holding
<1>2. CASE CommitRedundancy(s)
  <2>1. rowLock' \in {rowLock, NoSession} /\ rowLock' # s
    BY <1>2, <1>a DEF CommitRedundancy, Unlock
  <2> QED
    BY <1>a, <1>b, <2>1, HolderStep
<1>3. CASE ~UpdateRedundancy(s) /\ ~CommitRedundancy(s)
  <2>1. UNCHANGED rowLock
    BY <1>3
       DEF Administer, AuthorizeDelete, DeleteRun, LoadTask, EditTask,
           ReadUnpublished, SavePublished, ClearRuns, ClearResults
  <2>2. tx[s].pc \notin Holding
    BY <1>3
       DEF Administer, AuthorizeDelete, DeleteRun, LoadTask, EditTask,
           ReadUnpublished, SavePublished, ClearRuns, ClearResults, At, Holding
  <2> QED
    BY <1>a, <1>b, <2>1, <2>2, HolderStep
<1> QED
  BY <1>1, <1>2, <1>3

\* Whatever requests overlap and fail, whoever holds the task row is a request
\* with nothing left to wait for, so no two requests wait for each other.
THEOREM HolderNeverWaitsAlways == Spec => []HolderNeverWaits
<1>1. Init => HolderNeverWaits
  BY DEF Init, HolderNeverWaits
<1>2. TypeInv /\ HolderNeverWaits /\ [Next]_vars => HolderNeverWaits'
  <2>1. ASSUME TypeInv, HolderNeverWaits, Next
        PROVE  HolderNeverWaits'
    BY <2>1, PostHolder, AdministerHolder DEF Next
  <2>2. ASSUME HolderNeverWaits, UNCHANGED vars
        PROVE  HolderNeverWaits'
    BY <2>2 DEF vars, HolderNeverWaits
  <2> QED
    BY <2>1, <2>2
<1> QED
  BY <1>1, <1>2, InitType, NextType, PTL DEF Spec

-----------------------------------------------------------------------------
(* Completed tasks *)

\* n_answers stays as it is and no run is deleted.
Lasting ==
    /\ Admin \subseteq {"edit_task"}
    /\ \A m, n \in Redundancies: m = n

\* Runs are told apart by their ids, so a version lists as many ids as runs.
RunsDistinct == \A r1, r2 \in runs: r1.id = r2.id => r1 = r2

NothingRemoved ==
    \A s \in Sessions:
        tx[s].pc \notin {"delete", "redundancy", "publish", "clear_runs",
                         "clear_results"}

\* A submission that will complete the task has counted runs that are there
\* when it commits; the run it commits itself is one of those it counted.
CountsEnough ==
    \A s \in Sessions:
        /\ At(s, "counted") => tx[s].n <= Cardinality(runs) + 1
        /\ At(s, "complete") \/ At(s, "marked") \/ Completes(s) =>
             task.n <= Cardinality(runs) + 1
        /\ Completes(s) => task.n <= Cardinality(tx[s].ids)

CompletedInv ==
    /\ RunsDistinct
    /\ NothingRemoved
    /\ CountsEnough
    /\ CompletedWithResult

LEMMA IdsOfRuns ==
    ASSUME RunsDistinct, IsFiniteSet(runs)
    PROVE  IsFiniteSet(RunIds) /\ Cardinality(RunIds) = Cardinality(runs)
<1>. DEFINE f == [r \in runs |-> r.id]
<1>1. f \in Bijection(runs, RunIds)
  BY DEF RunsDistinct, RunIds, Bijection, Injection, Surjection, IsInjective
<1>2. ExistsBijection(runs, RunIds)
  BY <1>1 DEF ExistsBijection
<1> QED
  BY <1>2, FS_Bijection

LEMMA RunsCounted ==
    ASSUME TypeInv
    PROVE  /\ IsFiniteSet(runs) /\ Cardinality(runs) \in Nat
           /\ task.n \in Nat /\ task.n \in Redundancies
           /\ \A s \in Sessions: tx[s].n \in Nat
<1>1. task.n \in Redundancies /\ \A s \in Sessions: tx[s].n \in Nat
  BY DEF TypeInv, TypeOK, Request
<1> QED
  BY <1>1, FS_CardinalityType, BoundsAssumption DEF TypeInv

\* A step that changes neither runs nor results nor what the task asks for,
\* after which no request is about to complete the task that was not before.
LEMMA NothingCompleted ==
    ASSUME CompletedInv, UNCHANGED <<runs, results>>, task'.n = task.n,
           task'.state = "completed" => task.state = "completed",
           NEW s \in Sessions, \A t \in Sessions \ {s}: tx'[t] = tx[t],
           tx'[s].pc \in {"idle", "authorized", "edit"},
           tx'[s].result # 0 => tx[s].result # 0 /\ tx'[s].ids = tx[s].ids
    PROVE  CompletedInv'
<1>1. RunsDistinct' /\ CompletedWithResult'
  BY DEF CompletedInv, RunsDistinct, CompletedWithResult
<1>2. NothingRemoved'
  BY DEF CompletedInv, NothingRemoved
<1>3. CountsEnough'
  BY DEF CompletedInv, CountsEnough, At, Completes
<1> QED
  BY <1>1, <1>2, <1>3 DEF CompletedInv

LEMMA InitCompleted == Init => CompletedInv
<1> SUFFICES ASSUME Init
             PROVE  CompletedInv
  OBVIOUS
<1>1. RunsDistinct /\ CompletedWithResult
  BY DEF Init, RunsDistinct, CompletedWithResult
<1>2. NothingRemoved /\ CountsEnough
  BY DEF Init, NothingRemoved, CountsEnough, At, Completes, Idle
<1> QED
  BY <1>1, <1>2 DEF CompletedInv

LEMMA CommitCompleted ==
    ASSUME TypeInv, VersionInv, KeepsInv, CompletedInv,
           NEW s \in Sessions, Commit(s)
    PROVE  CompletedInv'
<1>. DEFINE run == [id |-> tx[s].run, user |-> UserOf[s]]
<1>1. runs' = runs \cup {run} /\ run.id = tx[s].run
  BY DEF Commit
<1>2. InTransaction(s) /\ \A r \in runs: r.id # run.id
  BY <1>1 DEF Commit, InTransaction, At, KeepsInv, RunsPrivate
<1>. HIDE DEF run
<1>3. Cardinality(runs') = Cardinality(runs) + 1
  <2>1. run \notin runs
    BY <1>2
  <2> QED
    BY <1>1, <2>1, RunsCounted, FS_AddElement
<1>4. task'.n = task.n
  BY DEF Commit, TypeInv, TypeOK
<1>5. tx'[s].pc = "idle" /\ tx'[s].result = 0
      /\ \A t \in Sessions \ {s}: tx'[t] = tx[t]
  BY PostView DEF Moves
<1>6. RunsDistinct'
  BY <1>1, <1>2 DEF CompletedInv, RunsDistinct
<1>7. NothingRemoved'
  BY <1>5 DEF CompletedInv, NothingRemoved
<1>8. CountsEnough'
  <2>1. ASSUME NEW t \in Sessions \ {s}
        PROVE  /\ At(t, "counted") => tx[t].n <= Cardinality(runs') + 1
               /\ At(t, "complete") \/ At(t, "marked") \/ Completes(t) =>
                    task.n <= Cardinality(runs') + 1
               /\ Completes(t) => task.n <= Cardinality(tx[t].ids)
    BY <1>3, RunsCounted DEF CompletedInv, CountsEnough
  <2> QED
    BY <1>4, <1>5, <2>1 DEF CountsEnough, At, Completes
<1>9. CompletedWithResult'
  <2>1. CASE ~Completes(s)
    <3>1. UNCHANGED <<task, results>>
      BY <2>1 DEF Commit
    <3> QED
      BY <1>3, <3>1, RunsCounted DEF CompletedInv, CompletedWithResult
  <2>2. CASE Completes(s)
    <3>. DEFINE new == [id |-> tx[s].result, ids |-> tx[s].ids, last |-> TRUE]
    <3>1. new \in results' /\ new.last /\ new.ids = tx[s].ids
      BY <2>2 DEF Commit, CommittedResults
    <3>2. /\ task.n <= Cardinality(runs) + 1
          /\ task.n <= Cardinality(tx[s].ids)
      BY <2>2 DEF CompletedInv, CountsEnough
    <3>. HIDE DEF new
    <3>3. task'.n <= Cardinality(runs') /\ task'.n <= Cardinality(new.ids)
      BY <1>3, <1>4, <3>1, <3>2
    <3>4. Cardinality(runs') >= task'.n
      BY <3>3, <1>3, <1>4, RunsCounted
    <3>5. Cardinality(new.ids) >= task'.n
      BY <3>3
    <3> QED
      BY <3>1, <3>4, <3>5 DEF CompletedWithResult
  <2> QED
    BY <2>1, <2>2
<1> QED
  BY <1>6, <1>7, <1>8, <1>9 DEF CompletedInv

LEMMA PostCompleted ==
    ASSUME TypeInv, VersionInv, KeepsInv, CompletedInv,
           NEW s \in Sessions, Post(s)
    PROVE  CompletedInv'
<1>a. tx[s].pc \notin {"counted", "complete", "marked", "ready"} =>
        ~Completes(s)
  BY DEF VersionInv, RowHeld, At
<1>b. /\ UNCHANGED <<runs, results, task>> => RunsDistinct' /\ CompletedWithResult'
      /\ \A pc \in {"counted", "complete", "marked", "ready"}:
           Moves(s, tx[s].pc, pc) => NothingRemoved'
  BY DEF CompletedInv, RunsDistinct, CompletedWithResult, NothingRemoved, Moves
\* What is left of each step: the request that makes it counts enough.
<1>c. ASSUME UNCHANGED <<runs, results, task>>,
             NEW pc \in {"counted", "complete", "marked", "ready"},
             Moves(s, tx[s].pc, pc),
             pc = "counted" => tx'[s].n <= Cardinality(runs) + 1,
             pc \in {"complete", "marked"} \/ tx'[s].result # 0 =>
               task.n <= Cardinality(runs) + 1,
             tx'[s].result # 0 => task.n <= Cardinality(tx'[s].ids)
      PROVE  CompletedInv'
  <2>1. CountsEnough'
    BY <1>c DEF CompletedInv, CountsEnough, Moves, At, Completes
  <2> QED
    BY <1>b, <1>c, <2>1 DEF CompletedInv
<1>1. CASE Authorize(s)
  <2>1. UNCHANGED <<runs, results, task>>
    BY <1>1 DEF Authorize
  <2> QED
    BY <1>1, <2>1, PostView, NothingCompleted DEF Moves, SameResult
<1>2. CASE Insert(s)
  <2>1. UNCHANGED <<runs, results, task>>
    BY <1>2 DEF Insert
  <2>2. Moves(s, tx[s].pc, "counted") /\ tx[s].result = 0 /\ tx'[s].result = 0
    BY <1>2, <1>a, PostView DEF Moves, SameResult, Completes
  <2>3. tx'[s].n = Cardinality(runs) + 1
    BY <1>2 DEF Insert, Become, TypeInv, TypeOK, Request
  <2> QED
    BY <2>1, <2>2, <2>3, <1>c, RunsCounted
<1>3. CASE Count(s)
  <2>1. UNCHANGED <<runs, results, task>>
    BY <1>3 DEF Count
  <2>2. PICK pc \in {"complete", "ready"}: Goto(s, pc) /\
          pc = IF EnoughAnswers(tx[s].n) THEN "complete" ELSE "ready"
    BY <1>3 DEF Count
  <2>3. Moves(s, tx[s].pc, pc) /\ At(s, "counted")
    BY <1>3, <2>2, GotoView DEF Count, Moves, At, TypeInv, TypeOK
  <2>4. tx[s].result = 0 /\ tx'[s].result = 0
    BY <2>2, <2>3, GotoView DEF VersionInv, RowHeld, Completes, At, TypeInv, TypeOK
  <2>5. pc = "complete" => task.n <= Cardinality(runs) + 1
    BY <2>2, <2>3, RunsCounted DEF EnoughAnswers, CompletedInv, CountsEnough
  <2> QED
    BY <2>1, <2>3, <2>4, <2>5, <1>c
<1>4. CASE MarkCompleted(s)
  <2>1. UNCHANGED <<runs, results, task>> /\ At(s, "complete")
    BY <1>4 DEF MarkCompleted
  <2>2. Moves(s, tx[s].pc, "marked") /\ tx[s].result = 0 /\ tx'[s].result = 0
    BY <1>4, <2>1, PostView
       DEF Moves, SameResult, VersionInv, RowHeld, Completes, At
  <2> QED
    BY <2>1, <2>2, <1>c DEF CompletedInv, CountsEnough
<1>5. CASE CreateResult(s)
  <2>1. UNCHANGED <<runs, results, task>> /\ At(s, "marked")
    BY <1>5 DEF CreateResult
  <2>2. Moves(s, tx[s].pc, "ready") /\ tx'[s].ids = RunIds \cup {tx[s].run}
    BY <1>5, PostView DEF Moves, VisibleRuns
  <2>3. tx[s].run \notin RunIds
    BY <2>1 DEF KeepsInv, RunsPrivate, RunIds, InTransaction, At
  <2>4. Cardinality(tx'[s].ids) = Cardinality(runs) + 1
    <3>1. IsFiniteSet(RunIds) /\ Cardinality(RunIds) = Cardinality(runs)
      BY RunsCounted, IdsOfRuns DEF CompletedInv
    <3> QED
      BY <2>2, <2>3, <3>1, FS_AddElement
  <2> QED
    BY <2>1, <2>2, <2>4, <1>c DEF CompletedInv, CountsEnough
<1>6. CASE Rollback(s)
  <2>1. UNCHANGED <<runs, results, task>>
    BY <1>6 DEF Rollback
  <2> QED
    BY <1>6, <2>1, PostView, NothingCompleted DEF Moves
<1> QED
  BY <1>1, <1>2, <1>3, <1>4, <1>5, <1>6, CommitCompleted DEF Post

LEMMA AdministerCompleted ==
    ASSUME Lasting, TypeInv, VersionInv, CompletedInv,
           NEW s \in Sessions, Administer(s)
    PROVE  CompletedInv'
<1>a. /\ ~DeleteRun(s) /\ ~CommitRedundancy(s) /\ ~SavePublished(s)
      /\ ~ClearRuns(s) /\ ~ClearResults(s)
  BY DEF DeleteRun, CommitRedundancy, SavePublished, ClearRuns, ClearResults,
         CompletedInv, NothingRemoved, At
<1>b. ~AuthorizeDelete(s) /\ ~UpdateRedundancy(s) /\ ~ReadUnpublished(s)
  <2>1. Admin \subseteq {"edit_task"}
    BY DEF Lasting
  <2>2. "delete_run" \notin Admin /\ "redundancy" \notin Admin
        /\ "publish" \notin Admin
    BY <2>1
  <2> QED
    BY <2>2 DEF AuthorizeDelete, UpdateRedundancy, ReadUnpublished
<1>1. LoadTask(s) \/ EditTask(s)
  BY <1>a, <1>b DEF Administer
<1>2. /\ \A t \in Sessions \ {s}: tx'[t] = tx[t]
      /\ tx[s].result = 0
  <2>1. ~At(s, "ready")
    BY <1>1 DEF LoadTask, EditTask, At
  <2> QED
    BY <2>1, AdministerView DEF VersionInv, RowHeld, Completes
<1>3. tx'[s].result = 0
  BY <1>2, AdministerView
<1>4. CASE LoadTask(s)
  <2>1. UNCHANGED <<runs, results, task>>
    BY <1>4 DEF LoadTask
  <2>2. tx'[s].pc = "edit"
    BY <1>4 DEF LoadTask, Become, TypeInv, TypeOK, Request
  <2> QED
    BY <1>2, <1>3, <2>1, <2>2, NothingCompleted
<1>5. CASE EditTask(s)
  <2>1. UNCHANGED <<runs, results>>
    BY <1>5 DEF EditTask
  <2>2. tx'[s].pc = "idle"
    BY <1>5, FinishView DEF EditTask, TypeInv, TypeOK
  <2>3. task'.n = task.n /\ (task'.state = "completed" => task.state = "completed")
    <3>1. task.n \in Redundancies /\ task'.n \in Redundancies
      BY NextType, RunsCounted DEF Next, TypeInv, TypeOK
    <3> QED
      BY <1>5, <3>1 DEF EditTask, Lasting
  <2> QED
    BY <1>2, <1>3, <2>1, <2>2, <2>3, NothingCompleted
<1> QED
  BY <1>1, <1>4, <1>5

\* While n_answers stays as it is and no run is deleted, a completed task has
\* the answers it asks for, and a last version of the result that lists as
\* many: the count of is_task_completed stays true until the commit.
THEOREM CompletedTaskHasResult ==
    ASSUME Lasting
    PROVE  Spec => []CompletedWithResult
<1>1. /\ TypeInv /\ VersionInv /\ KeepsInv /\ CompletedInv /\ [Next]_vars
        => CompletedInv'
  <2>1. ASSUME TypeInv, VersionInv, KeepsInv, CompletedInv, Next
        PROVE  CompletedInv'
    BY <2>1, PostCompleted, AdministerCompleted DEF Next
  <2>2. ASSUME CompletedInv, UNCHANGED vars
        PROVE  CompletedInv'
    BY <2>2 DEF vars, CompletedInv, RunsDistinct, NothingRemoved,
       CountsEnough, CompletedWithResult, At, Completes
  <2> QED
    BY <2>1, <2>2
<1>2. CompletedInv => CompletedWithResult
  BY DEF CompletedInv
<1> QED
  BY <1>1, <1>2, InitType, NextType, InitVersion, NextVersion, InitKeeps,
     NextKeeps, InitCompleted, PTL DEF Spec

=============================================================================
