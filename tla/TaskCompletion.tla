--------------------------- MODULE TaskCompletion ---------------------------
(***************************************************************************)
(* The life of one task: task runs posted by concurrent requests, the      *)
(* transaction that stores a run and may complete the task, the versions   *)
(* of its result, and the administrative operations that work on the same  *)
(* rows (deleting a run, editing n_answers, changing the redundancy of     *)
(* the project, publishing the project).                                   *)
(*                                                                         *)
(* PostgreSQL runs at READ COMMITTED: a statement sees what is committed   *)
(* when it starts, plus its own transaction's writes.  The variables hold  *)
(* the committed rows; what a transaction has written and not committed is *)
(* in the record of its session.  An UPDATE of the task row locks it until *)
(* the transaction ends.  The UPDATE of the project row (update_project),  *)
(* the last statement but one of every submission, orders commits and is   *)
(* part of the commit step.                                                *)
(***************************************************************************)
EXTENDS Naturals, FiniteSets

CONSTANTS
    Users,          \* identities of contributors (user_id, ip or external_uid)
    Sessions,       \* requests the web workers serve at the same time
    UserOf,         \* UserOf[s]: who sends the requests of session s
    Redundancies,   \* values n_answers may take; the first row gets the least
    MaxPosts,       \* bound: how many task runs are inserted
    Admin           \* administrative operations that may happen

NoSession == "none"

ASSUME SessionsAssumption ==
    /\ NoSession \notin Sessions
    /\ IsFiniteSet(Sessions)
    /\ UserOf \in [Sessions -> Users]

ASSUME BoundsAssumption ==
    /\ Redundancies \subseteq Nat \ {0}
    /\ MaxPosts \in Nat
    /\ Admin \subseteq {"delete_run", "edit_task", "redundancy", "publish"}

VARIABLES
    task,       \* committed columns of the task row: state and n_answers
    runs,       \* committed task_run rows
    results,    \* committed result rows
    published,  \* committed project.published
    rowLock,    \* the session whose transaction locks the task row
    webhooks,   \* results whose task_completed webhook was queued
    nextRun,    \* next value of the task_run id sequence
    nextResult, \* next value of the result id sequence
    tx          \* what each session's request has read and not committed

vars == <<task, runs, results, published, rowLock, webhooks,
          nextRun, nextResult, tx>>

Run == [id: Nat, user: Users]

Result == [id: Nat, ids: SUBSET Nat, last: BOOLEAN]

\* The request record of a session.  run: the id inserted or being deleted;
\* n: the count, or the n_answers to write (0: leave it); reopen: state is set
\* to ongoing; seen: ids of the results create_result demotes; ids: the runs it
\* lists; result: the id it inserts (0: none).
Request == [pc: {"idle", "authorized", "counted",
                 "complete", "marked", "ready", "delete", "edit",
                 "redundancy", "publish", "clear_runs", "clear_results"},
            run: Nat, n: Nat, reopen: BOOLEAN,
            seen: SUBSET Nat, ids: SUBSET Nat, result: Nat]

Idle == [pc |-> "idle", run |-> 0, n |-> 0, reopen |-> FALSE,
         seen |-> {}, ids |-> {}, result |-> 0]

TypeOK ==
    /\ task \in [state: {"ongoing", "completed"}, n: Redundancies]
    /\ runs \subseteq Run
    /\ results \subseteq Result
    /\ published \in BOOLEAN
    /\ rowLock \in Sessions \cup {NoSession}
    /\ webhooks \subseteq Nat
    /\ nextRun \in Nat \ {0}
    /\ nextResult \in Nat \ {0}
    /\ tx \in [Sessions -> Request]

Init ==
    /\ task \in [state: {"ongoing"}, n: Redundancies]
    /\ \A n \in Redundancies: task.n <= n
    /\ runs = {}
    /\ results = {}
    /\ published = FALSE
    /\ rowLock = NoSession
    /\ webhooks = {}
    /\ nextRun = 1
    /\ nextResult = 1
    /\ tx = [s \in Sessions |-> Idle]

-----------------------------------------------------------------------------
(* Rows a query returns *)

RunsOf(u) == {r \in runs: r.user = u}

RunIds == {r.id: r \in runs}

ResultIds == {r.id: r \in results}

At(s, pc) == tx[s].pc = pc

Become(s, request) == tx' = [tx EXCEPT ![s] = request]

Goto(s, pc) == Become(s, [tx[s] EXCEPT !.pc = pc])

Finish(s) == Become(s, Idle)

\* A variant of Unlock: the lock of the row survives the transaction.
KeepLock(s) == rowLock' = rowLock

Unlock(s) == rowLock' = IF rowLock = s THEN NoSession ELSE rowLock

-----------------------------------------------------------------------------
(* POST /api/taskrun, from the authorization on *)

\* Runs inserted and runs about to be: what MaxPosts bounds.
PostsBegun ==
    nextRun - 1 + Cardinality({s \in Sessions: At(s, "authorized")})

\* A variant of MayAnswer: the comparison is off by one.
MayAnswerTwice(u) == Cardinality(RunsOf(u)) <= 1

\* TaskRunAuth._create counts the user's own runs of the task; a user who has
\* one gets 403 and the request ends.
MayAnswer(u) == RunsOf(u) = {}

Authorize(s) ==
    /\ At(s, "idle")
    /\ PostsBegun < MaxPosts
    /\ MayAnswer(UserOf[s])
    /\ Goto(s, "authorized")
    /\ UNCHANGED <<task, runs, results, published, rowLock, webhooks,
                   nextRun, nextResult>>

\* The INSERT of the flush, then the first query of is_task_completed: the
\* committed runs and the one just inserted.
Insert(s) ==
    /\ At(s, "authorized")
    /\ Become(s, [tx[s] EXCEPT !.pc = "counted",
                               !.run = nextRun,
                               !.n = Cardinality(runs) + 1])
    /\ nextRun' = nextRun + 1
    /\ UNCHANGED <<task, runs, results, published, rowLock, webhooks,
                   nextResult>>

\* A variant of EnoughAnswers: the comparison is off by one.
AlmostEnoughAnswers(n) == n + 1 >= task.n

\* The second query of is_task_completed.
EnoughAnswers(n) == n >= task.n

Count(s) ==
    /\ At(s, "counted")
    /\ Goto(s, IF EnoughAnswers(tx[s].n) THEN "complete" ELSE "ready")
    /\ UNCHANGED <<task, runs, results, published, rowLock, webhooks,
                   nextRun, nextResult>>

\* A variant of TaskRowFree: nobody waits for the row.
RowNeverLocked == TRUE

\* update_task_state: the UPDATE waits for the row and keeps it until the end
\* of the transaction.
TaskRowFree == rowLock = NoSession

MarkCompleted(s) ==
    /\ At(s, "complete")
    /\ TaskRowFree
    /\ rowLock' = s
    /\ Goto(s, "marked")
    /\ UNCHANGED <<task, runs, results, published, webhooks, nextRun,
                   nextResult>>

\* A variant of VisibleRuns: the result lists the new run only.
OwnRunOnly(s) == {tx[s].run}

\* create_result lists the runs its transaction sees, demotes every result it
\* sees and inserts the new version; push_webhook queues the job right away,
\* for a project that has a webhook, as this one does.
VisibleRuns(s) == RunIds \cup {tx[s].run}

\* A variant of PushWebhook: the job is left to be queued later.
QueueNothing == webhooks' = webhooks

PushWebhook == webhooks' = webhooks \cup {nextResult}

CreateResult(s) ==
    /\ At(s, "marked")
    /\ Become(s, [tx[s] EXCEPT !.pc = "ready",
                               !.ids = VisibleRuns(s),
                               !.seen = ResultIds,
                               !.result = nextResult])
    /\ nextResult' = nextResult + 1
    /\ PushWebhook
    /\ UNCHANGED <<task, runs, results, published, rowLock, nextRun>>

Completes(s) == tx[s].result # 0

\* A variant of CommittedResults: earlier versions are not demoted.
AddedResult(s) ==
    results \cup {[id |-> tx[s].result, ids |-> tx[s].ids, last |-> TRUE]}

CommittedResults(s) ==
    {[r EXCEPT !.last = @ /\ r.id \notin tx[s].seen]: r \in results}
        \cup {[id |-> tx[s].result, ids |-> tx[s].ids, last |-> TRUE]}

\* update_project and COMMIT.
Commit(s) ==
    /\ At(s, "ready")
    /\ runs' = runs \cup {[id |-> tx[s].run, user |-> UserOf[s]]}
    /\ IF Completes(s)
       THEN /\ task' = [task EXCEPT !.state = "completed"]
            /\ results' = CommittedResults(s)
       ELSE UNCHANGED <<task, results>>
    /\ Unlock(s)
    /\ Finish(s)
    /\ UNCHANGED <<published, webhooks, nextRun, nextResult>>

\* The transaction fails (database error, worker killed): its writes are
\* undone and its locks dropped, what it sent to Redis stays.
InTransaction(s) == tx[s].pc \in {"counted", "complete", "marked", "ready"}

Rollback(s) ==
    /\ InTransaction(s)
    /\ Unlock(s)
    /\ Finish(s)
    /\ UNCHANGED <<task, runs, results, published, webhooks, nextRun,
                   nextResult>>

Post(s) ==
    \/ Authorize(s)
    \/ Insert(s)
    \/ Count(s)
    \/ MarkCompleted(s)
    \/ CreateResult(s)
    \/ Commit(s)
    \/ Rollback(s)

-----------------------------------------------------------------------------
(* Administrative operations on the same rows *)

\* DELETE /api/taskrun: TaskRunAuth._delete refuses a run that the last
\* version of the result lists.  The caller is an admin or the run's user.
ListedInLastResult(run) == \E r \in results: r.last /\ run.id \in r.ids

AuthorizeDelete(s) ==
    /\ "delete_run" \in Admin
    /\ At(s, "idle")
    /\ \E run \in runs:
         /\ ~ListedInLastResult(run)
         /\ Become(s, [tx[s] EXCEPT !.pc = "delete", !.run = run.id])
    /\ UNCHANGED <<task, runs, results, published, rowLock, webhooks,
                   nextRun, nextResult>>

\* The DELETE matches no row when another request was faster.
DeleteRun(s) ==
    /\ At(s, "delete")
    /\ runs' = {r \in runs: r.id # tx[s].run}
    /\ Finish(s)
    /\ UNCHANGED <<task, results, published, rowLock, webhooks, nextRun,
                   nextResult>>

\* PUT /api/task: the row is loaded, then the changed columns are written.
\* _update_attribute reopens a completed task unless n_answers goes down.
LoadTask(s) ==
    /\ "edit_task" \in Admin
    /\ At(s, "idle")
    /\ \E n \in Redundancies:
         Become(s, [tx[s] EXCEPT !.pc = "edit",
                                 !.n = IF n = task.n THEN 0 ELSE n,
                                 !.reopen = /\ task.state = "completed"
                                            /\ task.n <= n])
    /\ UNCHANGED <<task, runs, results, published, rowLock, webhooks,
                   nextRun, nextResult>>

\* A variant of WrittenRedundancy: 0, for "leave it", is written.
LoadedRedundancy(s) == tx[s].n

WrittenRedundancy(s) == IF tx[s].n = 0 THEN task.n ELSE tx[s].n

EditTask(s) ==
    /\ At(s, "edit")
    /\ TaskRowFree
    /\ task' = [state |-> IF tx[s].reopen THEN "ongoing" ELSE task.state,
                n |-> WrittenRedundancy(s)]
    /\ Finish(s)
    /\ UNCHANGED <<runs, results, published, rowLock, webhooks, nextRun,
                   nextResult>>

\* update_tasks_redundancy: the first statement takes the row, the second
\* counts the runs committed by then; both show at the commit.
UpdateRedundancy(s) ==
    /\ "redundancy" \in Admin
    /\ At(s, "idle")
    /\ TaskRowFree
    /\ rowLock' = s
    /\ \E n \in Redundancies:
         Become(s, [tx[s] EXCEPT !.pc = "redundancy",
                                 !.n = n,
                                 !.reopen = Cardinality(runs) < n])
    /\ UNCHANGED <<task, runs, results, published, webhooks, nextRun,
                   nextResult>>

CommitRedundancy(s) ==
    /\ At(s, "redundancy")
    /\ task' = [state |-> IF tx[s].reopen THEN "ongoing" ELSE "completed",
                n |-> tx[s].n]
    /\ Unlock(s)
    /\ Finish(s)
    /\ UNCHANGED <<runs, results, published, webhooks, nextRun, nextResult>>

\* POST /project/<name>/publish: four repository calls, each its own
\* transaction; the last one touches the webhook table only.
ReadUnpublished(s) ==
    /\ "publish" \in Admin
    /\ At(s, "idle")
    /\ ~published
    /\ Goto(s, "publish")
    /\ UNCHANGED <<task, runs, results, published, rowLock, webhooks,
                   nextRun, nextResult>>

SavePublished(s) ==
    /\ At(s, "publish")
    /\ published' = TRUE
    /\ Goto(s, "clear_runs")
    /\ UNCHANGED <<task, runs, results, rowLock, webhooks, nextRun,
                   nextResult>>

ClearRuns(s) ==
    /\ At(s, "clear_runs")
    /\ runs' = {}
    /\ Goto(s, "clear_results")
    /\ UNCHANGED <<task, results, published, rowLock, webhooks, nextRun,
                   nextResult>>

ClearResults(s) ==
    /\ At(s, "clear_results")
    /\ results' = {}
    /\ Finish(s)
    /\ UNCHANGED <<task, runs, published, rowLock, webhooks, nextRun,
                   nextResult>>

Administer(s) ==
    \/ AuthorizeDelete(s)
    \/ DeleteRun(s)
    \/ LoadTask(s)
    \/ EditTask(s)
    \/ UpdateRedundancy(s)
    \/ CommitRedundancy(s)
    \/ ReadUnpublished(s)
    \/ SavePublished(s)
    \/ ClearRuns(s)
    \/ ClearResults(s)

-----------------------------------------------------------------------------
Next == \E s \in Sessions: Post(s) \/ Administer(s)

\* A worker runs the request it has started; PostgreSQL queues the waiters of
\* a row lock, so a waiter is not passed over for ever.  Nothing obliges
\* anybody to start a request, or a transaction to fail.
Fairness ==
    \A s \in Sessions:
        /\ WF_vars(Insert(s) \/ Count(s) \/ CreateResult(s) \/ Commit(s)
                     \/ DeleteRun(s) \/ CommitRedundancy(s))
        /\ WF_vars(SavePublished(s) \/ ClearRuns(s) \/ ClearResults(s))
        /\ SF_vars(MarkCompleted(s))
        /\ SF_vars(EditTask(s))

Spec == Init /\ [][Next]_vars

FairSpec == Spec /\ Fairness

-----------------------------------------------------------------------------
(* Properties *)

\* A task has at most one result marked last_version, however submissions
\* that complete it overlap: create_result demotes the versions it sees, and
\* only the row lock of update_task_state, taken before, makes it see all.
UniqueLastVersion ==
    \A r1, r2 \in results: r1.last /\ r2.last => r1 = r2

\* A later version of the result keeps every answer an earlier version lists,
\* as long as that answer is still stored: no version is built from a view of
\* the runs older than the one its predecessor was built from.
NewerResultKeepsAnswers ==
    \A r1, r2 \in results: r1.id < r2.id => r1.ids \cap RunIds \subseteq r2.ids

\* A user's answers to the task never outnumber the requests the user has
\* open at the same time: the check of TaskRunAuth._create can be overtaken
\* only by requests that were already past it.
SessionsOf(u) == {s \in Sessions: UserOf[s] = u}

AnswersBoundedByRequests ==
    \A u \in Users: Cardinality(RunsOf(u)) <= Cardinality(SessionsOf(u))

\* No stored result was left unannounced: whatever fails around the commit,
\* its task_completed webhook was queued before.
EveryResultAnnounced == ResultIds \subseteq webhooks

\* Whoever holds the task row does not wait for it: the transaction has only
\* steps of its own left before the row is free again.  A lock that survived a
\* rollback, or that was taken before a second wait for the row, would stop
\* every later submission that completes the task and every edit of it.
HolderNeverWaits ==
    rowLock # NoSession =>
        tx[rowLock].pc \in {"marked", "ready", "redundancy"}

\* Every overlap of submissions, deletions and publications, each of several
\* statements, amounts to a history of single steps.
History == INSTANCE ResultHistory WITH answers <- RunIds

ResultsEvolve == History!Spec

\* While n_answers stays as it is and no run is deleted, a completed task has
\* the answers it asks for, and a last result that lists at least that many.
CompletedWithResult ==
    task.state = "completed" =>
        /\ Cardinality(runs) >= task.n
        /\ \E r \in results: r.last /\ Cardinality(r.ids) >= task.n

\* A request that was started ends: no submission or administrative
\* operation waits for the row of the task for ever.
RequestsEnd == \A s \in Sessions: ~At(s, "idle") ~> At(s, "idle")

-----------------------------------------------------------------------------
(* What the repository says and its code does not guarantee *)

\* event_listeners.py: on_taskrun_submit is to "update the task.state when
\* n_answers condition is met".  With no request in progress, a task that has
\* its answers is completed.
CompletedWhenAnswered ==
    (\A s \in Sessions: At(s, "idle")) =>
        (Cardinality(runs) >= task.n => task.state = "completed")

=============================================================================
