---------------------------- MODULE ProjectLife ----------------------------
(***************************************************************************)
(* The life of a project: its tasks are completed, a background job keeps  *)
(* statistics of them and sets the flag complete, every page of the        *)
(* project sets the flag again from the statistics it has got from the     *)
(* cache, and an hourly job closes the project when its end date has       *)
(* passed and the flag is not set.  The page of the statistics and the job *)
(* of the weekly mail compute them too, from counts that are memoized.     *)
(*                                                                         *)
(* Which counts these may be is the variable recent: the choice stands for *)
(* the protocol of memoize and clean_project, which is in ProjectCache.    *)
(*                                                                         *)
(* One action is one SQL statement or Redis command that another process   *)
(* can see.  The ORM updates complete only where it differs from what the  *)
(* process has loaded.  One worker runs the jobs, one after the other.     *)
(***************************************************************************)
EXTENDS Integers

CONSTANTS
    Pages,      \* requests for a page of the project
    Initial,    \* counts the project may start with: [tasks, done]
    MaxChanges  \* bound: tasks added, deleted or reopened, and failed jobs

Counts == [tasks: Nat, done: Nat]

ASSUME LifeAssumption ==
    /\ Initial \subseteq Counts
    /\ \A c \in Initial: c.done <= c.tasks
    /\ MaxChanges \in Nat

VARIABLES
    db,         \* the tasks of the project, and how many are completed
    project,    \* its row: published, complete; over: end_date has passed
    progress,   \* overall_progress in the row of its statistics
    memo,       \* what get_stats keeps of that in Redis
    recent,     \* counts that entries of n_tasks, n_completed_tasks and
                \* overall_progress, or requests for these, may still hold
    job,        \* the computation of the statistics
    page,       \* the pages being made
    changes,    \* how many changes there were
    earned,     \* history: nearly all tasks were completed at some moment
    torn        \* history: completed tasks were divided by fewer tasks than
                \* there were when these were counted

vars == <<db, project, progress, memo, recent, job, page, changes, earned, torn>>

\* A variant of Percent: it is rounded up.
PercentUp(c) ==
    IF c.tasks > 0 /\ (100 * c.done + c.tasks - 1) \div c.tasks >= 100
    THEN 100 ELSE 0

\* overall_progress is an Integer column: PostgreSQL rounds the quotient.  What
\* is less than 100 counts as 0 here, and what is more as 100: nothing that
\* reads the column tells them apart.
Percent(c) ==
    IF c.tasks > 0 /\ (200 * c.done + c.tasks) \div (2 * c.tasks) >= 100
    THEN 100 ELSE 0

\* The percentage rounds to 100.
NearlyAll(c) == c.tasks > 0 /\ 199 * c.tasks <= 200 * c.done

NoValue == -1

Idle == [at |-> "none", seen |-> [tasks |-> 0, done |-> 0], complete |-> FALSE]

\* at: the next step; complete: the flag as it was loaded; seen: the counts.
Job == [at: {"none", "queued", "done", "again", "load", "save", "weekly"},
        seen: Counts, complete: BOOLEAN]

Closed == [at |-> "none", progress |-> 0, complete |-> FALSE]

Page == [at: {"none", "ask", "query", "keep", "have", "saved", "shown"},
         progress: Nat, complete: BOOLEAN]

TypeOK ==
    /\ db \in Counts
    /\ db.done <= db.tasks
    /\ project \in [published: BOOLEAN, complete: BOOLEAN, over: BOOLEAN]
    /\ progress \in Nat
    /\ memo \in Nat \cup {NoValue}
    /\ recent \subseteq {c \in Counts: c.done <= c.tasks}
    /\ db \in recent
    /\ job \in Job
    /\ page \in [Pages -> Page]
    /\ changes \in 0..MaxChanges
    /\ earned \in BOOLEAN
    /\ torn \in BOOLEAN

\* A draft whose tasks were tried out, with the empty statistics that
\* add_project_event made.
Init ==
    /\ db \in Initial
    /\ project = [published |-> FALSE, complete |-> FALSE, over |-> FALSE]
    /\ progress = 0
    /\ memo = NoValue
    /\ recent = {db}
    /\ job = Idle
    /\ page = [p \in Pages |-> Closed]
    /\ changes = 0
    /\ earned = NearlyAll(db)
    /\ torn = FALSE

-----------------------------------------------------------------------------
(* The tasks *)

Recount(c) ==
    /\ db' = c
    /\ recent' = recent \cup {c}
    /\ earned' = (earned \/ NearlyAll(c))
    /\ UNCHANGED <<project, progress, memo, page>>

Change == changes < MaxChanges /\ changes' = changes + 1

\* A variant of CompleteTask: a completed task is counted again.
CompleteAnyTask ==
    /\ Recount([db EXCEPT !.done = @ + 1])
    /\ UNCHANGED <<job, changes, torn>>

\* The last answer a task needs: see TaskCompletion.
CompleteTask ==
    /\ db.done < db.tasks
    /\ Recount([db EXCEPT !.done = @ + 1])
    /\ UNCHANGED <<job, changes, torn>>

AddTask ==
    /\ Change
    /\ Recount([db EXCEPT !.tasks = @ + 1])
    /\ UNCHANGED <<job, torn>>

\* n_answers is raised.
ReopenTask ==
    /\ Change
    /\ db.done > 0
    /\ Recount([db EXCEPT !.done = @ - 1])
    /\ UNCHANGED <<job, torn>>

\* completed: 1 or 0.
DeleteTask(completed) ==
    /\ Change
    /\ completed <= db.done
    /\ 1 - completed <= db.tasks - db.done
    /\ Recount([tasks |-> db.tasks - 1, done |-> db.done - completed])
    /\ torn' = (torn \/ job.at = "again")
    /\ UNCHANGED job

-----------------------------------------------------------------------------
(* get_project_stats and warm_cache: update_stats without the cache *)

OfJob(state) ==
    /\ job' = state
    /\ UNCHANGED <<db, recent, page, earned, torn>>

\* get_project_jobs takes the published projects.
Enqueue ==
    /\ job.at = "none"
    /\ project.published
    /\ OfJob([Idle EXCEPT !.at = "queued"])
    /\ UNCHANGED <<project, progress, memo, changes>>

\* overall_progress asks whether there are tasks ...
AnyTasks ==
    /\ job.at = "queued"
    /\ OfJob([job EXCEPT !.at = IF db.tasks = 0 THEN "load" ELSE "done"])
    /\ UNCHANGED <<project, progress, memo, changes>>

\* ... how many are completed ...
CountDone ==
    /\ job.at = "done"
    /\ OfJob([job EXCEPT !.at = "again", !.seen.done = db.done])
    /\ UNCHANGED <<project, progress, memo, changes>>

\* ... and how many there are; with none left the division fails, and the job.
CountTasks ==
    /\ job.at = "again"
    /\ OfJob(IF db.tasks = 0 THEN Idle
             ELSE [job EXCEPT !.at = "load", !.seen.tasks = db.tasks])
    /\ UNCHANGED <<project, progress, memo, changes>>

LoadProject ==
    /\ job.at = "load"
    /\ OfJob([job EXCEPT !.at = "save", !.complete = project.complete])
    /\ UNCHANGED <<project, progress, memo, changes>>

\* update_stats compares the quotient, which is not rounded.
AllDone(c) == c.tasks > 0 /\ c.done >= c.tasks

\* What the row holds after a process that loaded the flag has set it.
Written(loaded, flag) == IF flag = loaded THEN project.complete ELSE flag

\* One commit writes both rows.
Save(loaded, c) ==
    /\ progress' = Percent(c)
    /\ project' = [project EXCEPT !.complete = Written(loaded, AllDone(c))]

\* A variant of SaveStats: the flag is only ever set.
SaveStatsNeverReset ==
    /\ job.at = "save"
    /\ progress' = Percent(job.seen)
    /\ project' = [project EXCEPT !.complete = @ \/ AllDone(job.seen)]
    /\ OfJob(Idle)
    /\ UNCHANGED <<memo, changes>>

SaveStats ==
    /\ job.at = "save"
    /\ Save(job.complete, job.seen)
    /\ OfJob(Idle)
    /\ UNCHANGED <<memo, changes>>

\* The worker dies, or a statement fails.
FailJob ==
    /\ job.at # "none"
    /\ Change
    /\ OfJob(Idle)
    /\ UNCHANGED <<project, progress, memo>>

-----------------------------------------------------------------------------
(* send_weekly_stats_project: update_stats with the cache *)

\* What overall_progress makes of an n_tasks and an n_completed_tasks that are
\* memoized: of two moments, or else of one that is over.  With no tasks it is
\* 0, or fails.
Mixed(c, d) == [tasks |-> c.tasks, done |-> d.done]

SaveMixed(loaded, c, d) ==
    /\ Save(loaded, Mixed(c, d))
    /\ torn' = (torn \/ (c.tasks < d.tasks /\ NearlyAll(Mixed(c, d))))

\* The job loads the project.  It is for projects with tasks left and for
\* those that are or were featured, which is left out.
StartWeekly ==
    /\ job.at = "none"
    /\ OfJob([Idle EXCEPT !.at = "weekly", !.complete = project.complete])
    /\ UNCHANGED <<project, progress, memo, changes>>

SaveWeekly ==
    /\ job.at = "weekly"
    /\ \E c, d \in recent: SaveMixed(job.complete, c, d)
    /\ job' = Idle
    /\ UNCHANGED <<db, memo, recent, page, changes, earned>>

-----------------------------------------------------------------------------
(* A page of the project *)

OfPage(p, state) ==
    /\ page' = [page EXCEPT ![p] = state]
    /\ UNCHANGED <<db, progress, recent, job, changes, earned, torn>>

\* project_by_shortname loads the project ...
OpenPage(p) ==
    /\ page[p].at = "none"
    /\ OfPage(p, [Closed EXCEPT !.at = "ask", !.complete = project.complete])
    /\ UNCHANGED <<project, memo>>

\* ... and calls get_stats, which is memoized.
GetStats(p) ==
    /\ page[p].at = "ask"
    /\ OfPage(p, IF memo = NoValue THEN [page[p] EXCEPT !.at = "query"]
                 ELSE [page[p] EXCEPT !.at = "have", !.progress = memo])
    /\ UNCHANGED <<project, memo>>

QueryStats(p) ==
    /\ page[p].at = "query"
    /\ OfPage(p, [page[p] EXCEPT !.at = "keep", !.progress = progress])
    /\ UNCHANGED <<project, memo>>

KeepStats(p) ==
    /\ page[p].at = "keep"
    /\ memo' = page[p].progress
    /\ OfPage(p, [page[p] EXCEPT !.at = "have"])
    /\ UNCHANGED project

\* show_stats, if what it has got counts tasks and answers (which is left
\* out): update_stats with the cache.  The session has the project loaded.
ShowStats(p) ==
    /\ page[p].at = "have"
    /\ \E c, d \in recent: SaveMixed(page[p].complete, c, d)
    /\ page' = [page EXCEPT ![p].at = "saved"]
    /\ UNCHANGED <<db, memo, recent, job, changes, earned>>

\* The commit has expired what the session had loaded.
Reload(p) ==
    /\ page[p].at = "saved"
    /\ OfPage(p, [page[p] EXCEPT !.at = "shown", !.complete = project.complete])
    /\ UNCHANGED <<project, memo>>

\* The row is read again: some pages do not pass on what they have got, and
\* show_stats has it in the session unless it came out of Redis.
ReadStats(p) ==
    /\ page[p].at \in {"have", "shown"}
    /\ OfPage(p, [page[p] EXCEPT !.progress = progress])
    /\ UNCHANGED <<project, memo>>

\* A variant of ChangeComplete: more than 100 percent are asked for.
ChangeCompleteAbove(p) ==
    /\ page[p].at \in {"have", "shown"}
    /\ project' = [project EXCEPT !.complete =
                     Written(page[p].complete, page[p].progress > 100)]
    /\ OfPage(p, Closed)
    /\ UNCHANGED memo

\* check_contributing_state, and change_complete with what it says.
ChangeComplete(p) ==
    /\ page[p].at \in {"have", "shown"}
    /\ project' = [project EXCEPT !.complete =
                     Written(page[p].complete, page[p].progress >= 100)]
    /\ OfPage(p, Closed)
    /\ UNCHANGED memo

\* The page is refused, asks for a password first, or fails.
RefusePage(p) ==
    /\ page[p].at \in {"have", "saved", "shown"}
    /\ OfPage(p, Closed)
    /\ UNCHANGED <<project, memo>>

\* A variant of Expire: what is memoized stays.
NeverExpire ==
    /\ memo # NoValue
    /\ UNCHANGED vars

\* FIVE_MINUTES have passed.
Expire ==
    /\ memo # NoValue
    /\ memo' = NoValue
    /\ UNCHANGED <<db, project, progress, recent, job, page, changes, earned,
                   torn>>

\* An old count is in no entry any more and with no request: clean_project has
\* deleted it, or APP_TIMEOUT or ONE_DAY have passed.
Forget(c) ==
    /\ c \in recent \ {db}
    /\ recent' = recent \ {c}
    /\ UNCHANGED <<db, project, progress, memo, job, page, changes, earned, torn>>

-----------------------------------------------------------------------------
(* Publication and end *)

OfProject(row) ==
    /\ project' = row
    /\ UNCHANGED <<db, progress, memo, recent, job, page, changes, earned, torn>>

\* publish: a project with tasks; their states are kept.
Publish ==
    /\ ~project.published
    /\ db.tasks > 0
    /\ OfProject([project EXCEPT !.published = TRUE])

PassEndDate ==
    /\ ~project.over
    /\ OfProject([project EXCEPT !.over = TRUE])

\* update: the form with a later end_date.
ExtendEndDate ==
    /\ project.over
    /\ OfProject([project EXCEPT !.over = FALSE])

\* project_deadline
CloseOverdue ==
    /\ project.over
    /\ project.published
    /\ ~project.complete
    /\ OfProject([project EXCEPT !.published = FALSE])

-----------------------------------------------------------------------------

JobStep ==
    \/ AnyTasks
    \/ CountDone
    \/ CountTasks
    \/ LoadProject
    \/ SaveStats
    \/ SaveWeekly

PageStep(p) ==
    \/ GetStats(p)
    \/ QueryStats(p)
    \/ KeepStats(p)
    \/ Reload(p)
    \/ ChangeComplete(p)
    \/ RefusePage(p)

Next ==
    \/ CompleteTask
    \/ AddTask
    \/ ReopenTask
    \/ \E completed \in {0, 1}: DeleteTask(completed)
    \/ Enqueue
    \/ StartWeekly
    \/ JobStep
    \/ FailJob
    \/ \E p \in Pages: OpenPage(p) \/ ShowStats(p) \/ ReadStats(p) \/ PageStep(p)
    \/ Expire
    \/ \E c \in recent: Forget(c)
    \/ Publish
    \/ PassEndDate
    \/ ExtendEndDate
    \/ CloseOverdue

Spec == Init /\ [][Next]_vars

\* The scheduler queues the jobs again and again and the worker runs them, a
\* page that is begun is finished, entries of Redis expire.  Nobody has to
\* open a page, to complete a task or to publish.
FairSpec ==
    /\ Spec
    /\ WF_vars(Enqueue)
    /\ WF_vars(JobStep)
    /\ \A p \in Pages: WF_vars(PageStep(p))
    /\ WF_vars(Expire)
    /\ WF_vars(\E c \in recent: Forget(c))
    /\ WF_vars(CloseOverdue)

-----------------------------------------------------------------------------
(* Properties *)

\* However old the statistics that a page writes back or the memoized counts
\* that the page of the statistics and the weekly mail compute with, and
\* whatever is reopened meanwhile: the flag is set only on a project of which
\* nearly all tasks (99.5 percent, which the column rounds to 100) were
\* completed at some moment, or else after someone divided the completed tasks
\* by fewer tasks than there were when these were counted - a task was deleted
\* between the two counts of a job, or added or deleted between two counts of
\* which one or both are memoized.
CompleteWasEarned == project.complete => earned \/ torn

\* What counts say clearly: all is done, or not even nearly all.
Says(c, complete) == IF complete THEN AllDone(c) ELSE ~NearlyAll(c)

\* Every copy of the statistics, those on their way included, says the same of
\* the project as its tasks do, and so do the memoized counts, whichever two of
\* them come together.
Agreed(complete) ==
    /\ \A c, d \in recent: Says(Mixed(c, d), complete)
    /\ project.complete = complete
    /\ (progress >= 100) = complete
    /\ memo # NoValue => (memo >= 100) = complete
    /\ \A p \in Pages: page[p].at \in {"keep", "have", "saved", "shown"} =>
                         (page[p].progress >= 100) = complete
    /\ job.at = "again" => Says([job.seen EXCEPT !.tasks = db.tasks], complete)
    /\ job.at \in {"load", "save"} => Says(job.seen, complete)

\* Once the flag, the statistics, the cache, the memoized counts, the pages and
\* the job agree with the tasks, only a change of the tasks can end that: no
\* page that opens, the one of the statistics included, no job that counts
\* again, mails or fails, no entry that expires brings an older verdict back,
\* whatever the processes had loaded of the row.
AgreementLasts ==
    [][\A complete \in BOOLEAN:
          Agreed(complete) /\ db' = db => Agreed(complete)']_vars

\* A published project whose tasks are all completed, and stay so, becomes
\* complete for good, whatever pages with older statistics had reset it.
FinishedIsComplete ==
    <>[](project.published /\ AllDone(db)) => <>[](project.complete)

\* A project with tasks left is not kept open for ever after its end date by a
\* flag that was right once: statistics and pages come to reset it.
OverdueCloses ==
    ~ <>[](project.over /\ project.published /\ ~NearlyAll(db))

=============================================================================
