# wisedome: verification models

wisedome is a fork of PyBossa: a crowdsourcing server (Flask, PostgreSQL
through SQLAlchemy, Redis, RQ workers) that hands tasks to volunteers, collects
their answers ("task runs"), completes a task when it has enough of them, makes
a result of them, and pays points that contributors exchange for money.  This
directory holds TLA+ models of its core, the TLC runs that check them, and
TLAPS proofs about them.  Source paths are relative to `src/pybossa/`.

## Inventory

| part | state it keeps | operations | with whom it interacts |
|---|---|---|---|
| task completion (`model/event_listeners.py`, `repositories/task_repository.py`, `auth/taskrun.py`, `api/api_base.py`) | rows of `task`, `task_run`, `result` | POST/DELETE of a task run, PUT of a task, redundancy, publish | the scheduler (`after_save` inside the transaction), the webhook queue, points |
| locked scheduler (`sched.py`, `redis_lock.py`, `contributions_guard.py`, `api/task_run.py`) | a Redis hash of locks per task, a stamp per user and task | GET newtask, the checks of POST taskrun, release | reads what task completion commits |
| task presenter (`themes/wisedome_theme/static/js/pybossa/pybossa.js`) | the task on the screen and the one fetched ahead, per browser tab | fetch, present, save, go on | GET newtask, POST taskrun |
| other schedulers (`sched.py`) | `counter` rows | breadth first, depth first, incremental | counters written by event listeners; the presenter asks them |
| points (`task_repository.py`, `point_repository.py`, `jobs.py`) | `point` rows, `task_run.point` | scoring after each answer, manual scoring, re-scoring after an edit | called by the API after the run's commit, and by jobs |
| exchange (`view/account.py`, `view/admin.py`) | `exchange` rows | request, pay, refuse | point rows |
| cache (`cache/`) | memoized values in Redis | memoize, invalidate | every repository, after its commit |
| statistics (`cache/project_stats.py`) | a row per project, memoized for five minutes | update, read | jobs and the page of the statistics write them, pages of a project read them and set its flag complete |
| jobs (`jobs.py`, `importers/`) | queues, counts of retries | retry, import, webhook, periodic jobs | everything |
| rate limit, OTP | counters and codes in Redis with a time to live | count, create, check | API, sign in |
| project life cycle (`project_repository.py`, `cache/helpers.py`, `view/projects.py`) | `project` rows | publish, complete, deadline, featured | statistics, the scheduler's redirects |
| favourites, accounts, views, exports, leaderboards, uploads | rows of one request each | | |

What is hard: web workers are processes; a request is a sequence of SQL
statements at READ COMMITTED and of single Redis commands, and any two
interleave at each of them.  Redis is written inside SQL transactions that may
still fail.  Redis expires keys on its own.  Operations that a user sees as one
(publish, exchange, answer and score) are several transactions.  The hazards
are listed with their lines in `PROJECT.json`.

What makes each part correct: completion - a task with its answers is
completed, has one current result, and results lose no answers; locks - no more
users work on a task than it wants answers, locks end, and hold while they are
valid; presenter - no task is shown twice, none is passed over, and an answer
is followed by the next task; points - a scoring file pays a run once; exchange
- no more is paid out than was taken from a balance, and no balance goes below
zero; cache - a value is wrong for no longer than its timeout; life cycle - the
flag complete is earned, and a project that is over is closed.

## Modules

| module | what it is |
|---|---|
| `TaskCompletion` | one task: its submissions, result versions and administrative operations |
| `ResultHistory` | what a task promises: answers and results evolve by single steps |
| `LockedSched` | one task of the locked scheduler: locks, stamps, requests and time |
| `Presenter` | the loop of pybossa.js in the tabs of a contributor, with the depth-first scheduler that serves it |
| `Points` | the points of a contributor: scoring, the scoring jobs, exchange and refund |
| `Ledger` | what the points promise: they move by single entries, and stay within what was earned |
| `ProjectCache` | memoized counts of a project and the progress derived from them |
| `ProjectLife` | tasks, statistics, the flag complete, publication and the deadline of a project |
| `MC...` | instances of each for TLC |
| `...Proofs` | theorems about each |
| `SumLemmas` | sums over finite sets, which the proofs about `Ledger` and `Points` rest on |

They meet where one's variable is another's input: `Presenter` asks for tasks
that `TaskCompletion` completes; `Points` scores the runs it stores; `ProjectLife`
and `ProjectCache` count the tasks it completes, and `ProjectLife` takes from the
cache which counts may be old (`recent`).  Each module keeps the part of
the other that it reads as a set or a number that may change at any step, so a
property of a module does not rest on what it leaves to another one.

### TaskCompletion

A session is a request that a web worker serves.  The variables hold the
committed rows; what a transaction has read or written is in the session's
record `tx[s]` until it commits.  One action is one SQL statement that another
transaction could see or wait for:

| action | code |
|---|---|
| `Authorize` | `TaskRunAuth._create` counts the user's runs |
| `Insert` | INSERT of the run; `is_task_completed` counts runs |
| `Count` | `is_task_completed` reads n_answers and compares |
| `MarkCompleted` | `update_task_state`, which takes the row lock of the task |
| `CreateResult` | `create_result` and `push_webhook` |
| `Commit`, `Rollback` | end of `TaskRepository.save` |
| `AuthorizeDelete`, `DeleteRun` | DELETE of a task run |
| `LoadTask`, `EditTask` | PUT of a task: load, then write what was computed |
| `UpdateRedundancy`, `CommitRedundancy` | redundancy of the whole project |
| `ReadUnpublished` .. `ClearResults` | the transactions of `publish` |

The UPDATE of the project row (`update_project`) comes after the listeners and
orders commits only; it is part of `Commit`.  Deleting the webhook rows, the
last step of `publish`, changes nothing the model has.  A transaction whose
write does not depend on what it reads under the row lock (`EditTask`) is one
step at its commit.

`ResultHistory` is the abstract specification.  Its variables are the ids of
the stored answers and the versions of the result; a version is stored in the
same step as the answer that completes the task, follows every version before
it, lists every answer they list that is still stored, and is the only last
one.  `TaskCompletion` implements it with `answers <- RunIds`: every statement
but the commits and deletions is a stutter, and what `create_result` read several
statements earlier is still good enough at the commit.  What the abstraction
leaves open is real: a version may miss an answer committed after `create_result`
looked, and may list one deleted since.

### LockedSched

One task.  `locks` maps each user in the Redis hash to the time left of its
lock, `ttl` is the time to live of the hash, `stamps` the time left of each
user's stamp.  One action is one Redis command (or one MULTI); `Tick` passes
time and lets Redis expire keys.  A request computes its expiration when it
starts, so the time left ages while it runs.

| action | code |
|---|---|
| `Ask` | the candidates of `get_locked_task` and the limit of each |
| `FindExpired`, `Purge` | `_release_expired_locks`: HGETALL, then HDEL |
| `Look`, `Length`, `SetLock` | `acquire_lock`: HEXISTS, HLEN, HSET+EXPIRE |
| `Stamp` | the stamp of `api.new_task` |
| `Submit`, `ReadLock` | `has_lock`: HEXISTS, then HGET |
| `CheckStamp`, `TakeStamp` | the guard in `TaskRunAPI._update_object` |
| `Authorize`, `Flush`, `Commit`, `Rollback` | the transaction; `after_save` releases the lock inside it |

### Presenter

The page of a project calls `pybossa.run`, a chain of two deferreds:
`nextLoaded` (the task fetched ahead) and `taskSolved`.  `tab[p]` holds the task
on the screen, those shown before it, and where each deferred stands.

| action | code |
|---|---|
| `Open` | the page of newtask or of one task, and `run` |
| `FetchTask`, `FetchNewTask`, `FetchSecond` | `getNextTask`: the task in the address, newtask, newtask at the next offset if the same task came |
| `TaskLoaded`, `Loop` | the callbacks of `loop` |
| `SaveTask`, `StoreAnswer`, `Resolve` | `saveTask`, POST taskrun with its stamp, the deferred |
| `OthersComplete`, `StampExpires`, `LoseFetch`, `LoseAnswer` | other contributors, Redis, the network |

A newtask request is one step: query and stamp are in one request that writes
nothing else.  The response `{}` is `Empty`, which the code loads and presents
like a task.  Tabs share the answers and the stamps, which are per user.

### Points

`point` is the Point row of one contributor.  Each session of a web worker and
the job of the one rq worker run transactions that load the row and write what
they computed; the configuration templates (`contrib/pybossa.ini.template`: 2
processes of 2 threads; `contrib/supervisor/rq-worker.conf.template`) run them
at the same time.  A run that a transaction has flushed is locked to others
(`Locked`): the query for the Point row flushes first.

| action | code |
|---|---|
| `Score`, `CommitScore`, `ScoreOther` | `task_update_point` and `user_point_update` |
| `Upload`, `StartJob`, `Find`, `ReadPoints`, `Pay`, `MarkWrong`, `FinishJob`, `CrashJob` | the jobs `image_results_scoring` and `self_scoring` |
| `Request`, `ReadBalance`, `CommitDeduction`, `SaveExchange` | POST of an exchange: check, `point_repo.exchange`, `exchange_repo.save` |
| `Accept`, `ReadRefund`, `CommitRefund`, `MarkRefused` | the administrator's decision |
| `Fail` | a request ends between two of its transactions |

`lost`, `overlap`, `paid` and `refunds` are history variables; no guard reads
them.

`Ledger` is the abstract specification: a balance, what was earned, and a claim
for each exchange.  An entry earns points, takes them for a request on which
nothing is owed, gives them back, or writes them off; the balance and the claims
together are never more than what was earned.  `Points` implements it
(`LedgerKept`) with `point.current` for the balance, `point.sum` for what was
earned, and for the claim of an exchange (`Owed`) what the request that has taken
the points and not stored the row yet was for, or what the row says less each
refund.  `SaveExchange`, `Accept` and `MarkRefused` are stutters, and a request
that fails after `CommitDeduction` writes its claim off: the contributor loses
the points.  A repeated refusal gives back again and leaves a negative claim.  A
commit that overwrites another ends the promise (`lost`).

### ProjectCache

`cache` holds the entries of `n_tasks`, `n_completed_tasks` and
`overall_progress` with the time left of each.  A call asks Redis (`Look`,
`Get`), the database (`Query`), and stores (`Keep`, `Store`); `overall_progress`
calls `n_tasks`, `n_completed_tasks` and `n_tasks` again, each memoized itself.
Two functions are named `n_tasks`, and a key has the name only: `"day"` is the
one of `project_stats`, which stores for a day under the key of the other.
`Commit` changes the tasks, one count or both (a completed task is deleted);
`DeleteMemoized` is one deletion of `clean_project`.
`Tick` passes time.  `doubt` and `raced` are history.

### ProjectLife

| action | code |
|---|---|
| `CompleteTask`, `AddTask`, `ReopenTask`, `DeleteTask` | what other requests do to the tasks |
| `Enqueue`, `AnyTasks`, `CountDone`, `CountTasks`, `LoadProject`, `SaveStats` | `get_project_stats` and `warm_cache`: `update_stats`, which computes without the cache and sets complete |
| `StartWeekly`, `SaveWeekly` | `send_weekly_stats_project`: `update_stats` with memoized counts, in the same worker |
| `ShowStats`, `Reload` | the page of the statistics: `update_stats` with memoized counts, and what the session loads again after that commit |
| `OpenPage`, `GetStats`, `QueryStats`, `KeepStats`, `ReadStats`, `ChangeComplete` | a page: `project_by_shortname`, the memoized `get_stats`, `check_contributing_state` with `change_complete` |
| `Publish`, `PassEndDate`, `ExtendEndDate`, `CloseOverdue` | publish, time, the form, `project_deadline` |
| `Expire`, `Forget`, `FailJob` | Redis and `clean_project`, the worker |

The ORM writes a column only where it differs from what was loaded (`Written`):
a page that loaded complete before a job changed it may leave the job's value,
or write over it.  The progress goes through an Integer column, which rounds it
(`Percent`), while `update_stats` compares the quotient itself (`AllDone`).  Of the
column the code only asks whether it is 100 or more, so `Percent` is 100 or 0.

The jobs that compute the statistics every now and then switch memoize off.  The
page of the statistics (`show_stats`) and the weekly mail do not: they run the
same `update_stats` on what `n_tasks`, `n_completed_tasks` and `overall_progress`
answer.  `recent` is the set of the counts that these three may still answer with:
those of now, and those of before that an entry or a request on its way holds.
It grows with every change of the tasks and loses old counts at any time
(`Forget`), and what is computed is made of any two of it (`Mixed`): the number of
tasks of one moment and of completed ones of another.  This stands for the
protocol of `ProjectCache` and allows more than it does, so that what holds here
holds for the cache.  Whether the page finds that there are tasks and answers,
its condition to compute at all, is a choice too.  Counting and saving are one
step there, as a request that has counted is one that still holds the counts.

## Runs

| run | what it asks | answer |
|---|---|---|
| `task_completion` | 3 requests of 2 users, 3 posts, n_answers 1 or 2, every administrative operation | the safety properties hold; the history is one of single steps (`ResultsEvolve`); the holder of the row does not wait |
| `task_submissions` | the same requests, n_answers 2, 4 posts, edits that keep n_answers | completed tasks have their result; every request ends |
| `lost_completion` | is a task with its answers completed once no request is left? | no: two submissions that overlap do not count each other |
| `locked_sched` | 3 users, 2 workers, locks of 3 ticks, 1 answer, transactions may fail | the hash outlives its locks; locks are bounded |
| `lock_expiry` | 2 users who may ask for ever | every lock ends |
| `lock_lifetime` | does a valid lock stay until it expires? | no: a late HDEL removes a lock set anew |
| `presenter` | 2 tabs, 3 tasks, others complete 2 of them, stamps expire, requests get lost | no page shows a task again; at most two tasks are left behind; an answer is followed by the next task |
| `early_finish` | one tab, nobody else, no failure: are all tasks done when the page says so? | no: the second try, at its fixed offset, passes over the last one |
| `points` | 2 sessions, the jobs, 2 runs, 2 exchanges, 5 operations | a file pays a run once; below zero only by an overlap; what is to be paid out was taken before; every commit is an entry of the ledger |
| `overdraft` | does the balance stay above zero? | no: two requests compare with it before either reduces it |
| `project_cache` | 2 readers, a writer, a change of one count or of both, failed clean-ups | a wrong entry comes from a race or a failed clean-up only, and goes away |
| `project_life` | projects of 1, 150 and 200 tasks with one left; a task added, deleted or reopened, or a failed job; one page, which may compute with memoized counts | complete is earned, or counts of two moments were torn apart; once all copies agree only the tasks change that; a finished project ends with it; a project with tasks left is closed after its end |

The four questions answered "no" are what a docstring, a template or a message
of the repository says; `findings` in `PROJECT.json` quotes each.

### What the runs show besides

- `LocksBounded` and `AnswersBoundedByRequests` are tight: HLEN and HSET are two
  commands, so with two workers two users hold locks for one answer; a user with
  two requests open gets two answers in.
- A draft project's answers may survive publication: the project is public after
  the first of four transactions.  The modelled interleavings keep every other
  property.
- `FewLeftBehind` is tight too: a page opened at the address of the second of
  three tasks leaves two behind, if its answer is stored between the two tries.
- From 200 tasks on, pages see a project with one task left as complete
  (99.5 percent, rounded), while the job says that it is not; which of the two
  the row holds changes with every page and job.  `CompleteWasEarned` therefore
  says "nearly all", and `OverdueCloses` is about projects with more than that
  left.  `AgreementLasts` says nothing of such projects either: of one task left
  in 200 the job and the pages never agree.
- A project that is never finished is closed although pages write back old
  statistics: the entry of `get_stats` expires, and the job runs again.
- The exception in `CompleteWasEarned` (`torn`) is needed.  A request asks for
  `n_tasks` of a project with one task; a second task is added, and one of the two
  is completed; both clean the cache; the request stores the one it has counted.
  The page of the statistics then divides 1 by 1 and sets complete, with one of
  two tasks done and nothing deleted.  A smaller number of tasks than there were
  when the completed ones were counted is what it takes; a larger one, or an old
  number of completed tasks, never sets the flag unearned.  The job that counts
  without the cache can only do it if a task is deleted between its two counts.
  The flag stays so until the counts are forgotten or the job has run.

### Bounds

`TaskCompletion`: two requests of one user and one of another are the fewest
that let a user race with itself and with somebody else; three posts and
redundancies 1 and 2 let a task be completed, reopened or made larger, and
completed again while another submission runs.  `task_submissions` takes four
posts so that a task of two answers gets two surplus ones.

`LockedSched`: three users on two workers are the fewest for a lock beyond the
limit and beyond the bound; a lock of three ticks with a grace of one is live,
in its grace, at its limit and past it within one request.

`Presenter`: three tasks are the fewest that have a first, a second and a third
offset; with two tabs and two opened pages the tabs answer each other's tasks,
or one page is opened after the other.

`Points`: two sessions make an update lost and requests overlap; two runs let a
job die between them; five operations are enough for a scoring, two requests,
a refund and a repeated refund, or an upload, two starts and two scorings.  A
rate and an amount of one are the least values; the balance counts them.

`ProjectCache`: `overall_progress` reads two counts, so one reader and one
change between its steps are the least; the second reader finds what the first
has stored.  One task and one commit distinguish right from wrong.  A timeout of
one tick for counts and two for the day keeps their order.

`ProjectLife`: 150 tasks with one left are below 99.5 percent, 200 are at it, 1
goes from nothing to all; one change enlarges a project or lets a completed one
be reopened or lose a task, and tasks that are completed before and after it
make three or four recent counts.  With two changes there are more than ten
times as many states: the safety properties pass with them too on the projects
of 1 and of 200 tasks (17 million states).

The safety proofs do without any of these bounds.

Symmetry: the two sessions of one user are interchangeable (`AliceSymmetry`), in
`LockedSched` users and workers are, in `Points` sessions and exchanges; it is
used only where no liveness property is checked.

Deadlock is not checked where the program may stop: posts, operations, opened
pages and changes are bounded, and nothing has to happen afterwards.  In
`LockedSched` time always passes.

### Fairness

- Requests on a task: a worker runs the request it has started, so each step
  that waits for nobody is weakly fair.  The steps that wait for the row lock of
  the task (`MarkCompleted`, `EditTask`) are strongly fair: PostgreSQL queues
  the waiters of a row.  Starting a request and failing are not fair.
- Locks and cache entries: only time is fair; a request may hang for ever.
  `LockEnds` is checked with transactions that do not fail: each failure after a
  release would give its user a grace period again, and a client that fails for
  ever could keep that up.
- Presenter: the browser runs the callbacks that are due, and a request that is
  not lost is served (`Run`).  Nobody has to answer.  A lost fetch stops the loop
  for good, as in the code, which registers no failure callback: `AnswerGoesOn`
  excepts a loop in that state.
- Project: the scheduler queues the periodic jobs again and again and the worker
  runs them; a page that is begun is finished; Redis expires its entries, and so
  an old count is forgotten in the end (`Forget`): a request does not take as long
  as an entry lives, and `NoStaleForever` says that no entry is prolonged.  Nobody
  has to open a page, complete a task or publish, and no mail has to be sent.

## Proofs

TLAPS checks, for every value of the constants that the named assumptions of
the modules allow:

`TaskCompletionProofs` (`SessionsAssumption`, `BoundsAssumption`: the sessions
are finitely many and each has a user; n_answers is positive)

- `TypeCorrect`: `Spec => []TypeOK`.
- `OneLastVersion`: `Spec => []UniqueLastVersion`.  Not inductive: it needs
  `RowHeld` (who has marked the task, or has a result to commit, holds its
  row) and `DemotesLast` (the result to commit demotes every current last
  version).  As the row has one holder, no second result is under way.
- `ResultsAnnounced`: `Spec => []EveryResultAnnounced`, with the results still
  to be committed.
- `AnswersBounded`: `Spec => []AnswersBoundedByRequests`: stored answers of a
  user plus its requests past the check never exceed its requests (`QuotaInv`).
- `AnswersKept`: `Spec => []NewerResultKeepsAnswers`, from `KeepsInv`: ids are
  below their sequences, an uncommitted run is known to nobody else, and the
  result to be committed is newer than the stored ones and lists the answers
  they list.  It uses `RowHeld` too.
- `HistoryKept`: `Spec => ResultsEvolve`, that is, `TaskCompletion` implements
  `ResultHistory`.  From the invariants above a commit without a result maps to
  `AddAnswer`, one with a result to `NewVersion` (`CommitHistory`): `RunsPrivate`
  makes the answer fresh, `DemotesLast` makes the demotion of the versions seen
  one of all, `NextKeepsAnswers` makes the version follow the others.
- `HolderNeverWaitsAlways`: `Spec => []HolderNeverWaits`.  It is inductive with
  the types.  It is the safety half of `RequestsEnd`: no cycle of requests that
  wait for the row can form; that each gets it is left to fairness.
- `CompletedTaskHasResult`: `Spec => []CompletedWithResult` where n_answers never
  changes and nothing is deleted (`Lasting`), from `CompletedInv`: runs have ids
  of their own, none goes away, and what a request has counted is still there
  when it marks the task.

`LockedSchedProofs` (`LimitsAssumption`: finitely many workers, a grace within
the duration)

- `TypeCorrect`, with the fact that a request in progress has a user.
- `KeyOutlives`: `Spec => []KeyOutlivesLocks`.
- `LocksStayBounded`: `Spec => []LocksBounded`, from `RoomInv`: the users that
  hold a lock together with those whose request may still set one stay within
  n_answers plus the workers less one.  Only the comparison with HLEN lets in
  another user, and it does while fewer than n_answers hold locks.
- `ValidWhenServedInTurn`: `Spec => ValidUntilExpired` where there is one worker.
  The run `lock_lifetime` refutes this property for two; the theorem says that
  an overlap is what it takes, whatever the users, durations and failures: alone,
  what HGETALL found past its expiration still is at the HDEL (`PurgesExpired`).

`PresenterProofs` (`ProjectAssumption`)

- `TypeCorrect`.
- `PresentedOnceAlways` and `FewLeftBehindAlways`, from `LoopOK` for each tab:
  what was shown before, and the task whose answer is stored, is answered and
  so no candidate (`PastOK`, `SolvedOK`); the second try is made while the task
  on the screen is one of the first two (`SecondOK`); so the task fetched ahead is
  a new one, and where there was none at the offset asked for at most two
  candidates are left (`NextOK`, `EmptyOK`), which others only make fewer.

`PointsProofs` (`PointsAssumption`)

- `TypeCorrect`.
- `PaidOnceAlways`: from `Paying`: a run that a count has paid is marked in the same
  transaction, nothing unmarks it, and the run the job has found is not paid yet.
- `OverdrawnOnlyByOverlapAlways`: from `Covered`: without a lost update and an
  overlap, the one request past its check is covered by the balance.
- `LedgerKeptAlways`: `Spec => LedgerKept`, the refinement of `Ledger`, action by
  action in `Entry` (`OwedKept`, `OwedChanged`: a step changes the claim of one
  exchange or of none).  It needs `Pending`: a request that has an exchange to itself finds
  no row of it and no other request at it, rows exist only for what was taken,
  and a row that was never stored was never refunded.
- `AccountedForAlways`: `Spec => []AccountedFor`, a sum over all exchanges, however
  many.  Nothing about `Points` is proved here: it is `BalancedAlways` of the
  ledger, instantiated at the refinement.
- `SpendsWhatHeEarnedAlways`: from the same, since a claim is negative only after
  a second refund, and a sum of claims that are not is not (`SumOfNats`).

`LedgerProofs`: `BalancedAlways`, `Book => []Balanced` for every finite set of
requests.  Each entry changes one claim and the balance by amounts that cancel
or lower the whole.

`SumLemmas`: what `SumFunction` of the community modules, a fold that chooses an
element at a time, is on a finite set: an integer (`SumOfInts`), changed by as
much as one term is (`SumOfChanged`), not negative if no term is (`SumOfNats`).
The induction theorems of the library take an operator as a parameter and cannot be
used; instead each claim is proved by a smallest set that violates it
(`SmallestSet`, from the well-foundedness of inclusion), which has an
element to remove.  That a fold has a value at all is proved the same way
(`SolutionExists`, `SolutionsAgree`).

`ProjectCacheProofs` (`CacheAssumption`)

- `TypeCorrect`.
- `UndisturbedRightAlways`: from `CacheRight`: what an undisturbed reader has
  seen so far, and what it is about to store, is what the database says.
  Commits may change one count or both.

`ProjectLifeProofs` (`LifeAssumption`: the counts a project starts with are
counts, no more completed than there are)

- `TypeCorrect`.
- `CompleteWasEarnedAlways`: from `AllEarned`: wherever a value of 100 is on its
  way - in the row, the cache, a page, the counts of the job, each of the
  recent counts - it was earned.  For two counts of different moments it is
  `SaveMixedEarned`: completed tasks that are nearly all of no fewer tasks than
  there were when they were counted were nearly all of these, and if it were fewer
  `torn` says so.  `RoundedTo100` says which counts round to 100.
- `AgreementLastsAlways`: `Spec => AgreementLasts`.  `Agreed` is kept by every step
  that leaves the tasks alone: what the job computes from agreeing counts
  (`Verdict`, `JobAgrees`), what the mail and the page of the statistics compute
  from any two recent counts (`RecentAgrees`, `SaveMixedAgreed`) and what a page
  writes back (`PageAgrees`) is what is in the row already.

Only model-checked: the liveness properties `RequestsEnd`, `LockEnds`,
`AnswerGoesOn`, `NoStaleForever`, `FinishedIsComplete` and `OverdueCloses`: liveness
under fairness is out of the prover's reach.  Every safety property of a run that
passes is a theorem.

## Not modelled

- Task completion: the text of a run and its edit, deletion of a task.
- Locked scheduler: several tasks at once (their locks are separate keys), the
  list of active users, the order of candidates.
- Presenter: breadth first (a sum over counters) and incremental (a random
  choice) in place of depth first, several clicks on one button.
- Points: which answer is right (a choice in the model), the rounding of the
  rate for featured projects and the count of tasks it is read from, `down_check`,
  the view `score3` (it reads a file that nothing writes), negative amounts.
- Cache: `cache()` and the other memoized functions, which follow the same
  protocol one key at a time.
- Project life: featured, the other columns of the statistics, the deletion of
  a project, the warning of old projects (commented out).
- Rate limit, one-time passwords, favourites, accounts, API resources other than
  tasks and runs, listings, leaderboards, imports, exports, uploads, the other
  jobs and the set-up: rows of one request, single queries, or calls of other
  services; `PROJECT.json` gives the reason for each.
- The environment: replication lag of the database and of Redis, loss of Redis
  data, deadlocks of SQL transactions that PostgreSQL breaks (a failure, which
  is modelled), clocks that disagree.
- The scripts of the themes other than `pybossa.js`: most of the JavaScript in
  the repository by size is DataTables, OWL Carousel, jquery.steps, pdf.js, swipe
  and bundles of them, third-party or generated code and page effects without a
  protocol of this program.  The logic modelled here is in Python, and the
  Python code each definition stands for is named in `map` of `PROJECT.json`.
