------------------------------- MODULE Points -------------------------------
(***************************************************************************)
(* The points of one contributor: his Point row, which scorings of tasks,  *)
(* the scoring jobs, his exchange requests and the administrator's         *)
(* decisions on them all change.                                           *)
(*                                                                         *)
(* Every change reads the row and writes absolute values at the commit of  *)
(* its transaction (READ COMMITTED), so that an update in between is lost. *)
(* A session that flushed a run keeps the run's row locked until then.     *)
(* Requests and jobs may fail between any two commits.                     *)
(***************************************************************************)
EXTENDS Integers, FiniteSets, Functions

CONSTANTS
    Sessions,       \* database sessions of the web workers
    NRuns,          \* the contributor's runs, one task each
    Rate,           \* what a task of the project pays
    Count,          \* how many of them the results file calls right
    Exchanges,      \* rows of table exchange that may be created
    Amounts,        \* what he may ask for
    MaxOperations   \* bound: requests, uploads and starts of a job

Runs == 1..NRuns
NoRun == 0

ASSUME PointsAssumption ==
    /\ NRuns \in Nat
    /\ Rate \in Nat \ {0}
    /\ Count \in Nat
    /\ IsFiniteSet(Exchanges)
    /\ Amounts \subseteq Nat \ {0}
    /\ MaxOperations \in Nat

\* What the two kinds of file hold: how many answers are right, for
\* image_results_scoring, or which runs are, for self_scoring.
Kinds == {"count", "runs"}

VARIABLES
    point,      \* his Point row
    run,        \* point and completed_score of his runs
    exchange,   \* the rows of exchange
    files,      \* the uploaded files that are still there
    web,        \* what each session does
    job,        \* what the worker does
    operations, \* how many requests, uploads and jobs there were
    lost,       \* history: a commit wrote over one it had not read
    overlap,    \* history: two of his requests for exchange overlapped
    paid,       \* history: how often the count of a file paid each run
    refunds     \* history: how often each request was paid back

vars == <<point, run, exchange, files, web, job, operations,
          lost, overlap, paid, refunds>>

Row == [current: Int, sum: Nat]

Idle == [op |-> "idle"]

Web ==
    {Idle}
    \cup [op: {"scoring"}, run: Runs, read: Row]
    \cup [op: {"checked"}, exchange: Exchanges, amount: Amounts]
    \cup [op: {"deducting"}, exchange: Exchanges, amount: Amounts, read: Row]
    \cup [op: {"deducted"}, exchange: Exchanges, amount: Amounts]
    \cup [op: {"refunding"}, exchange: Exchanges, read: Row]
    \cup [op: {"refunded"}, exchange: Exchanges]

\* left: the runs the job has still to look at; at: the one it works on,
\* found (and not scored yet), then read with its user's points; right: how
\* many the job has counted.
Job == [file: Kinds \cup {"none"}, left: SUBSET Runs, right: Nat,
        at: Runs \cup {NoRun}, step: {"look", "found", "read"}, read: Row]

NoJob == [file |-> "none", left |-> {}, right |-> 0, at |-> NoRun,
          step |-> "look", read |-> [current |-> 0, sum |-> 0]]

TypeOK ==
    /\ point \in Row
    /\ run \in [Runs -> [point: {0, Rate}, completed: BOOLEAN]]
    /\ exchange \in [Exchanges -> [state: {"none", "requested", "accepted",
                                           "refused"},
                                   amount: Amounts \cup {0}]]
    /\ files \subseteq Kinds
    /\ web \in [Sessions -> Web]
    /\ job \in Job
    /\ operations \in 0..MaxOperations
    /\ lost \in BOOLEAN
    /\ overlap \in BOOLEAN
    /\ paid \in [Runs -> Nat]
    /\ refunds \in [Exchanges -> Nat]

\* _create_point gives a new user an empty row.
Init ==
    /\ point = [current |-> 0, sum |-> 0]
    /\ run = [r \in Runs |-> [point |-> 0, completed |-> FALSE]]
    /\ exchange = [e \in Exchanges |-> [state |-> "none", amount |-> 0]]
    /\ files \in SUBSET Kinds
    /\ web = [s \in Sessions |-> Idle]
    /\ job = NoJob
    /\ operations = 0
    /\ lost = FALSE
    /\ overlap = FALSE
    /\ paid = [r \in Runs |-> 0]
    /\ refunds = [e \in Exchanges |-> 0]

Operation ==
    /\ operations < MaxOperations
    /\ operations' = operations + 1

Become(s, w) == web' = [web EXCEPT ![s] = w]

-----------------------------------------------------------------------------
(* The Point row *)

\* user_point_update, committed: read is what the transaction loaded.
Credit(read) ==
    /\ point' = [current |-> read.current + Rate, sum |-> read.sum + Rate]
    /\ lost' = (lost \/ point # read)

\* point_repo.exchange, committed: only current_point has changed.
Deduct(read, amount) ==
    /\ point' = [point EXCEPT !.current = read.current - amount]
    /\ lost' = (lost \/ point.current # read.current)

\* The runs whose rows a transaction has updated and not committed; the
\* statement of self_score updates those of the earlier runs as well.
LockedBy(s) == IF web[s].op = "scoring" THEN {web[s].run} ELSE {}

JobLocks ==
    IF job.step # "read" THEN {}
    ELSE IF job.file = "runs" THEN 1..job.at ELSE {job.at}

Locked == JobLocks \cup UNION {LockedBy(s): s \in Sessions}

-----------------------------------------------------------------------------
(* task_update_point, after an answer completes the task of the run or the *)
(* owner modifies an answer of it                                          *)

\* The transaction waits for the rows of the task's runs, and then reads the
\* points of the user.
Score(s, r) ==
    /\ web[s] = Idle
    /\ r \notin Locked
    /\ Operation
    /\ Become(s, [op |-> "scoring", run |-> r, read |-> point])
    /\ UNCHANGED <<point, run, exchange, files, job, lost, overlap,
                   paid, refunds>>

\* A variant of CommitScore: the points of the run are added up.
CommitScoreAdding(s) ==
    /\ web[s].op = "scoring"
    /\ Credit(web[s].read)
    /\ run' = [run EXCEPT ![web[s].run] =
                 [point |-> run[web[s].run].point + Rate, completed |-> TRUE]]
    /\ Become(s, Idle)
    /\ UNCHANGED <<exchange, files, job, operations, overlap, paid, refunds>>

\* The answer is in the largest group; scored before or not.
CommitScore(s) ==
    /\ web[s].op = "scoring"
    /\ Credit(web[s].read)
    /\ run' = [run EXCEPT ![web[s].run] = [point |-> Rate, completed |-> TRUE]]
    /\ Become(s, Idle)
    /\ UNCHANGED <<exchange, files, job, operations, overlap, paid, refunds>>

\* It is not: its points are reset, or set without a credit when all the
\* answers differ and another one came first.
ScoreOther(s, r, p) ==
    /\ web[s] = Idle
    /\ r \notin Locked
    /\ Operation
    /\ run' = [run EXCEPT ![r].point = p]
    /\ UNCHANGED <<point, exchange, files, web, job, lost, overlap,
                   paid, refunds>>

-----------------------------------------------------------------------------
(* image_results_scoring and self_scoring *)

\* results_upload, or a file put under uploads/projects.
Upload(kind) ==
    /\ kind \notin files
    /\ Operation
    /\ files' = files \cup {kind}
    /\ UNCHANGED <<point, run, exchange, web, job, lost,
                   overlap, paid, refunds>>

StartJob(kind) ==
    /\ job = NoJob
    /\ kind \in files
    /\ Operation
    /\ job' = [NoJob EXCEPT !.file = kind, !.left = Runs]
    /\ UNCHANGED <<point, run, exchange, files, web, lost, overlap,
                   paid, refunds>>

\* A variant of AlreadyScored: completed_score is not looked at.
NeverScored(r) == FALSE

\* score_by_json passes over such a run; self_score scores it again.
AlreadyScored(r) == job.file = "count" /\ run[r].completed

Find(r) ==
    /\ r \in job.left
    /\ job.step = "look"
    /\ job' = IF AlreadyScored(r)
              THEN [job EXCEPT !.left = @ \ {r}]
              ELSE [job EXCEPT !.at = r, !.step = "found"]
    /\ UNCHANGED <<point, run, exchange, files, web, operations, lost,
                   overlap, paid, refunds>>

Done(r) == [job EXCEPT !.left = @ \ {r}, !.right = @ + 1,
                       !.at = NoRun, !.step = "look"]

\* The query for the Point row flushes the run first, and so waits for it.
ReadPoints ==
    /\ job.step = "found"
    /\ job.file = "count" => job.right < Count
    /\ (IF job.file = "runs" THEN 1..job.at ELSE {job.at}) \cap Locked = {}
    /\ job' = [job EXCEPT !.step = "read", !.read = point]
    /\ UNCHANGED <<point, run, exchange, files, web, operations, lost,
                   overlap, paid, refunds>>

\* completed_score is set with the points, in one transaction.
Pay ==
    /\ job.step = "read"
    /\ Credit(job.read)
    /\ run' = [r \in Runs |->
                 IF r = job.at THEN [point |-> Rate, completed |-> TRUE]
                 ELSE IF job.file = "runs" /\ r < job.at
                      THEN [run[r] EXCEPT !.completed = TRUE]
                 ELSE run[r]]
    /\ paid' = IF job.file = "count" THEN [paid EXCEPT ![job.at] = @ + 1]
               ELSE paid
    /\ job' = Done(job.at)
    /\ UNCHANGED <<exchange, files, web, operations, overlap, refunds>>

\* The count is used up: the answer is wrong.
MarkWrong ==
    /\ job.step = "found"
    /\ job.file = "count"
    /\ job.right >= Count
    /\ job.at \notin Locked
    /\ run' = [run EXCEPT ![job.at].completed = TRUE]
    /\ job' = Done(job.at)
    /\ UNCHANGED <<point, exchange, files, web, operations, lost, overlap,
                   paid, refunds>>

\* os.remove
FinishJob ==
    /\ job.file # "none"
    /\ job.left = {}
    /\ files' = files \ {job.file}
    /\ job' = NoJob
    /\ UNCHANGED <<point, run, exchange, web, operations, lost, overlap,
                   paid, refunds>>

\* The file stays, and the next job takes it from its start.
CrashJob ==
    /\ job.file # "none"
    /\ job' = NoJob
    /\ UNCHANGED <<point, run, exchange, files, web, operations, lost,
                   overlap, paid, refunds>>

-----------------------------------------------------------------------------
(* POST /account/<name>/point/exchange *)

Requesting(s) == web[s].op \in {"checked", "deducting", "deducted"}

\* A variant of Enough: what he ever earned counts.
EnoughEarned(a) == a <= point.sum

Enough(a) == a <= point.current

Request(s, e, a) ==
    /\ web[s] = Idle
    /\ exchange[e].state = "none"
    /\ \A t \in Sessions: Requesting(t) => web[t].exchange # e
    /\ Enough(a)
    /\ Operation
    /\ overlap' = (overlap \/ \E t \in Sessions: Requesting(t))
    /\ Become(s, [op |-> "checked", exchange |-> e, amount |-> a])
    /\ UNCHANGED <<point, run, exchange, files, job, lost,
                   paid, refunds>>

\* A variant of ReadBalance: exchange_repo.save comes first.
ReadBalanceAfterSave(s) ==
    /\ web[s].op = "checked"
    /\ exchange' = [exchange EXCEPT ![web[s].exchange] =
                      [state |-> "requested", amount |-> web[s].amount]]
    /\ Become(s, [op |-> "deducting", exchange |-> web[s].exchange,
                  amount |-> web[s].amount, read |-> point])
    /\ UNCHANGED <<point, run, files, job, operations, lost, overlap, paid,
                   refunds>>

\* get_point of point_repo.exchange
ReadBalance(s) ==
    /\ web[s].op = "checked"
    /\ Become(s, [op |-> "deducting", exchange |-> web[s].exchange,
                  amount |-> web[s].amount, read |-> point])
    /\ UNCHANGED <<point, run, exchange, files, job, operations, lost,
                   overlap, paid, refunds>>

CommitDeduction(s) ==
    /\ web[s].op = "deducting"
    /\ Deduct(web[s].read, web[s].amount)
    /\ Become(s, [op |-> "deducted", exchange |-> web[s].exchange,
                  amount |-> web[s].amount])
    /\ UNCHANGED <<run, exchange, files, job, operations, overlap, paid,
                   refunds>>

\* exchange_repo.save
SaveExchange(s) ==
    /\ web[s].op = "deducted"
    /\ exchange' = [exchange EXCEPT ![web[s].exchange] =
                      [state |-> "requested", amount |-> web[s].amount]]
    /\ Become(s, Idle)
    /\ UNCHANGED <<point, run, files, job, operations, lost, overlap, paid,
                   refunds>>

-----------------------------------------------------------------------------
(* /admin/manage_exchange *)

\* Y, Q and A: a row is marked whatever was decided before.
Accept(e) ==
    /\ exchange[e].state \notin {"none", "accepted"}
    /\ exchange' = [exchange EXCEPT ![e].state = "accepted"]
    /\ UNCHANGED <<point, run, files, web, job, operations, lost, overlap,
                   paid, refunds>>

\* N: so is a row that is refused.
ReadRefund(s, e) ==
    /\ web[s] = Idle
    /\ exchange[e].state # "none"
    /\ Operation
    /\ Become(s, [op |-> "refunding", exchange |-> e, read |-> point])
    /\ UNCHANGED <<point, run, exchange, files, job, lost,
                   overlap, paid, refunds>>

\* A variant of CommitRefund: the points are given back as earned ones.
CommitRefundAsEarned(s) ==
    LET e == web[s].exchange
    IN  /\ web[s].op = "refunding"
        /\ point' = [current |-> web[s].read.current + exchange[e].amount,
                     sum |-> web[s].read.sum + exchange[e].amount]
        /\ lost' = (lost \/ point # web[s].read)
        /\ refunds' = [refunds EXCEPT ![e] = @ + 1]
        /\ Become(s, [op |-> "refunded", exchange |-> e])
        /\ UNCHANGED <<run, exchange, files, job, operations, overlap, paid>>

CommitRefund(s) ==
    LET e == web[s].exchange
    IN  /\ web[s].op = "refunding"
        /\ Deduct(web[s].read, -exchange[e].amount)
        /\ refunds' = [refunds EXCEPT ![e] = @ + 1]
        /\ Become(s, [op |-> "refunded", exchange |-> e])
        /\ UNCHANGED <<run, exchange, files, job, operations, overlap, paid>>

MarkRefused(s) ==
    /\ web[s].op = "refunded"
    /\ exchange' = [exchange EXCEPT ![web[s].exchange].state = "refused"]
    /\ Become(s, Idle)
    /\ UNCHANGED <<point, run, files, job, operations, lost, overlap, paid,
                   refunds>>

-----------------------------------------------------------------------------

\* The request fails, or its worker dies: the open transaction is rolled
\* back, what was committed stays.
Fail(s) ==
    /\ web[s] # Idle
    /\ Become(s, Idle)
    /\ UNCHANGED <<point, run, exchange, files, job, operations, lost,
                   overlap, paid, refunds>>

WebStep(s) ==
    \/ \E r \in Runs: Score(s, r) \/ \E p \in {0, Rate}: ScoreOther(s, r, p)
    \/ CommitScore(s)
    \/ \E e \in Exchanges, a \in Amounts: Request(s, e, a)
    \/ ReadBalance(s)
    \/ CommitDeduction(s)
    \/ SaveExchange(s)
    \/ \E e \in Exchanges: ReadRefund(s, e)
    \/ CommitRefund(s)
    \/ MarkRefused(s)
    \/ Fail(s)

JobStep ==
    \/ \E kind \in Kinds: Upload(kind) \/ StartJob(kind)
    \/ \E r \in Runs: Find(r)
    \/ ReadPoints
    \/ Pay
    \/ MarkWrong
    \/ FinishJob
    \/ CrashJob

Next ==
    \/ \E s \in Sessions: WebStep(s)
    \/ JobStep
    \/ \E e \in Exchanges: Accept(e)

Spec == Init /\ [][Next]_vars

-----------------------------------------------------------------------------
(* Properties *)

\* However often a job crashes, is repeated or is overtaken by the scoring of
\* a request, the count of a results file pays no run twice.
PaidOnce == \A r \in Runs: paid[r] <= 1

\* The balance goes below zero only if an update of the row was lost or two
\* requests of the contributor overlapped.
OverdrawnOnlyByOverlap == point.current < 0 => lost \/ overlap

\* The request that has taken the points for e and not yet saved it.
Unsaved(e) == {s \in Sessions: web[s].op = "deducted" /\ web[s].exchange = e}

\* What was taken for each exchange and not given back.
Owed ==
    [e \in Exchanges |->
       IF Unsaved(e) # {}
       THEN web[CHOOSE s \in Unsaved(e): TRUE].amount
       ELSE exchange[e].amount - exchange[e].amount * refunds[e]]

\* What the administrator is asked to pay out has been taken from the balance
\* first, also when a request fails half way: unless an update was lost, the
\* balance and what was taken for requests and not given back are within the
\* sum.
AccountedFor == lost \/ point.current + SumFunction(Owed) <= point.sum

\* He can spend what he earned and no more, unless the administrator refused
\* an exchange twice or an update was lost: no request that fails half way and
\* no job that is repeated makes points.
SpendsWhatHeEarned ==
    (\A e \in Exchanges: refunds[e] <= 1) =>
        lost \/ point.current <= point.sum

\* Every change of the points is a single entry of the ledger: a credit that
\* is earned, points taken for one request that nothing is owed on, given back
\* for one request, or written off with a request that fails half way.
Account == INSTANCE Ledger
           WITH Requests <- Exchanges, balance <- point.current,
                earned <- point.sum, claims <- Owed, overwritten <- lost

LedgerKept == Account!Book

-----------------------------------------------------------------------------
(* What the repository says and its code does not guarantee *)

\* account.py refuses what exceeds the balance: "request the exchange within
\* the points you have".
NeverOverdrawn == point.current >= 0

=============================================================================
