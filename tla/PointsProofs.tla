--------------------------- MODULE PointsProofs ---------------------------
(***************************************************************************)
(* Proofs about Points, for any number of sessions, runs and rows of       *)
(* exchange, and for any amounts.                                          *)
(***************************************************************************)
EXTENDS Points, SumLemmas, TLAPS

-----------------------------------------------------------------------------
(* Types *)

\* What a session does tells which fields it has.
LEMMA WebFields ==
    ASSUME NEW w \in Web
    PROVE  /\ w.op = "scoring" => w.run \in Runs /\ w.read \in Row
           /\ w.op \in {"checked", "deducting", "deducted"} =>
                w.exchange \in Exchanges /\ w.amount \in Amounts
           /\ w.op = "deducting" => w.read \in Row
           /\ w.op \in {"refunding", "refunded"} => w.exchange \in Exchanges
           /\ w.op = "refunding" => w.read \in Row
  BY DEF Web, Idle

LEMMA WebValues ==
    /\ Idle \in Web
    /\ \A r \in Runs, read \in Row:
         [op |-> "scoring", run |-> r, read |-> read] \in Web
    /\ \A e \in Exchanges, a \in Amounts:
         /\ [op |-> "checked", exchange |-> e, amount |-> a] \in Web
         /\ [op |-> "deducted", exchange |-> e, amount |-> a] \in Web
    /\ \A e \in Exchanges, a \in Amounts, read \in Row:
         [op |-> "deducting", exchange |-> e, amount |-> a, read |-> read] \in Web
    /\ \A e \in Exchanges:
         /\ [op |-> "refunded", exchange |-> e] \in Web
         /\ \A read \in Row:
              [op |-> "refunding", exchange |-> e, read |-> read] \in Web
  BY DEF Web

LEMMA BecomeWeb ==
    ASSUME NEW s \in Sessions, NEW w \in Web, web \in [Sessions -> Web],
           Become(s, w)
    PROVE  /\ web' \in [Sessions -> Web]
           /\ web'[s] = w
           /\ \A t \in Sessions \ {s}: web'[t] = web[t]
  BY DEF Become

LEMMA CreditType ==
    ASSUME NEW read \in Row, lost \in BOOLEAN, Credit(read)
    PROVE  point' \in Row /\ lost' \in BOOLEAN
  BY PointsAssumption DEF Credit, Row

LEMMA DeductType ==
    ASSUME NEW read \in Row, NEW a \in Int, point \in Row, lost \in BOOLEAN,
           Deduct(read, a)
    PROVE  point' \in Row /\ lost' \in BOOLEAN
  BY DEF Deduct, Row

LEMMA OperationType ==
    ASSUME operations \in 0..MaxOperations, Operation
    PROVE  operations' \in 0..MaxOperations
  BY PointsAssumption DEF Operation

LEMMA NoJobType == NoJob \in Job
  BY DEF NoJob, Job, Row

LEMMA DoneType == ASSUME job \in Job, NEW r PROVE Done(r) \in Job
<1>1. job.left \ {r} \subseteq Runs /\ job.right + 1 \in Nat
  BY DEF Job
<1> QED
  BY <1>1 DEF Done, Job

LEMMA WebType ==
    ASSUME TypeOK, NEW s \in Sessions, WebStep(s)
    PROVE  TypeOK'
<1>. USE DEF TypeOK
<1>. web[s] \in Web
  OBVIOUS
<1>1. ASSUME NEW r \in Runs, Score(s, r)
      PROVE  TypeOK'
  <2>1. web' \in [Sessions -> Web]
    BY <1>1, WebValues, BecomeWeb DEF Score
  <2> QED
    BY <1>1, <2>1, OperationType DEF Score
<1>2. ASSUME NEW r \in Runs, NEW p \in {0, Rate}, ScoreOther(s, r, p)
      PROVE  TypeOK'
  <2>1. run' \in [Runs -> [point: {0, Rate}, completed: BOOLEAN]]
    BY <1>2 DEF ScoreOther
  <2> QED
    BY <1>2, <2>1, OperationType DEF ScoreOther
<1>3. CASE CommitScore(s)
  <2>1. web[s].run \in Runs /\ web[s].read \in Row
    BY <1>3, WebFields DEF CommitScore
  <2>2. point' \in Row /\ lost' \in BOOLEAN
    BY <1>3, <2>1, CreditType DEF CommitScore
  <2>3. run' \in [Runs -> [point: {0, Rate}, completed: BOOLEAN]]
    BY <1>3, <2>1 DEF CommitScore
  <2>4. web' \in [Sessions -> Web]
    BY <1>3, WebValues, BecomeWeb DEF CommitScore
  <2> QED
    BY <1>3, <2>2, <2>3, <2>4 DEF CommitScore
<1>4. ASSUME NEW e \in Exchanges, NEW a \in Amounts, Request(s, e, a)
      PROVE  TypeOK'
  <2>1. web' \in [Sessions -> Web]
    BY <1>4, WebValues, BecomeWeb DEF Request
  <2>2. overlap' \in BOOLEAN
    BY <1>4 DEF Request
  <2> QED
    BY <1>4, <2>1, <2>2, OperationType DEF Request
<1>5. CASE ReadBalance(s)
  <2>1. web[s].exchange \in Exchanges /\ web[s].amount \in Amounts
    BY <1>5, WebFields DEF ReadBalance
  <2>2. web' \in [Sessions -> Web]
    BY <1>5, <2>1, WebValues, BecomeWeb DEF ReadBalance
  <2> QED
    BY <1>5, <2>2 DEF ReadBalance
<1>6. CASE CommitDeduction(s)
  <2>1. /\ web[s].exchange \in Exchanges /\ web[s].amount \in Amounts
        /\ web[s].read \in Row
    BY <1>6, WebFields DEF CommitDeduction
  <2>2. web' \in [Sessions -> Web]
    BY <1>6, <2>1, WebValues, BecomeWeb DEF CommitDeduction
  <2>3. point' \in Row /\ lost' \in BOOLEAN
    <3>1. web[s].amount \in Int
      <4>1. \A a \in Amounts: a \in Int
        BY PointsAssumption
      <4> QED
        BY <2>1, <4>1
    <3> QED
      BY <1>6, <2>1, <3>1, DeductType DEF CommitDeduction
  <2> QED
    BY <1>6, <2>2, <2>3 DEF CommitDeduction
<1>7. CASE SaveExchange(s)
  <2>1. web[s].exchange \in Exchanges /\ web[s].amount \in Amounts
    BY <1>7, WebFields DEF SaveExchange
  <2>2. web' \in [Sessions -> Web]
    BY <1>7, WebValues, BecomeWeb DEF SaveExchange
  <2> QED
    BY <1>7, <2>1, <2>2 DEF SaveExchange
<1>8. ASSUME NEW e \in Exchanges, ReadRefund(s, e)
      PROVE  TypeOK'
  <2>1. web' \in [Sessions -> Web]
    BY <1>8, WebValues, BecomeWeb DEF ReadRefund
  <2> QED
    BY <1>8, <2>1, OperationType DEF ReadRefund
<1>9. CASE CommitRefund(s)
  <2>1. web[s].exchange \in Exchanges /\ web[s].read \in Row
    BY <1>9, WebFields DEF CommitRefund
  <2>2. web' \in [Sessions -> Web]
    BY <1>9, <2>1, WebValues, BecomeWeb DEF CommitRefund
  <2>3. -exchange[web[s].exchange].amount \in Int
    <3>1. exchange[web[s].exchange].amount \in Amounts \cup {0}
      BY <2>1
    <3>2. \A a \in Amounts \cup {0}: a \in Nat /\ -a \in Int
      BY PointsAssumption
    <3> QED
      BY <3>1, <3>2
  <2>4. point' \in Row /\ lost' \in BOOLEAN
    BY <1>9, <2>1, <2>3, DeductType DEF CommitRefund
  <2>5. refunds' \in [Exchanges -> Nat]
    BY <1>9, <2>1 DEF CommitRefund
  <2> QED
    BY <1>9, <2>2, <2>4, <2>5 DEF CommitRefund
<1>10. CASE MarkRefused(s)
  <2>1. web[s].exchange \in Exchanges
    BY <1>10, WebFields DEF MarkRefused
  <2>2. web' \in [Sessions -> Web]
    BY <1>10, WebValues, BecomeWeb DEF MarkRefused
  <2> QED
    BY <1>10, <2>1, <2>2 DEF MarkRefused
<1>11. CASE Fail(s)
  <2>1. web' \in [Sessions -> Web]
    BY <1>11, WebValues, BecomeWeb DEF Fail
  <2> QED
    BY <1>11, <2>1 DEF Fail
<1> QED
  BY <1>1, <1>2, <1>3, <1>4, <1>5, <1>6, <1>7, <1>8, <1>9, <1>10, <1>11
  DEF WebStep

\* A job that works has a file, and one that scores is at one of the runs.
JobAtRun ==
    /\ job.left # {} => job.file # "none"
    /\ job.step # "look" => job.at \in Runs /\ job.file # "none"

LEMMA JobType ==
    ASSUME TypeOK, JobAtRun, JobStep
    PROVE  TypeOK'
<1>. USE DEF TypeOK
<1>1. ASSUME NEW kind \in Kinds, Upload(kind)
      PROVE  TypeOK'
  BY <1>1, OperationType DEF Upload
<1>2. ASSUME NEW kind \in Kinds, StartJob(kind)
      PROVE  TypeOK'
  <2>1. job' \in Job
    BY <1>2 DEF StartJob, NoJob, Job, Row
  <2> QED
    BY <1>2, <2>1, OperationType DEF StartJob
<1>3. ASSUME NEW r \in Runs, Find(r)
      PROVE  TypeOK'
  <2>1. job' \in Job
    BY <1>3 DEF Find, Job
  <2> QED
    BY <1>3, <2>1 DEF Find
<1>4. CASE ReadPoints
  <2>1. job' \in Job
    BY <1>4 DEF ReadPoints, Job
  <2> QED
    BY <1>4, <2>1 DEF ReadPoints
<1>5. CASE Pay
  <2>1. job.read \in Row /\ job.at \in Runs
    BY <1>5 DEF Pay, Job, JobAtRun
  <2>2. point' \in Row /\ lost' \in BOOLEAN
    BY <1>5, <2>1, CreditType DEF Pay
  <2>3. run' \in [Runs -> [point: {0, Rate}, completed: BOOLEAN]]
    BY <1>5 DEF Pay
  <2>4. paid' \in [Runs -> Nat]
    BY <1>5, <2>1 DEF Pay
  <2> QED
    BY <1>5, <2>2, <2>3, <2>4, DoneType DEF Pay
<1>6. CASE MarkWrong
  <2>1. run' \in [Runs -> [point: {0, Rate}, completed: BOOLEAN]]
    BY <1>6 DEF MarkWrong, JobAtRun
  <2> QED
    BY <1>6, <2>1, DoneType DEF MarkWrong
<1>7. CASE FinishJob \/ CrashJob
  BY <1>7, NoJobType DEF FinishJob, CrashJob
<1> QED
  BY <1>1, <1>2, <1>3, <1>4, <1>5, <1>6, <1>7 DEF JobStep

LEMMA JobAtRunStep ==
    ASSUME TypeOK, JobAtRun, Next
    PROVE  JobAtRun'
<1>. USE DEF JobAtRun
<1>0. job \in Job
  BY DEF TypeOK
<1>1. CASE job' = job
  BY <1>1
<1>2. CASE job' = NoJob
  BY <1>2 DEF NoJob
<1>7. CASE Pay \/ MarkWrong
  <2>1. job' = Done(job.at) /\ job.file # "none"
    BY <1>7 DEF Pay, MarkWrong
  <2>2. job'.step = "look" /\ job'.file = job.file
    BY <1>0, <2>1 DEF Done, Job
  <2> QED
    BY <2>1, <2>2
<1>3. ASSUME NEW kind \in Kinds, StartJob(kind)
      PROVE  JobAtRun'
  <2>1. kind # "none" /\ job'.file = kind /\ job'.step = "look"
    BY <1>3 DEF StartJob, NoJob, Kinds
  <2> QED
    BY <2>1
<1>4. ASSUME NEW r \in Runs, Find(r)
      PROVE  JobAtRun'
  <2>1. job.file # "none"
    BY <1>4 DEF Find
  <2> QED
    BY <1>0, <1>4, <2>1 DEF Find, Job
<1>5. CASE ReadPoints
  BY <1>0, <1>5 DEF ReadPoints, Job
<1>6. ASSUME NEW s \in Sessions, WebStep(s)
      PROVE  job' = job
  BY <1>6 DEF WebStep, Score, ScoreOther, CommitScore, Request, ReadBalance,
              CommitDeduction, SaveExchange, ReadRefund, CommitRefund,
              MarkRefused, Fail
<1> QED
  BY <1>1, <1>2, <1>3, <1>4, <1>5, <1>6, <1>7
  DEF Next, JobStep, Upload, FinishJob, CrashJob, Accept

LEMMA InitType == Init => TypeOK /\ JobAtRun
<1>1. Init => TypeOK
  <2>1. SUFFICES ASSUME Init
                 PROVE  TypeOK
    OBVIOUS
  <2>2. point \in Row /\ files \subseteq Kinds /\ operations \in 0..MaxOperations
    BY <2>1, PointsAssumption DEF Init, Row
  <2>3. run \in [Runs -> [point: {0, Rate}, completed: BOOLEAN]]
    BY <2>1 DEF Init
  <2>4. web \in [Sessions -> Web] /\ job \in Job
    BY <2>1, NoJobType, WebValues DEF Init
  <2>5. /\ lost \in BOOLEAN /\ overlap \in BOOLEAN
        /\ paid \in [Runs -> Nat] /\ refunds \in [Exchanges -> Nat]
    BY <2>1 DEF Init
  <2> QED
    BY <2>1, <2>2, <2>3, <2>4, <2>5 DEF Init, TypeOK
<1>2. Init => JobAtRun
  BY DEF Init, JobAtRun, NoJob
<1> QED
  BY <1>1, <1>2

LEMMA StepType ==
    ASSUME TypeOK, JobAtRun, Next
    PROVE  TypeOK' /\ JobAtRun'
<1>1. ASSUME NEW e \in Exchanges, Accept(e)
      PROVE  TypeOK'
  BY <1>1 DEF Accept, TypeOK
<1> QED
  BY <1>1, WebType, JobType, JobAtRunStep DEF Next

LEMMA StutterType ==
    TypeOK /\ JobAtRun /\ UNCHANGED vars => TypeOK' /\ JobAtRun'
  BY DEF TypeOK, JobAtRun, vars

LEMMA Typed == Spec => [](TypeOK /\ JobAtRun)
  BY InitType, StepType, StutterType, PTL DEF Spec

\* Rows, requests and jobs keep their types; the points of a run are what
\* the project pays or nothing, scored again or not.
THEOREM TypeCorrect == Spec => []TypeOK
  BY Typed, PTL

-----------------------------------------------------------------------------
(* A results file pays a run once *)

\* What was paid is completed for ever, and the job found what it works on
\* not to be.
Paying ==
    /\ \A r \in Runs: paid[r] = 0 \/ (paid[r] = 1 /\ run[r].completed)
    /\ job.step # "look" /\ job.file = "count" => paid[job.at] = 0

LEMMA PayingStep ==
    ASSUME TypeOK, JobAtRun, Paying, Next
    PROVE  Paying'
<1>. paid \in [Runs -> Nat] /\ job \in Job
     /\ run \in [Runs -> [point: {0, Rate}, completed: BOOLEAN]]
  BY DEF TypeOK
\* No step of the web takes a completion back, or pays.
<1>1. ASSUME paid' = paid, job' = job,
             \A r \in Runs: run[r].completed => run'[r].completed
      PROVE  Paying'
  BY <1>1 DEF Paying
<1>2. ASSUME NEW s \in Sessions, WebStep(s)
      PROVE  Paying'
  <2>1. paid' = paid /\ job' = job
    BY <1>2 DEF WebStep, Score, ScoreOther, CommitScore, Request, ReadBalance,
                CommitDeduction, SaveExchange, ReadRefund, CommitRefund,
                MarkRefused, Fail
  <2>2. ASSUME NEW q \in Runs, NEW p \in {0, Rate}, ScoreOther(s, q, p)
        PROVE  \A r \in Runs: run[r].completed => run'[r].completed
    BY <2>2 DEF ScoreOther
  <2>3. CASE CommitScore(s)
    <3>1. \A r \in Runs: run'[r] = run[r] \/ run'[r].completed
      BY <2>3 DEF CommitScore
    <3> QED
      BY <2>1, <3>1, <1>1
  <2> QED
    BY <1>1, <1>2, <2>1, <2>2, <2>3
    DEF WebStep, Score, Request, ReadBalance, CommitDeduction, SaveExchange,
        ReadRefund, CommitRefund, MarkRefused, Fail
<1>3. ASSUME NEW e \in Exchanges, Accept(e)
      PROVE  Paying'
  BY <1>1, <1>3 DEF Accept
<1>4. ASSUME NEW kind \in Kinds, Upload(kind) \/ StartJob(kind)
      PROVE  Paying'
  BY <1>4 DEF Upload, StartJob, NoJob, Paying
<1>5. ASSUME NEW r \in Runs, Find(r)
      PROVE  Paying'
  <2>1. UNCHANGED <<paid, run>> /\ job.step = "look"
    BY <1>5 DEF Find
  <2>2. CASE AlreadyScored(r)
    <3>1. job'.step = "look"
      BY <1>5, <2>1, <2>2 DEF Find, Job
    <3> QED
      BY <2>1, <3>1 DEF Paying
  <2>3. CASE ~AlreadyScored(r)
    <3>1. job'.at = r /\ job'.file = job.file
      BY <1>5, <2>3 DEF Find, Job
    <3>2. job.file = "count" => paid[r] = 0
      BY <2>3 DEF AlreadyScored, Paying
    <3> QED
      BY <2>1, <3>1, <3>2 DEF Paying
  <2> QED
    BY <2>2, <2>3
<1>6. CASE ReadPoints
  <2>1. job'.at = job.at /\ job'.file = job.file /\ job.step # "look"
    BY <1>6 DEF ReadPoints, Job
  <2> QED
    BY <1>6, <2>1 DEF ReadPoints, Paying
<1>7. CASE Pay
  <2>1. job.at \in Runs /\ job.step # "look"
    BY <1>7 DEF Pay, JobAtRun
  <2>2. job'.step = "look"
    BY <1>7 DEF Pay, Done, Job
  <2>3. \A r \in Runs: run[r].completed => run'[r].completed
    BY <1>7 DEF Pay
  <2>4. run'[job.at].completed
    BY <1>7, <2>1 DEF Pay
  <2>5. CASE job.file = "count"
    <3>1. paid' = [paid EXCEPT ![job.at] = @ + 1] /\ paid[job.at] = 0
      BY <1>7, <2>1, <2>5 DEF Pay, Paying
    <3> QED
      BY <2>1, <2>2, <2>3, <2>4, <3>1 DEF Paying
  <2>6. CASE job.file # "count"
    <3>1. paid' = paid
      BY <1>7, <2>6 DEF Pay
    <3> QED
      BY <2>2, <2>3, <3>1 DEF Paying
  <2> QED
    BY <2>5, <2>6
<1>8. CASE MarkWrong
  <2>1. job'.step = "look"
    BY <1>8 DEF MarkWrong, Done, Job
  <2>2. \A r \in Runs: run[r].completed => run'[r].completed
    BY <1>8 DEF MarkWrong
  <2> QED
    BY <1>8, <2>1, <2>2 DEF MarkWrong, Paying
<1>9. CASE FinishJob \/ CrashJob
  BY <1>9 DEF FinishJob, CrashJob, NoJob, Paying
<1> QED
  BY <1>2, <1>3, <1>4, <1>5, <1>6, <1>7, <1>8, <1>9 DEF Next, JobStep

\* A results file that is processed again after a crash pays no run a second
\* time: completed_score is committed with the points.
THEOREM PaidOnceAlways == Spec => []PaidOnce
<1>1. Init => Paying
  BY DEF Init, Paying, NoJob
<1>2. TypeOK /\ JobAtRun /\ Paying /\ UNCHANGED vars => Paying'
  BY DEF Paying, vars
<1>3. Paying => PaidOnce
  BY DEF Paying, PaidOnce
<1> QED
  BY <1>1, <1>2, <1>3, PayingStep, Typed, PTL DEF Spec

-----------------------------------------------------------------------------
(* The balance *)

\* While no update was lost and no two requests overlapped, at most one is
\* under way, and until it is deducted the balance covers it.
Covered ==
    lost \/ overlap \/
        /\ point.current >= 0
        /\ \A s, t \in Sessions: Requesting(s) /\ Requesting(t) => s = t
        /\ \A s \in Sessions: web[s].op \in {"checked", "deducting"} =>
                                web[s].amount <= point.current

LEMMA CoveredStep ==
    ASSUME TypeOK, JobAtRun, Covered, Next
    PROVE  Covered'
<1>. /\ point \in Row /\ web \in [Sessions -> Web]
     /\ point.current \in Int /\ Rate \in Nat
     /\ lost \in BOOLEAN /\ overlap \in BOOLEAN
  BY PointsAssumption DEF TypeOK, Row
<1>. \A s \in Sessions: web[s].op \in {"checked", "deducting", "deducted"} =>
                          web[s].amount \in Nat
  BY WebFields, PointsAssumption
<1>0. SUFFICES ASSUME ~lost, ~overlap, ~lost', ~overlap'
               PROVE  Covered'
  <2>1. ASSUME NEW s \in Sessions, WebStep(s)
        PROVE  (lost => lost') /\ (overlap => overlap')
    <3>1. CASE CommitScore(s) \/ CommitDeduction(s) \/ CommitRefund(s)
      BY <3>1 DEF CommitScore, CommitDeduction, CommitRefund, Credit, Deduct
    <3>2. CASE \E e \in Exchanges, a \in Amounts: Request(s, e, a)
      BY <3>2 DEF Request
    <3> QED
      BY <2>1, <3>1, <3>2
      DEF WebStep, Score, ScoreOther, ReadBalance, SaveExchange, ReadRefund,
          MarkRefused, Fail
  <2>2. ASSUME JobStep
        PROVE  (lost => lost') /\ (overlap => overlap')
    <3>1. CASE Pay
      BY <3>1 DEF Pay, Credit
    <3> QED
      BY <2>2, <3>1
      DEF JobStep, Upload, StartJob, Find, ReadPoints, MarkWrong, FinishJob,
          CrashJob
  <2>3. (lost => lost') /\ (overlap => overlap')
    BY <2>1, <2>2 DEF Next, Accept
  <2> QED
    BY <2>3 DEF Covered
<1>. USE <1>0
<1>. /\ point.current >= 0
     /\ \A s, t \in Sessions: Requesting(s) /\ Requesting(t) => s = t
     /\ \A s \in Sessions: web[s].op \in {"checked", "deducting"} =>
                             web[s].amount <= point.current
  BY DEF Covered
\* The balance does not fall and no request begins.
<1>1. ASSUME point'.current \in Int, point'.current >= point.current,
             \A s \in Sessions:
                \/ web'[s] = web[s]
                \/ web'[s].op \notin {"checked", "deducting", "deducted"}
      PROVE  Covered'
  <2>1. \A s \in Sessions: web'[s].op \in {"checked", "deducting", "deducted"}
                             => web'[s] = web[s]
    BY <1>1
  <2>2. \A s, t \in Sessions: Requesting(s)' /\ Requesting(t)' => s = t
    BY <2>1 DEF Requesting
  <2>3. ASSUME NEW s \in Sessions, web'[s].op \in {"checked", "deducting"}
        PROVE  web'[s].amount <= point'.current
    <3>1. web'[s] = web[s]
      BY <2>1, <2>3
    <3>2. web[s].amount \in Nat /\ web[s].amount <= point.current
      BY <2>3, <3>1
    <3> QED
      BY <1>1, <3>1, <3>2
  <2>4. point'.current >= 0
    BY <1>1
  <2> QED
    BY <2>2, <2>3, <2>4 DEF Covered
<1>2. ASSUME NEW s \in Sessions, NEW w, Become(s, w),
             w.op \notin {"checked", "deducting", "deducted"}
      PROVE  \A t \in Sessions:
                \/ web'[t] = web[t]
                \/ web'[t].op \notin {"checked", "deducting", "deducted"}
  BY <1>2 DEF Become
<1>3. ASSUME NEW read \in Row, Credit(read)
      PROVE  point'.current \in Int /\ point'.current >= point.current
  <2>1. read = point
    BY <1>3 DEF Credit
  <2> QED
    BY <1>3, <2>1 DEF Credit
<1>4. ASSUME NEW s \in Sessions, NEW r \in Runs,
             \/ Score(s, r)
             \/ \E p \in {0, Rate}: ScoreOther(s, r, p)
      PROVE  Covered'
  BY <1>1, <1>2, <1>4 DEF Score, ScoreOther
<1>5. ASSUME NEW s \in Sessions, CommitScore(s)
      PROVE  Covered'
  <2>1. web[s].read \in Row
    BY <1>5, WebFields DEF CommitScore
  <2> QED
    BY <1>1, <1>2, <1>3, <1>5, <2>1 DEF CommitScore, Idle
<1>6. ASSUME NEW s \in Sessions, NEW e \in Exchanges, NEW a \in Amounts,
             Request(s, e, a)
      PROVE  Covered'
  <2>1. /\ point' = point /\ a <= point.current
        /\ \A t \in Sessions: ~Requesting(t)
    BY <1>6 DEF Request, Enough
  <2>2. /\ web'[s].op = "checked" /\ web'[s].amount = a
        /\ \A t \in Sessions \ {s}: web'[t] = web[t]
    BY <1>6 DEF Request, Become
  <2>3. \A t \in Sessions \ {s}: ~(Requesting(t)')
    BY <2>1, <2>2 DEF Requesting
  <2>4. \A t \in Sessions: web'[t].op \in {"checked", "deducting"} => t = s
    BY <2>3 DEF Requesting
  <2> QED
    BY <2>1, <2>2, <2>3, <2>4 DEF Covered
<1>7. ASSUME NEW s \in Sessions, ReadBalance(s)
      PROVE  Covered'
  <2>1. /\ point' = point /\ web[s].op = "checked"
        /\ web'[s].op = "deducting" /\ web'[s].amount = web[s].amount
        /\ \A t \in Sessions \ {s}: web'[t] = web[t]
    BY <1>7 DEF ReadBalance, Become
  <2>2. \A t \in Sessions: Requesting(t)' => Requesting(t)
    BY <2>1 DEF Requesting
  <2>3. \A t, u \in Sessions: Requesting(t)' /\ Requesting(u)' => t = u
    BY <2>2
  <2>4. \A t \in Sessions: web'[t].op \in {"checked", "deducting"} =>
                             web'[t].amount <= point.current
    BY <2>1
  <2> QED
    BY <2>1, <2>3, <2>4 DEF Covered
<1>8. ASSUME NEW s \in Sessions, CommitDeduction(s)
      PROVE  Covered'
  <2>1. /\ web[s].op = "deducting" /\ web[s].read \in Row
        /\ web[s].amount \in Nat /\ web[s].amount <= point.current
    BY <1>8, WebFields DEF CommitDeduction
  <2>2. point'.current = point.current - web[s].amount
    BY <1>8 DEF CommitDeduction, Deduct, Row
  <2>3. /\ web'[s].op = "deducted"
        /\ \A t \in Sessions \ {s}: web'[t] = web[t]
    BY <1>8 DEF CommitDeduction, Become
  <2>4. \A t \in Sessions: Requesting(t)' => t = s
    BY <2>1, <2>3 DEF Requesting
  <2>5. \A t \in Sessions: web'[t].op \notin {"checked", "deducting"}
    BY <2>3, <2>4 DEF Requesting
  <2>6. point'.current >= 0
    BY <2>1, <2>2
  <2> QED
    BY <2>4, <2>5, <2>6 DEF Covered
<1>9. ASSUME NEW s \in Sessions,
             \/ SaveExchange(s)
             \/ MarkRefused(s)
             \/ Fail(s)
             \/ \E e \in Exchanges: ReadRefund(s, e)
      PROVE  Covered'
  <2>1. point' = point
    BY <1>9 DEF SaveExchange, MarkRefused, Fail, ReadRefund
  <2>2. PICK w: /\ Become(s, w)
                /\ w.op \notin {"checked", "deducting", "deducted"}
    <3>1. CASE \E e \in Exchanges: ReadRefund(s, e)
      <4>1. PICK e \in Exchanges: ReadRefund(s, e)
        BY <3>1
      <4>2. Become(s, [op |-> "refunding", exchange |-> e, read |-> point])
        BY <4>1 DEF ReadRefund
      <4> QED
        BY <4>2
    <3>2. CASE SaveExchange(s) \/ MarkRefused(s) \/ Fail(s)
      <4>1. Become(s, Idle)
        BY <3>2 DEF SaveExchange, MarkRefused, Fail
      <4>2. Idle.op \notin {"checked", "deducting", "deducted"}
        BY DEF Idle
      <4> QED
        BY <4>1, <4>2
    <3> QED
      BY <1>9, <3>1, <3>2
  <2> QED
    BY <1>1, <1>2, <2>1, <2>2
<1>10. ASSUME NEW s \in Sessions, CommitRefund(s)
       PROVE  Covered'
  <2>. DEFINE amount == exchange[web[s].exchange].amount
  <2>1. web[s].exchange \in Exchanges /\ web[s].read \in Row
    BY <1>10, WebFields DEF CommitRefund
  <2>2. amount \in Nat
    <3>1. amount \in Amounts \cup {0}
      BY <2>1 DEF TypeOK
    <3>2. \A a \in Amounts \cup {0}: a \in Nat
      BY PointsAssumption
    <3> QED
      BY <3>1, <3>2
  <2>3. point'.current = point.current - (-amount)
    BY <1>10 DEF CommitRefund, Deduct, Row
  <2>4. point'.current \in Int /\ point'.current >= point.current
    BY <2>2, <2>3
  <2>5. Become(s, [op |-> "refunded", exchange |-> web[s].exchange])
    BY <1>10 DEF CommitRefund
  <2> QED
    BY <1>1, <1>2, <2>4, <2>5
<1>11. CASE JobStep
  <2>1. web' = web
    BY <1>11 DEF JobStep, Upload, StartJob, Find, ReadPoints, Pay, MarkWrong,
                 FinishJob, CrashJob
  <2>2. point'.current \in Int /\ point'.current >= point.current
    <3>1. CASE Pay
      BY <1>3, <3>1 DEF Pay, TypeOK, Job
    <3>2. CASE ~Pay
      <4>1. point' = point
        BY <1>11, <3>2 DEF JobStep, Upload, StartJob, Find, ReadPoints,
                           MarkWrong, FinishJob, CrashJob
      <4> QED
        BY <4>1
    <3> QED
      BY <3>1, <3>2
  <2> QED
    BY <1>1, <2>1, <2>2
<1>12. ASSUME NEW e \in Exchanges, Accept(e)
       PROVE  Covered'
  BY <1>1, <1>12 DEF Accept
<1> QED
  BY <1>4, <1>5, <1>6, <1>7, <1>8, <1>9, <1>10, <1>11, <1>12 DEF Next, WebStep

\* The check of account.py is enough as long as the requests of a contributor
\* come one at a time and no update of the row is lost: scorings, jobs,
\* refunds and failures in between do not invalidate it.
THEOREM OverdrawnOnlyByOverlapAlways == Spec => []OverdrawnOnlyByOverlap
<1>1. Init => Covered
  BY DEF Init, Covered, Requesting, Idle
<1>2. Covered /\ UNCHANGED vars => Covered'
  BY DEF Covered, Requesting, vars
<1>3. TypeOK /\ Covered => OverdrawnOnlyByOverlap
  BY DEF TypeOK, Row, Covered, OverdrawnOnlyByOverlap
<1> QED
  BY <1>1, <1>2, <1>3, CoveredStep, Typed, PTL DEF Spec

-----------------------------------------------------------------------------
(* The requests for exchange *)

\* A request works on a row that no other request works on and that is not
\* there yet; points are given back for rows that are there. A row that is
\* not there has no amount and was not paid back.
Pending ==
    /\ \A s \in Sessions:
         Requesting(s) => exchange[web[s].exchange].state = "none"
    /\ \A s, t \in Sessions:
         Requesting(s) /\ Requesting(t) /\ web[s].exchange = web[t].exchange
           => s = t
    /\ \A s \in Sessions:
         web[s].op \in {"refunding", "refunded"}
           => exchange[web[s].exchange].state # "none"
    /\ \A e \in Exchanges:
         IF exchange[e].state = "none"
         THEN exchange[e].amount = 0 /\ refunds[e] = 0
         ELSE exchange[e].amount \in Amounts

LEMMA PendingStep ==
    ASSUME TypeOK, Pending, Next
    PROVE  Pending'
<1>. /\ web \in [Sessions -> Web]
     /\ exchange \in [Exchanges -> [state: {"none", "requested", "accepted",
                                            "refused"},
                                    amount: Amounts \cup {0}]]
     /\ refunds \in [Exchanges -> Nat]
  BY DEF TypeOK
\* Steps that neither begin nor end anything with a row.
<1>1. ASSUME UNCHANGED <<exchange, refunds>>,
             \A s \in Sessions:
                \/ web'[s] = web[s]
                \/ /\ ~(Requesting(s)')
                   /\ web'[s].op \notin {"refunding", "refunded"}
                \/ /\ Requesting(s) /\ Requesting(s)'
                   /\ web'[s].exchange = web[s].exchange
      PROVE  Pending'
  <2>1. \A s \in Sessions: Requesting(s)' =>
          Requesting(s) /\ web'[s].exchange = web[s].exchange
    BY <1>1 DEF Requesting
  <2>2. \A s \in Sessions: web'[s].op \in {"refunding", "refunded"} =>
          web'[s] = web[s]
    BY <1>1 DEF Requesting
  <2>3. /\ \A s \in Sessions:
             Requesting(s)' => exchange'[web'[s].exchange].state = "none"
        /\ \A s, t \in Sessions:
             Requesting(s)' /\ Requesting(t)'
               /\ web'[s].exchange = web'[t].exchange => s = t
    BY <1>1, <2>1 DEF Pending
  <2>4. \A s \in Sessions:
          web'[s].op \in {"refunding", "refunded"}
            => exchange'[web'[s].exchange].state # "none"
    BY <1>1, <2>2 DEF Pending
  <2> QED
    BY <1>1, <2>3, <2>4 DEF Pending
<1>2. ASSUME NEW s \in Sessions, NEW w, Become(s, w),
             UNCHANGED <<exchange, refunds>>,
             \/ w.op \notin {"checked", "deducting", "deducted", "refunding",
                             "refunded"}
             \/ /\ Requesting(s) /\ w.exchange = web[s].exchange
                /\ w.op \in {"checked", "deducting", "deducted"}
      PROVE  Pending'
  BY <1>1, <1>2 DEF Become, Requesting
<1>3. ASSUME NEW s \in Sessions, NEW r \in Runs,
             Score(s, r) \/ \E p \in {0, Rate}: ScoreOther(s, r, p)
      PROVE  Pending'
  BY <1>1, <1>2, <1>3 DEF Score, ScoreOther
<1>4. ASSUME NEW s \in Sessions, CommitScore(s) \/ Fail(s)
      PROVE  Pending'
  BY <1>2, <1>4 DEF CommitScore, Fail, Idle
<1>5. ASSUME NEW s \in Sessions, ReadBalance(s) \/ CommitDeduction(s)
      PROVE  Pending'
  BY <1>2, <1>5 DEF ReadBalance, CommitDeduction, Requesting
<1>6. ASSUME NEW s \in Sessions, NEW e \in Exchanges, NEW a \in Amounts,
             Request(s, e, a)
      PROVE  Pending'
  <2>1. /\ web'[s].op = "checked" /\ web'[s].exchange = e
        /\ \A t \in Sessions \ {s}: web'[t] = web[t]
    BY <1>6 DEF Request, Become
  <2>2. /\ UNCHANGED <<exchange, refunds>> /\ exchange[e].state = "none"
        /\ \A t \in Sessions: Requesting(t) => web[t].exchange # e
    BY <1>6 DEF Request
  <2>3. \A t \in Sessions:
          Requesting(t)' => exchange'[web'[t].exchange].state = "none"
    BY <2>1, <2>2 DEF Pending, Requesting
  <2>4. \A t, u \in Sessions:
          Requesting(t)' /\ Requesting(u)' /\ web'[t].exchange = web'[u].exchange
            => t = u
    BY <2>1, <2>2 DEF Pending, Requesting
  <2>5. \A t \in Sessions:
          web'[t].op \in {"refunding", "refunded"}
            => exchange'[web'[t].exchange].state # "none"
    BY <2>1, <2>2 DEF Pending
  <2> QED
    BY <2>2, <2>3, <2>4, <2>5 DEF Pending
\* A row that becomes one that is there has no request but the one that ends.
<1>7. ASSUME NEW e \in Exchanges, refunds' = refunds,
             exchange'[e].state # "none", exchange'[e].amount \in Amounts,
             \A x \in Exchanges \ {e}: exchange'[x] = exchange[x],
             \A t \in Sessions:
               \/ web'[t] = web[t]
               \/ web'[t] = Idle,
             \A t \in Sessions:
               Requesting(t)' => web'[t].exchange # e
      PROVE  Pending'
  <2>1. \A t \in Sessions: Requesting(t)' => web'[t] = web[t] /\ Requesting(t)
    BY <1>7 DEF Requesting, Idle
  <2>2. \A t \in Sessions: web'[t].op \in {"refunding", "refunded"} =>
          web'[t] = web[t]
    BY <1>7 DEF Idle
  <2>3. \A t \in Sessions: Requesting(t) => web[t].exchange \in Exchanges
    BY WebFields DEF Requesting
  <2>4. \A t \in Sessions: web[t].op \in {"refunding", "refunded"} =>
          web[t].exchange \in Exchanges
    BY WebFields
  <2>5. \A t \in Sessions:
          Requesting(t)' => exchange'[web'[t].exchange].state = "none"
    BY <1>7, <2>1, <2>3 DEF Pending
  <2>6. \A t, u \in Sessions:
          Requesting(t)' /\ Requesting(u)' /\ web'[t].exchange = web'[u].exchange
            => t = u
    BY <2>1 DEF Pending
  <2>7. \A t \in Sessions:
          web'[t].op \in {"refunding", "refunded"}
            => exchange'[web'[t].exchange].state # "none"
    BY <1>7, <2>2, <2>4 DEF Pending
  <2>8. \A x \in Exchanges:
          IF exchange'[x].state = "none"
          THEN exchange'[x].amount = 0 /\ refunds'[x] = 0
          ELSE exchange'[x].amount \in Amounts
    BY <1>7 DEF Pending
  <2> QED
    BY <2>5, <2>6, <2>7, <2>8 DEF Pending
<1>8. ASSUME NEW s \in Sessions, SaveExchange(s)
      PROVE  Pending'
  <2>. DEFINE e == web[s].exchange
  <2>1. /\ web[s].op = "deducted" /\ e \in Exchanges /\ web[s].amount \in Amounts
    BY <1>8, WebFields DEF SaveExchange
  <2>2. /\ exchange'[e].state # "none" /\ exchange'[e].amount \in Amounts
        /\ \A x \in Exchanges \ {e}: exchange'[x] = exchange[x]
        /\ refunds' = refunds
    BY <1>8, <2>1 DEF SaveExchange
  <2>3. web'[s] = Idle /\ \A t \in Sessions \ {s}: web'[t] = web[t]
    BY <1>8 DEF SaveExchange, Become
  <2>4. \A t \in Sessions: Requesting(t)' => web'[t].exchange # e
    BY <2>1, <2>3 DEF Pending, Requesting, Idle
  <2> QED
    BY <1>7, <2>1, <2>2, <2>3, <2>4
<1>9. ASSUME NEW s \in Sessions, MarkRefused(s)
      PROVE  Pending'
  <2>. DEFINE e == web[s].exchange
  <2>1. /\ web[s].op = "refunded" /\ e \in Exchanges
        /\ exchange[e].state # "none"
    BY <1>9, WebFields DEF MarkRefused, Pending
  <2>2. /\ exchange'[e].state # "none" /\ exchange'[e].amount \in Amounts
        /\ \A x \in Exchanges \ {e}: exchange'[x] = exchange[x]
        /\ refunds' = refunds
    BY <1>9, <2>1 DEF MarkRefused, Pending
  <2>3. web'[s] = Idle /\ \A t \in Sessions \ {s}: web'[t] = web[t]
    BY <1>9 DEF MarkRefused, Become
  <2>4. \A t \in Sessions: Requesting(t)' => web'[t].exchange # e
    BY <2>1, <2>3 DEF Pending, Requesting, Idle
  <2> QED
    BY <1>7, <2>1, <2>2, <2>3, <2>4
<1>10. ASSUME NEW e \in Exchanges, Accept(e)
       PROVE  Pending'
  <2>1. /\ exchange[e].state # "none" /\ exchange'[e].state # "none"
        /\ exchange'[e].amount \in Amounts
        /\ \A x \in Exchanges \ {e}: exchange'[x] = exchange[x]
        /\ web' = web /\ refunds' = refunds
    BY <1>10 DEF Accept, Pending
  <2>2. \A t \in Sessions: Requesting(t)' => web'[t].exchange # e
    BY <2>1 DEF Pending, Requesting
  <2> QED
    BY <1>7, <2>1, <2>2
<1>11. ASSUME NEW s \in Sessions, NEW e \in Exchanges, ReadRefund(s, e)
       PROVE  Pending'
  <2>1. /\ web'[s].op = "refunding" /\ web'[s].exchange = e
        /\ \A t \in Sessions \ {s}: web'[t] = web[t]
    BY <1>11 DEF ReadRefund, Become
  <2>2. UNCHANGED <<exchange, refunds>> /\ exchange[e].state # "none"
    BY <1>11 DEF ReadRefund
  <2>3. \A t \in Sessions: Requesting(t)' => Requesting(t) /\ web'[t] = web[t]
    BY <2>1 DEF Requesting
  <2>4. \A t \in Sessions:
          web'[t].op \in {"refunding", "refunded"}
            => exchange'[web'[t].exchange].state # "none"
    BY <2>1, <2>2 DEF Pending
  <2> QED
    BY <2>2, <2>3, <2>4 DEF Pending
<1>12. ASSUME NEW s \in Sessions, CommitRefund(s)
       PROVE  Pending'
  <2>. DEFINE e == web[s].exchange
  <2>1. /\ web[s].op = "refunding" /\ e \in Exchanges
        /\ exchange[e].state # "none"
    BY <1>12, WebFields DEF CommitRefund, Pending
  <2>2. /\ web'[s].op = "refunded" /\ web'[s].exchange = e
        /\ \A t \in Sessions \ {s}: web'[t] = web[t]
    BY <1>12 DEF CommitRefund, Become
  <2>3. /\ exchange' = exchange
        /\ \A x \in Exchanges \ {e}: refunds'[x] = refunds[x]
    BY <1>12 DEF CommitRefund
  <2>4. \A t \in Sessions: Requesting(t)' => Requesting(t) /\ web'[t] = web[t]
    BY <2>2 DEF Requesting
  <2>5. \A t \in Sessions:
          web'[t].op \in {"refunding", "refunded"}
            => exchange'[web'[t].exchange].state # "none"
    BY <2>1, <2>2, <2>3 DEF Pending
  <2>6. \A x \in Exchanges:
          IF exchange'[x].state = "none"
          THEN exchange'[x].amount = 0 /\ refunds'[x] = 0
          ELSE exchange'[x].amount \in Amounts
    BY <2>1, <2>3 DEF Pending
  <2> QED
    BY <2>3, <2>4, <2>5, <2>6 DEF Pending
<1>13. CASE JobStep
  BY <1>1, <1>13 DEF JobStep, Upload, StartJob, Find, ReadPoints, Pay,
                     MarkWrong, FinishJob, CrashJob
<1> QED
  BY <1>3, <1>4, <1>5, <1>6, <1>8, <1>9, <1>10, <1>11, <1>12, <1>13
  DEF Next, WebStep

LEMMA PendingAlways == Spec => []Pending
<1>1. Init => Pending
  BY DEF Init, Pending, Requesting, Idle
<1>2. Pending /\ UNCHANGED vars => Pending'
  BY DEF Pending, Requesting, vars
<1> QED
  BY <1>1, <1>2, PendingStep, Typed, PTL DEF Spec

-----------------------------------------------------------------------------
(* The ledger *)

\* What is owed on a row that no request has taken points for, and on one that
\* a request has.
LEMMA OwedOnRow ==
    ASSUME TypeOK, NEW e \in Exchanges, Unsaved(e) = {}
    PROVE  Owed[e] = exchange[e].amount - exchange[e].amount * refunds[e]
  BY DEF Owed

LEMMA OwedOnRequest ==
    ASSUME TypeOK, Pending, NEW s \in Sessions, web[s].op = "deducted"
    PROVE  /\ web[s].exchange \in Exchanges
           /\ web[s].amount \in Amounts
           /\ Unsaved(web[s].exchange) = {s}
           /\ Owed[web[s].exchange] = web[s].amount
<1>. DEFINE e == web[s].exchange
<1>1. web[s] \in Web
  BY DEF TypeOK
<1>2. e \in Exchanges /\ web[s].amount \in Amounts
  BY <1>1, WebFields
<1>3. Unsaved(e) = {s}
  BY DEF Unsaved, Pending, Requesting
<1>. HIDE DEF e
<1>4. Owed[e] = web[CHOOSE t \in {s}: TRUE].amount
  BY <1>2, <1>3 DEF Owed
<1> QED
  BY <1>2, <1>3, <1>4 DEF e

LEMMA AmountsType ==
    ASSUME TypeOK, NEW e \in Exchanges
    PROVE  /\ exchange[e].amount \in Nat
           /\ refunds[e] \in Nat
           /\ exchange[e].amount - exchange[e].amount * refunds[e] \in Int
<1>1. exchange[e].amount \in Amounts \cup {0} /\ refunds[e] \in Nat
  BY DEF TypeOK
<1>2. exchange[e].amount \in Nat
  <2>1. \A a \in Amounts \cup {0}: a \in Nat
    BY PointsAssumption
  <2> QED
    BY <1>1, <2>1
<1> QED
  BY <1>1, <1>2

\* What is owed on a row changes only with the row, with a refund or with a
\* request that has taken points for it.
LEMMA OwedKept ==
    ASSUME NEW e \in Exchanges,
           exchange'[e].amount = exchange[e].amount, refunds'[e] = refunds[e],
           \A s \in Sessions:
              \/ web'[s] = web[s]
              \/ /\ web[s].op = "deducted" => web[s].exchange # e
                 /\ web'[s].op = "deducted" => web'[s].exchange # e
    PROVE  Owed'[e] = Owed[e]
<1>1. Unsaved(e)' = Unsaved(e)
  BY DEF Unsaved
<1>2. \A s \in Unsaved(e): web'[s].amount = web[s].amount
  BY DEF Unsaved
<1>3. CASE Unsaved(e) = {}
  BY <1>1, <1>3 DEF Owed
<1>4. CASE Unsaved(e) # {}
  <2>1. (CHOOSE s \in Unsaved(e): TRUE) \in Unsaved(e)
    BY <1>4
  <2>2. Owed[e] = web[CHOOSE s \in Unsaved(e): TRUE].amount
    BY <1>4 DEF Owed
  <2>3. Owed'[e] = web'[CHOOSE s \in Unsaved(e): TRUE].amount
    BY <1>1, <1>4 DEF Owed
  <2> QED
    BY <1>2, <2>1, <2>2, <2>3
<1> QED
  BY <1>3, <1>4

LEMMA OwedUnchanged ==
    ASSUME UNCHANGED <<exchange, refunds>>,
           \A s \in Sessions:
              \/ web'[s] = web[s]
              \/ web[s].op # "deducted" /\ web'[s].op # "deducted"
    PROVE  Owed' = Owed
<1>1. \A e \in Exchanges: Owed'[e] = Owed[e]
  BY OwedKept
<1> QED
  BY <1>1 DEF Owed

LEMMA OwedChanged ==
    ASSUME NEW e \in Exchanges, NEW c, Owed'[e] = c,
           \A x \in Exchanges \ {e}: Owed'[x] = Owed[x]
    PROVE  Owed' = [Owed EXCEPT ![e] = c]
<1>1. Owed' = [x \in Exchanges |-> Owed'[x]]
  BY DEF Owed
<1>2. Owed = [x \in Exchanges |-> Owed[x]]
  BY DEF Owed
<1>. HIDE DEF Owed
<1> QED
  BY <1>1, <1>2

\* The accounts of the ledger do not change.
Quiet == UNCHANGED <<point, lost, Owed>>

LEMMA QuietStep == Quiet => UNCHANGED Account!accounts
  BY DEF Quiet, Account!accounts

\* A step of a request or of a job is an entry of the ledger or none.
LEMMA Entry ==
    ASSUME TypeOK, JobAtRun, Pending, Next
    PROVE  Account!Move \/ UNCHANGED Account!accounts
<1>. /\ web \in [Sessions -> Web] /\ point \in Row
     /\ exchange \in [Exchanges -> [state: {"none", "requested", "accepted",
                                            "refused"},
                                    amount: Amounts \cup {0}]]
     /\ refunds \in [Exchanges -> Nat]
  BY DEF TypeOK
<1>1. SUFFICES ASSUME lost' = FALSE
               PROVE  Account!Move \/ UNCHANGED Account!accounts
  <2>1. lost' \in BOOLEAN
    BY StepType DEF TypeOK
  <2> QED
    BY <2>1 DEF Account!Move, Account!Overwrite
<1>. USE <1>1
\* Points that are earned.
<1>2. ASSUME NEW read \in Row, Credit(read), Owed' = Owed
      PROVE  Account!Move
  <2>1. read = point /\ lost = FALSE
    BY <1>2 DEF Credit, TypeOK
  <2>2. /\ point'.current = point.current + Rate
        /\ point'.sum = point.sum + Rate
    BY <1>2, <2>1 DEF Credit
  <2>3. lost' = lost
    BY <2>1
  <2>4. Account!Earn
    BY <1>2, <2>2, <2>3 DEF Account!Earn
  <2> QED
    BY <2>4 DEF Account!Move
<1>3. ASSUME NEW read, NEW a, Deduct(read, a)
      PROVE  /\ point'.current = point.current - a
             /\ point'.sum = point.sum
             /\ lost' = lost
  <2>1. read.current = point.current /\ lost = FALSE
    BY <1>3 DEF Deduct, TypeOK
  <2>2. lost' = lost
    BY <2>1
  <2>3. /\ point'.current = read.current - a
        /\ point'.sum = point.sum
    BY <1>3 DEF Deduct, Row
  <2> QED
    BY <2>1, <2>2, <2>3
\* Sessions that have taken nothing do not change what is owed.
<1>4. ASSUME NEW s \in Sessions, NEW w, Become(s, w),
             UNCHANGED <<exchange, refunds>>,
             web[s].op # "deducted", w.op # "deducted"
      PROVE  Owed' = Owed
  <2>1. \A t \in Sessions:
          \/ web'[t] = web[t]
          \/ web[t].op # "deducted" /\ web'[t].op # "deducted"
    BY <1>4 DEF Become
  <2> QED
    BY <1>4, <2>1, OwedUnchanged
<1>5. ASSUME NEW s \in Sessions, NEW w, Become(s, w),
             UNCHANGED <<exchange, refunds, point, lost>>,
             web[s].op # "deducted", w.op # "deducted"
      PROVE  UNCHANGED Account!accounts
  BY <1>4, <1>5, QuietStep DEF Quiet
<1>6. ASSUME NEW s \in Sessions, NEW r \in Runs, Score(s, r)
      PROVE  UNCHANGED Account!accounts
  BY <1>5, <1>6 DEF Score, Idle
<1>7. ASSUME NEW s \in Sessions, NEW r \in Runs, NEW p \in {0, Rate},
             ScoreOther(s, r, p)
      PROVE  UNCHANGED Account!accounts
  BY <1>7, OwedUnchanged, QuietStep DEF ScoreOther, Quiet
<1>8. ASSUME NEW s \in Sessions, CommitScore(s)
      PROVE  Account!Move
  <2>1. web[s].op = "scoring" /\ web[s].read \in Row
    BY <1>8, WebFields DEF CommitScore
  <2>2. Owed' = Owed
    BY <1>4, <1>8, <2>1 DEF CommitScore, Idle
  <2> QED
    BY <1>2, <1>8, <2>1, <2>2 DEF CommitScore
<1>9. ASSUME NEW s \in Sessions, NEW e \in Exchanges, NEW a \in Amounts,
             Request(s, e, a)
      PROVE  UNCHANGED Account!accounts
  BY <1>5, <1>9 DEF Request, Idle
<1>10. ASSUME NEW s \in Sessions, ReadBalance(s)
       PROVE  UNCHANGED Account!accounts
  BY <1>5, <1>10 DEF ReadBalance
\* Points are taken: nothing was owed on the row.
<1>11. ASSUME NEW s \in Sessions, CommitDeduction(s)
       PROVE  Account!Move
  <2>1. PICK e \in Exchanges, a \in Amounts:
          web[s].op = "deducting" /\ e = web[s].exchange /\ a = web[s].amount
    BY <1>11, WebFields DEF CommitDeduction
  <2>2. Owed[e] = 0
    <3>1. exchange[e].amount = 0 /\ refunds[e] = 0
      BY <2>1 DEF Pending, Requesting
    <3>2. Unsaved(e) = {}
      BY <2>1 DEF Pending, Requesting, Unsaved
    <3>3. Owed[e] = exchange[e].amount - exchange[e].amount * refunds[e]
      BY <3>2, OwedOnRow
    <3>4. 0 - 0 * 0 = 0
      OBVIOUS
    <3> QED
      BY <3>1, <3>3, <3>4
  <2>3. /\ web'[s] = [op |-> "deducted", exchange |-> e, amount |-> a]
        /\ \A t \in Sessions \ {s}: web'[t] = web[t]
        /\ UNCHANGED <<exchange, refunds>>
    BY <1>11, <2>1 DEF CommitDeduction, Become
  <2>4. \A x \in Exchanges \ {e}: Owed'[x] = Owed[x]
    BY <2>1, <2>3, OwedKept
  <2>5. Owed'[e] = a
    <3>1. Unsaved(e)' = {s}
      BY <2>1, <2>3 DEF Unsaved, Pending, Requesting
    <3>2. Owed'[e] = web'[CHOOSE t \in {s}: TRUE].amount
      BY <3>1 DEF Owed
    <3> QED
      BY <2>3, <3>2
  <2>6. Owed' = [Owed EXCEPT ![e] = a]
    BY <2>1, <2>4, <2>5, OwedChanged
  <2>7. /\ point'.current = point.current - a
        /\ point'.sum = point.sum
        /\ lost' = lost
    <3>1. Deduct(web[s].read, a)
      BY <1>11, <2>1 DEF CommitDeduction
    <3> QED
      BY <1>3, <3>1
  <2>8. Account!Take(e, a)
    BY <2>2, <2>6, <2>7 DEF Account!Take
  <2> QED
    BY <2>1, <2>8 DEF Account!Move
\* What the request has taken is owed on its row from now on.
<1>12. ASSUME NEW s \in Sessions, SaveExchange(s)
       PROVE  UNCHANGED Account!accounts
  <2>1. PICK e \in Exchanges:
          /\ web[s].op = "deducted" /\ e = web[s].exchange
          /\ Unsaved(e) = {s} /\ Owed[e] = web[s].amount
          /\ web[s].amount \in Amounts
    BY <1>12, OwedOnRequest DEF SaveExchange
  <2>2. refunds[e] = 0
    BY <2>1 DEF Pending, Requesting
  <2>3. /\ exchange'[e].amount = web[s].amount
        /\ \A x \in Exchanges \ {e}: exchange'[x] = exchange[x]
        /\ UNCHANGED <<point, lost, refunds>>
    BY <1>12, <2>1 DEF SaveExchange
  <2>4. /\ web'[s] = Idle
        /\ \A t \in Sessions \ {s}: web'[t] = web[t]
    BY <1>12 DEF SaveExchange, Become
  <2>5. \A x \in Exchanges \ {e}: Owed'[x] = Owed[x]
    BY <2>1, <2>3, <2>4, OwedKept DEF Idle
  <2>6. Owed'[e] = Owed[e]
    <3>1. Unsaved(e)' = {}
      BY <2>1, <2>4 DEF Unsaved, Idle
    <3>2. Owed'[e] = exchange'[e].amount - exchange'[e].amount * refunds'[e]
      BY <2>1, <3>1 DEF Owed
    <3>3. exchange'[e].amount \in Int
      <4>1. \A a \in Amounts: a \in Int
        BY PointsAssumption
      <4> QED
        BY <2>1, <2>3, <4>1
    <3>4. exchange'[e].amount - exchange'[e].amount * 0 = exchange'[e].amount
      BY <3>3
    <3> QED
      BY <2>1, <2>2, <2>3, <3>2, <3>4
  <2>7. Owed' = Owed
    BY <2>5, <2>6 DEF Owed
  <2> QED
    BY <2>3, <2>7, QuietStep DEF Quiet
<1>13. ASSUME NEW s \in Sessions, NEW e \in Exchanges, ReadRefund(s, e)
       PROVE  UNCHANGED Account!accounts
  BY <1>5, <1>13 DEF ReadRefund, Idle
\* Points are given back for a row that is there, and that no request has
\* taken points for.
<1>14. ASSUME NEW s \in Sessions, CommitRefund(s)
       PROVE  Account!Move
  <2>1. PICK e \in Exchanges, a \in Amounts:
          /\ web[s].op = "refunding" /\ e = web[s].exchange
          /\ exchange[e].state # "none" /\ a = exchange[e].amount
    BY <1>14, WebFields DEF CommitRefund, Pending
  <2>2. /\ web'[s] = [op |-> "refunded", exchange |-> e]
        /\ \A t \in Sessions \ {s}: web'[t] = web[t]
        /\ exchange' = exchange
        /\ refunds' = [refunds EXCEPT ![e] = @ + 1]
    BY <1>14, <2>1 DEF CommitRefund, Become
  <2>3. \A x \in Exchanges \ {e}: Owed'[x] = Owed[x]
    BY <2>1, <2>2, OwedKept
  <2>4. Unsaved(e) = {} /\ Unsaved(e)' = {}
    BY <2>1, <2>2 DEF Pending, Requesting, Unsaved
  <2>5. Owed'[e] = Owed[e] - a
    <3>1. Owed[e] = a - a * refunds[e]
      BY <2>1, <2>4 DEF Owed
    <3>2. Owed'[e] = a - a * (refunds[e] + 1)
      BY <2>1, <2>2, <2>4 DEF Owed
    <3>3. a \in Int /\ refunds[e] \in Int
      BY <2>1, AmountsType
    <3>. DEFINE n == refunds[e]
    <3>. HIDE DEF n
    <3>4. a - a * (n + 1) = (a - a * n) - a
      BY <3>3 DEF n
    <3> QED
      BY <3>1, <3>2, <3>4 DEF n
  <2>6. Owed' = [Owed EXCEPT ![e] = @ - a]
    BY <2>1, <2>3, <2>5, OwedChanged
  <2>7. /\ point'.current = point.current - (-a)
        /\ point'.sum = point.sum
        /\ lost' = lost
    <3>1. Deduct(web[s].read, -a)
      BY <1>14, <2>1 DEF CommitRefund
    <3> QED
      BY <1>3, <3>1
  <2>8. point'.current = point.current + a
    <3>1. a \in Int /\ point.current \in Int
      BY <2>1, AmountsType DEF Row
    <3> QED
      BY <2>7, <3>1
  <2>9. Account!GiveBack(e, a)
    BY <2>6, <2>7, <2>8 DEF Account!GiveBack
  <2> QED
    BY <2>1, <2>9 DEF Account!Move
<1>15. ASSUME NEW s \in Sessions, MarkRefused(s)
       PROVE  UNCHANGED Account!accounts
  <2>1. PICK e \in Exchanges: web[s].op = "refunded" /\ e = web[s].exchange
    BY <1>15, WebFields DEF MarkRefused
  <2>2. /\ \A x \in Exchanges: exchange'[x].amount = exchange[x].amount
        /\ UNCHANGED <<point, lost, refunds>>
    BY <1>15, <2>1 DEF MarkRefused
  <2>3. /\ web'[s] = Idle
        /\ \A t \in Sessions \ {s}: web'[t] = web[t]
    BY <1>15 DEF MarkRefused, Become
  <2>4. \A x \in Exchanges: Owed'[x] = Owed[x]
    BY <2>1, <2>2, <2>3, OwedKept DEF Idle
  <2>5. Owed' = Owed
    BY <2>4 DEF Owed
  <2> QED
    BY <2>2, <2>5, QuietStep DEF Quiet
\* A request that fails after it has taken points: nothing was ever owed on
\* its row but them.
<1>16. ASSUME NEW s \in Sessions, Fail(s)
       PROVE  Account!Move \/ UNCHANGED Account!accounts
  <2>1. CASE web[s].op # "deducted"
    BY <1>5, <1>16, <2>1 DEF Fail, Idle
  <2>2. CASE web[s].op = "deducted"
    <3>1. PICK e \in Exchanges:
            /\ e = web[s].exchange /\ Unsaved(e) = {s}
            /\ Owed[e] = web[s].amount /\ web[s].amount \in Amounts
      BY <2>2, OwedOnRequest
    <3>2. /\ web'[s] = Idle
          /\ \A t \in Sessions \ {s}: web'[t] = web[t]
          /\ UNCHANGED <<point, lost, exchange, refunds>>
      BY <1>16 DEF Fail, Become
    <3>3. \A x \in Exchanges \ {e}: Owed'[x] = Owed[x]
      BY <2>2, <3>1, <3>2, OwedKept DEF Idle
    <3>4. exchange[e].amount = 0 /\ refunds[e] = 0
      BY <2>2, <3>1 DEF Pending, Requesting
    <3>5. Owed'[e] = 0
      <4>1. Unsaved(e)' = {}
        BY <3>1, <3>2 DEF Unsaved, Idle
      <4> QED
        BY <3>1, <3>2, <3>4, <4>1 DEF Owed
    <3>6. Owed' = [Owed EXCEPT ![e] = 0]
      BY <3>1, <3>3, <3>5, OwedChanged
    <3>7. Owed[e] > 0
      <4>1. \A a \in Amounts: a > 0
        BY PointsAssumption
      <4> QED
        BY <3>1, <4>1
    <3>8. Account!WriteOff(e)
      BY <3>2, <3>6, <3>7 DEF Account!WriteOff
    <3> QED
      BY <3>1, <3>8 DEF Account!Move
  <2> QED
    BY <2>1, <2>2
<1>17. CASE JobStep
  <2>1. UNCHANGED <<web, exchange, refunds>>
    BY <1>17 DEF JobStep, Upload, StartJob, Find, ReadPoints, Pay, MarkWrong,
                 FinishJob, CrashJob
  <2>2. Owed' = Owed
    BY <2>1, OwedUnchanged
  <2>3. CASE Pay
    <3>1. job.read \in Row
      BY DEF TypeOK, Job
    <3> QED
      BY <1>2, <2>2, <2>3, <3>1 DEF Pay
  <2>4. CASE ~Pay
    <3>1. UNCHANGED <<point, lost>>
      BY <1>17, <2>4 DEF JobStep, Upload, StartJob, Find, ReadPoints,
                         MarkWrong, FinishJob, CrashJob
    <3> QED
      BY <2>2, <3>1, QuietStep DEF Quiet
  <2> QED
    BY <2>3, <2>4
<1>18. ASSUME NEW e \in Exchanges, Accept(e)
       PROVE  UNCHANGED Account!accounts
  <2>1. /\ \A x \in Exchanges: exchange'[x].amount = exchange[x].amount
        /\ UNCHANGED <<point, lost, refunds, web>>
    BY <1>18 DEF Accept
  <2>2. \A x \in Exchanges: Owed'[x] = Owed[x]
    BY <2>1, OwedKept
  <2>3. Owed' = Owed
    BY <2>2 DEF Owed
  <2> QED
    BY <2>1, <2>3, QuietStep DEF Quiet
<1> QED
  BY <1>6, <1>7, <1>8, <1>9, <1>10, <1>11, <1>12, <1>13, <1>14, <1>15, <1>16,
     <1>17, <1>18
  DEF Next, WebStep

\* The points of a contributor are a ledger: whichever of his requests, the
\* jobs and the administrator come first, each of their commits is one entry.
THEOREM LedgerKeptAlways == Spec => LedgerKept
<1>1. ASSUME Init
      PROVE  Account!Start
  <2>1. \A e \in Exchanges:
          /\ Unsaved(e) = {}
          /\ exchange[e].amount - exchange[e].amount * refunds[e] = 0
    BY <1>1 DEF Init, Unsaved, Idle
  <2>2. Owed = [e \in Exchanges |-> 0]
    BY <2>1 DEF Owed
  <2> QED
    BY <1>1, <2>2 DEF Init, Account!Start
<1>2. TypeOK /\ JobAtRun /\ Pending /\ Next
        => Account!Move \/ UNCHANGED Account!accounts
  BY Entry
<1>3. UNCHANGED vars => UNCHANGED Account!accounts
  BY OwedUnchanged, QuietStep DEF vars, Quiet
<1> QED
  BY <1>1, <1>2, <1>3, Typed, PendingAlways, PTL
  DEF Spec, LedgerKept, Account!Book

AccountProofs == INSTANCE LedgerProofs
                 WITH Requests <- Exchanges, balance <- point.current,
                      earned <- point.sum, claims <- Owed, overwritten <- lost

\* The balance and what was taken for requests and not given back are within
\* what he earned, because a ledger is balanced: no failure between the commits
\* of a request makes points.
THEOREM AccountedForAlways == Spec => []AccountedFor
<1>1. Account!Start => AccountProofs!Start
  BY DEF Account!Start, AccountProofs!Start
<1>2. Account!Move => AccountProofs!Move
  BY DEF Account!Move, Account!Earn, Account!Take, Account!GiveBack,
         Account!WriteOff, Account!Overwrite,
         AccountProofs!Move, AccountProofs!Earn, AccountProofs!Take,
         AccountProofs!GiveBack, AccountProofs!WriteOff,
         AccountProofs!Overwrite
<1>3. UNCHANGED Account!accounts => UNCHANGED AccountProofs!accounts
  BY DEF Account!accounts, AccountProofs!accounts
<1>4. Account!Book => AccountProofs!Book
  BY <1>1, <1>2, <1>3, PTL DEF Account!Book, AccountProofs!Book
<1>5. AccountProofs!Book => []AccountProofs!Balanced
  <2>1. /\ AccountProofs!IsFiniteSet(Exchanges)
        /\ Rate \in Nat
        /\ Amounts \subseteq Nat
    BY PointsAssumption DEF IsFiniteSet, AccountProofs!IsFiniteSet
  <2> QED
    BY <2>1, AccountProofs!BalancedAlways
<1>6. AccountProofs!Balanced => AccountedFor
  <2>1. AccountProofs!SumFunction(Owed) = SumFunction(Owed)
    BY DEF SumFunction, SumFunctionOnSet, FoldFunctionOnSet, MapThenFoldSet,
           AccountProofs!SumFunction, AccountProofs!SumFunctionOnSet,
           AccountProofs!FoldFunctionOnSet, AccountProofs!MapThenFoldSet
  <2> QED
    BY <2>1 DEF AccountProofs!Balanced, AccountedFor
<1> QED
  BY <1>4, <1>5, <1>6, LedgerKeptAlways, PTL DEF LedgerKept

\* Nobody spends more than was earned while the administrator refuses no
\* exchange twice: what is owed on a row is then never negative.
THEOREM SpendsWhatHeEarnedAlways == Spec => []SpendsWhatHeEarned
<1>1. ASSUME TypeOK, Pending, AccountedFor,
             \A e \in Exchanges: refunds[e] <= 1, ~lost
      PROVE  point.current <= point.sum
  <2>1. ASSUME NEW e \in Exchanges
        PROVE  Owed[e] \in Nat
    <3>1. CASE Unsaved(e) = {}
      <4>. DEFINE a == exchange[e].amount
                  n == refunds[e]
      <4>1. a \in Nat /\ (n = 0 \/ n = 1)
        <5>1. a \in Nat /\ n \in Nat
          BY <1>1, AmountsType
        <5>2. n <= 1
          BY <1>1
        <5>. HIDE DEF a, n
        <5> QED
          BY <5>1, <5>2
      <4>2. Owed[e] = a - a * n
        BY <1>1, <3>1, OwedOnRow
      <4>. HIDE DEF a, n
      <4>3. CASE n = 0
        BY <4>1, <4>2, <4>3
      <4>4. CASE n = 1
        BY <4>1, <4>2, <4>4
      <4> QED
        BY <4>1, <4>3, <4>4
    <3>2. CASE Unsaved(e) # {}
      <4>1. PICK s \in Sessions: web[s].op = "deducted" /\ web[s].exchange = e
        BY <3>2 DEF Unsaved
      <4>2. Owed[e] \in Amounts
        BY <1>1, <4>1, OwedOnRequest
      <4>3. \A a \in Amounts: a \in Nat
        BY PointsAssumption
      <4> QED
        BY <4>2, <4>3
    <3> QED
      BY <3>1, <3>2
  <2>2. Owed \in [Exchanges -> Nat]
    BY <2>1 DEF Owed
  <2>3. SumFunction(Owed) \in Nat
    <3>1. IsFiniteSet(Exchanges)
      BY PointsAssumption
    <3>. HIDE DEF Owed
    <3> QED
      BY <2>2, <3>1, SumOfNats
  <2>4. point.current \in Int /\ point.sum \in Int
    BY <1>1 DEF TypeOK, Row
  <2>5. point.current + SumFunction(Owed) <= point.sum
    BY <1>1 DEF AccountedFor
  <2> QED
    BY <2>3, <2>4, <2>5
<1>2. TypeOK /\ Pending /\ AccountedFor => SpendsWhatHeEarned
  BY <1>1 DEF SpendsWhatHeEarned
<1> QED
  BY <1>2, AccountedForAlways, TypeCorrect, PendingAlways, PTL

=============================================================================
