------------------------- MODULE ProjectLifeProofs -------------------------
(***************************************************************************)
(* Theorems about ProjectLife: its types, and that the flag complete was   *)
(* earned, for any projects, pages and numbers of changes.                 *)
(***************************************************************************)
EXTENDS ProjectLife, TLAPS

(***************************************************************************)
(* The rounding of the percentage.                                         *)
(***************************************************************************)

\* The quotient of a natural number and a positive one.
LEMMA Quotient ==
    ASSUME NEW a \in Nat, NEW b \in Nat \ {0}
    PROVE  a \div b \in Nat /\ b * (a \div b) <= a
  OBVIOUS

LEMMA PercentType ==
    ASSUME NEW c \in Counts
    PROVE  Percent(c) \in Nat
  BY DEF Percent

\* What rounds to 100 is at least 99.5 percent.
LEMMA RoundedTo100 ==
    ASSUME NEW c \in Counts, Percent(c) >= 100
    PROVE  NearlyAll(c)
<1>1. c.tasks \in Nat \ {0} /\ c.done \in Nat
  BY DEF Counts, Percent
<1> DEFINE q == (200 * c.done + c.tasks) \div (2 * c.tasks)
<1>2. q \in Nat /\ 2 * c.tasks * q <= 200 * c.done + c.tasks
  <2>1. 200 * c.done + c.tasks \in Nat /\ 2 * c.tasks \in Nat \ {0}
    BY <1>1
  <2> QED
    BY <1>1, <2>1, Quotient
<1>3. q >= 100
  BY DEF Percent
<1> HIDE DEF q
<1>4. 2 * c.tasks * 100 <= 2 * c.tasks * q
  <2>1. \A n, r \in Nat: n * (100 + r) >= 100 * n
    OBVIOUS
  <2>2. q - 100 \in Nat /\ q = 100 + (q - 100)
    BY <1>2, <1>3
  <2> QED
    BY <1>1, <1>2, <2>1, <2>2
<1> QED
  BY <1>1, <1>2, <1>4 DEF NearlyAll

\* The steps of the job but the one with memoized counts.
CountingStep == AnyTasks \/ CountDone \/ CountTasks \/ LoadProject \/ SaveStats

-----------------------------------------------------------------------------
(* Types *)

\* A next state of one page leaves the others.
LEMMA PageType ==
    ASSUME page \in [Pages -> Page], NEW p \in Pages, NEW q \in Page,
           OfPage(p, q)
    PROVE  page' \in [Pages -> Page]
  BY DEF OfPage

\* Init gives every variable a value of its type.
LEMMA InitType == Init => TypeOK
<1> SUFFICES ASSUME Init
             PROVE  TypeOK
  OBVIOUS
<1>1. db \in Counts /\ db.done <= db.tasks
  BY LifeAssumption DEF Init
<1>2. job \in Job
  BY DEF Init, Job, Idle, Counts
<1>3. page \in [Pages -> Page]
  BY DEF Init, Page, Closed
<1>4. earned \in BOOLEAN
  BY DEF Init, NearlyAll
<1>5. project \in [published: BOOLEAN, complete: BOOLEAN, over: BOOLEAN]
  BY DEF Init
<1>6. progress = 0 /\ memo = NoValue /\ changes = 0 /\ torn = FALSE
  BY DEF Init
<1>7. 0 \in Nat /\ 0 \in 0..MaxChanges
  BY LifeAssumption
<1>8. recent \subseteq {c \in Counts: c.done <= c.tasks} /\ db \in recent
  BY <1>1 DEF Init
<1> QED
  BY <1>1, <1>2, <1>3, <1>4, <1>5, <1>6, <1>7, <1>8, Zenon DEF TypeOK

\* The actions on the tasks keep the types.
LEMMA TasksType ==
    ASSUME TypeOK,
           \/ CompleteTask \/ AddTask \/ ReopenTask
           \/ \E completed \in {0, 1}: DeleteTask(completed)
    PROVE  TypeOK'
<1>1. changes' \in 0..MaxChanges
  BY LifeAssumption
     DEF TypeOK, CompleteTask, AddTask, ReopenTask, DeleteTask, Change
<1>2. db' \in Counts /\ db'.done <= db'.tasks
  BY DEF TypeOK, Counts, CompleteTask, AddTask, ReopenTask, DeleteTask,
         Recount
<1>3. earned' \in BOOLEAN /\ torn' \in BOOLEAN
  BY DEF TypeOK, CompleteTask, AddTask, ReopenTask, DeleteTask, Recount
<1>4. UNCHANGED <<project, progress, memo, job, page>>
  BY DEF CompleteTask, AddTask, ReopenTask, DeleteTask, Recount
<1>5. recent' = recent \cup {db'}
  BY DEF CompleteTask, AddTask, ReopenTask, DeleteTask, Recount
<1> QED
  BY <1>1, <1>2, <1>3, <1>4, <1>5 DEF TypeOK

\* The steps of the job keep the types.
LEMMA JobType ==
    ASSUME TypeOK, Enqueue \/ StartWeekly \/ CountingStep \/ FailJob
    PROVE  TypeOK'
<1>1. job \in Job /\ db \in Counts /\ project.complete \in BOOLEAN
  BY DEF TypeOK
<1>2. job' \in Job
  <2>1. Idle \in Job /\ [Idle EXCEPT !.at = "queued"] \in Job
    BY DEF Idle, Job, Counts
  <2>2. CASE Enqueue \/ SaveStats \/ FailJob
    BY <2>1, <2>2 DEF Enqueue, SaveStats, FailJob, OfJob
  <2>7. CASE StartWeekly
    BY <1>1, <2>1, <2>7 DEF StartWeekly, OfJob, Job, Idle, Counts
  <2>3. CASE AnyTasks
    BY <1>1, <2>3 DEF AnyTasks, OfJob, Job
  <2>4. CASE CountDone
    <3>1. job' = [job EXCEPT !.at = "again", !.seen.done = db.done]
      BY <2>4 DEF CountDone, OfJob
    <3>2. db.done \in Nat
      BY <1>1 DEF Counts
    <3> QED
      BY <1>1, <3>1, <3>2 DEF Job, Counts
  <2>5. CASE CountTasks
    <3>1. \/ job' = Idle
          \/ job' = [job EXCEPT !.at = "load", !.seen.tasks = db.tasks]
      BY <2>5 DEF CountTasks, OfJob
    <3>2. db.tasks \in Nat
      BY <1>1 DEF Counts
    <3>3. [job EXCEPT !.at = "load", !.seen.tasks = db.tasks] \in Job
      BY <1>1, <3>2 DEF Job, Counts
    <3> QED
      BY <2>1, <3>1, <3>3
  <2>6. CASE LoadProject
    BY <1>1, <2>6 DEF LoadProject, OfJob, Job
  <2> QED
    BY <2>2, <2>3, <2>4, <2>5, <2>6, <2>7 DEF CountingStep
<1>3. progress' \in Nat
  <2>1. job.seen \in Counts
    BY <1>1 DEF Job
  <2> QED
    BY <2>1, PercentType
       DEF TypeOK, Enqueue, CountingStep, StartWeekly, FailJob, AnyTasks, CountDone, CountTasks,
           LoadProject, SaveStats, Save
<1>4. project' \in [published: BOOLEAN, complete: BOOLEAN, over: BOOLEAN]
  <2>1. Written(job.complete, AllDone(job.seen)) \in BOOLEAN
    BY <1>1 DEF Written, AllDone
  <2> QED
    BY <2>1
       DEF TypeOK, Enqueue, CountingStep, StartWeekly, FailJob, AnyTasks, CountDone, CountTasks,
           LoadProject, SaveStats, Save
<1>5. changes' \in 0..MaxChanges
  BY LifeAssumption
     DEF TypeOK, Enqueue, CountingStep, StartWeekly, FailJob, AnyTasks, CountDone, CountTasks,
         LoadProject, SaveStats, Change
<1>6. UNCHANGED <<db, memo, recent, page, earned, torn>>
  BY DEF Enqueue, CountingStep, StartWeekly, FailJob, AnyTasks, CountDone, CountTasks,
         LoadProject, SaveStats, OfJob
<1> QED
  BY <1>2, <1>3, <1>4, <1>5, <1>6 DEF TypeOK

\* The steps of a page keep the types.
LEMMA PagesType ==
    ASSUME TypeOK, NEW p \in Pages,
           OpenPage(p) \/ ReadStats(p) \/ PageStep(p)
    PROVE  TypeOK'
<1>1. /\ page[p] \in Page
      /\ page \in [Pages -> Page]
      /\ progress \in Nat
      /\ memo # NoValue => memo \in Nat
      /\ project.complete \in BOOLEAN
  BY DEF TypeOK
<1>2. PICK q \in Page: OfPage(p, q)
  <2>1. CASE OpenPage(p)
    BY <1>1, <2>1 DEF OpenPage, Page, Closed
  <2>2. CASE GetStats(p)
    BY <1>1, <2>2 DEF GetStats, Page
  <2>3. CASE QueryStats(p)
    BY <1>1, <2>3 DEF QueryStats, Page
  <2>4. CASE KeepStats(p)
    BY <1>1, <2>4 DEF KeepStats, Page
  <2>5. CASE ReadStats(p)
    BY <1>1, <2>5 DEF ReadStats, Page
  <2>6. CASE ChangeComplete(p) \/ RefusePage(p)
    BY <2>6 DEF ChangeComplete, RefusePage, Page, Closed
  <2>7. CASE Reload(p)
    BY <1>1, <2>7 DEF Reload, Page
  <2> QED
    BY <2>1, <2>2, <2>3, <2>4, <2>5, <2>6, <2>7 DEF PageStep
<1>3. page' \in [Pages -> Page]
  BY <1>1, <1>2, PageType
<1>4. memo' \in Nat \cup {NoValue}
  <2>1. page[p].progress \in Nat /\ memo \in Nat \cup {NoValue}
    BY <1>1 DEF TypeOK, Page
  <2>2. memo' = memo \/ memo' = page[p].progress
    BY DEF OpenPage, ReadStats, PageStep, GetStats, QueryStats, KeepStats,
           Reload, ChangeComplete, RefusePage
  <2> QED
    BY <2>1, <2>2
<1>5. project' \in [published: BOOLEAN, complete: BOOLEAN, over: BOOLEAN]
  <2>1. \A b \in BOOLEAN: Written(page[p].complete, b) \in BOOLEAN
    BY <1>1 DEF Written
  <2>2. (page[p].progress >= 100) \in BOOLEAN
    BY <1>1 DEF Page
  <2> QED
    BY <2>1, <2>2
       DEF TypeOK, OpenPage, ReadStats, PageStep, GetStats, QueryStats,
           KeepStats, Reload, ChangeComplete, RefusePage
<1> QED
  BY <1>2, <1>3, <1>4, <1>5 DEF TypeOK, OfPage

\* What is computed from memoized counts has the types of both rows.
LEMMA SaveMixedType ==
    ASSUME TypeOK, NEW loaded \in BOOLEAN, NEW c \in recent, NEW d \in recent,
           SaveMixed(loaded, c, d)
    PROVE  /\ progress' \in Nat
           /\ project' \in [published: BOOLEAN, complete: BOOLEAN, over: BOOLEAN]
           /\ torn' \in BOOLEAN
<1>1. Mixed(c, d) \in Counts
  BY DEF TypeOK, Mixed, Counts
<1>2. progress' \in Nat
  BY <1>1, PercentType DEF SaveMixed, Save
<1>3. project' \in [published: BOOLEAN, complete: BOOLEAN, over: BOOLEAN]
  <2>1. Written(loaded, AllDone(Mixed(c, d))) \in BOOLEAN
    BY DEF Written, AllDone, TypeOK
  <2> QED
    BY <2>1 DEF SaveMixed, Save, TypeOK
<1>4. torn' \in BOOLEAN
  BY Zenon DEF SaveMixed, TypeOK
<1> QED
  BY <1>2, <1>3, <1>4

\* So do the mail and the page that save them.
LEMMA MixedType ==
    ASSUME TypeOK, SaveWeekly \/ \E p \in Pages: ShowStats(p)
    PROVE  TypeOK'
<1>1. /\ progress' \in Nat
      /\ project' \in [published: BOOLEAN, complete: BOOLEAN, over: BOOLEAN]
      /\ torn' \in BOOLEAN
  <2>1. CASE SaveWeekly
    <3>1. job.complete \in BOOLEAN
      BY DEF TypeOK, Job
    <3> QED
      BY <2>1, <3>1, SaveMixedType DEF SaveWeekly
  <2>2. ASSUME NEW p \in Pages, ShowStats(p)
        PROVE  /\ progress' \in Nat
               /\ project' \in
                    [published: BOOLEAN, complete: BOOLEAN, over: BOOLEAN]
               /\ torn' \in BOOLEAN
    <3>1. page[p].complete \in BOOLEAN
      BY DEF TypeOK, Page
    <3> QED
      BY <2>2, <3>1, SaveMixedType DEF ShowStats
  <2> QED
    BY <2>1, <2>2
<1>2. UNCHANGED <<db, memo, recent, changes, earned>>
  BY DEF SaveWeekly, ShowStats
<1>3. job' \in Job
  <2>1. Idle \in Job
    BY DEF Idle, Job, Counts
  <2> QED
    BY <2>1 DEF TypeOK, SaveWeekly, ShowStats
<1>4. page' \in [Pages -> Page]
  BY DEF TypeOK, SaveWeekly, ShowStats, Page
<1> QED
  BY <1>1, <1>2, <1>3, <1>4 DEF TypeOK

\* Publication, the end date and the cache keep the types.
LEMMA ProjectType ==
    ASSUME TypeOK,
           \/ Expire \/ Publish \/ PassEndDate \/ ExtendEndDate \/ CloseOverdue
           \/ \E c \in recent: Forget(c)
    PROVE  TypeOK'
  BY DEF TypeOK, Expire, Publish, PassEndDate, ExtendEndDate, CloseOverdue,
         OfProject, Forget

\* Every step keeps the types.
LEMMA NextType ==
    ASSUME TypeOK, [Next]_vars
    PROVE  TypeOK'
<1>1. CASE Next
  BY <1>1, TasksType, JobType, PagesType, MixedType, ProjectType
     DEF Next, JobStep, CountingStep
<1>2. CASE UNCHANGED vars
  BY <1>2 DEF TypeOK, vars
<1> QED
  BY <1>1, <1>2

\* The rows, the cache, the job and the pages keep their types, for any
\* projects and pages.
THEOREM TypeCorrect == Spec => []TypeOK
<1>1. Init => TypeOK
  BY InitType
<1>2. TypeOK /\ [Next]_vars => TypeOK'
  BY NextType
<1> QED
  BY <1>1, <1>2, PTL DEF Spec

-----------------------------------------------------------------------------
(* The flag was earned *)

Excused == earned \/ torn

\* What a job has counted is at most what was completed at one moment.
JobEarned ==
    /\ job.at = "queued" => job.seen.tasks = 0
    /\ /\ job.at = "again"
       /\ job.seen.done > 0
       /\ 199 * db.tasks <= 200 * job.seen.done
       => Excused
    /\ job.at \in {"load", "save"} /\ NearlyAll(job.seen) => Excused

\* Every place that can set the flag, directly or later, has a reason to.
AllEarned ==
    /\ \A c \in recent: NearlyAll(c) => earned
    /\ project.complete => Excused
    /\ progress >= 100 => Excused
    /\ memo >= 100 => Excused
    /\ \A p \in Pages: page[p].progress >= 100 => Excused
    /\ JobEarned

\* A new project claims nothing.
LEMMA InitEarned == Init => AllEarned
  BY DEF Init, AllEarned, JobEarned, Idle, Closed, NoValue

\* Tasks that are added make the counts of a job less of a claim, and a
\* deletion between its counts is remembered.
LEMMA TasksEarned ==
    ASSUME TypeOK, AllEarned,
           \/ CompleteTask \/ AddTask \/ ReopenTask
           \/ \E completed \in {0, 1}: DeleteTask(completed)
    PROVE  AllEarned'
<1>1. /\ Excused => Excused'
      /\ \A c \in recent': NearlyAll(c) => earned'
      /\ UNCHANGED <<project, progress, memo, job, page>>
  <2>1. PICK c: Recount(c)
    BY DEF CompleteTask, AddTask, ReopenTask, DeleteTask
  <2>2. /\ earned => earned'
        /\ NearlyAll(c) => earned'
        /\ recent' = recent \cup {c}
        /\ UNCHANGED <<project, progress, memo, page>>
    BY <2>1, Zenon DEF Recount
  <2>3. (torn => torn') /\ job' = job
    <3>1. CASE CompleteTask \/ AddTask \/ ReopenTask
      BY <3>1 DEF CompleteTask, AddTask, ReopenTask
    <3>2. ASSUME NEW completed \in {0, 1}, DeleteTask(completed)
          PROVE  (torn => torn') /\ job' = job
      BY <3>2, Zenon DEF DeleteTask
    <3> QED
      BY <3>1, <3>2
  <2>4. \A k \in recent': NearlyAll(k) => earned'
    BY <2>2 DEF AllEarned
  <2> QED
    BY <2>2, <2>3, <2>4 DEF Excused
<1>2. ASSUME job.at = "again", job.seen.done > 0,
             199 * db'.tasks <= 200 * job.seen.done
      PROVE  Excused'
  <2>1. CASE \E completed \in {0, 1}: DeleteTask(completed)
    BY <1>2, <2>1 DEF DeleteTask, Excused
  <2>2. CASE CompleteTask \/ AddTask \/ ReopenTask
    <3>1. /\ db.tasks \in Nat
          /\ job.seen.done \in Nat
          /\ db'.tasks = db.tasks \/ db'.tasks = db.tasks + 1
      BY <2>2
         DEF TypeOK, Job, Counts, CompleteTask, AddTask, ReopenTask, Recount
    <3>2. 199 * db.tasks <= 200 * job.seen.done
      BY <1>2, <3>1
    <3> QED
      BY <1>1, <1>2, <3>2 DEF AllEarned, JobEarned
  <2> QED
    BY <2>1, <2>2
<1>3. JobEarned'
  BY <1>1, <1>2 DEF AllEarned, JobEarned
<1> QED
  BY <1>1, <1>3 DEF AllEarned

\* What was completed when the job counted it was completed of the tasks there
\* were, and there are no fewer when it counts these.
LEMMA JobStepEarned ==
    ASSUME TypeOK, AllEarned, Enqueue \/ StartWeekly \/ CountingStep \/ FailJob
    PROVE  AllEarned'
<1>1. /\ db \in Counts
      /\ job \in Job
      /\ db.done <= db.tasks
  BY DEF TypeOK
<1>2. UNCHANGED <<db, memo, recent, page, earned, torn>>
  BY DEF Enqueue, CountingStep, StartWeekly, FailJob, AnyTasks, CountDone, CountTasks,
         LoadProject, SaveStats, OfJob
<1>3. JobEarned'
  <2>1. CASE AnyTasks
    BY <1>1, <1>2, <2>1
       DEF AnyTasks, OfJob, AllEarned, JobEarned, Excused, Job, NearlyAll
  <2>2. CASE CountDone
    <3>1. /\ job'.at = "again"
          /\ job'.seen.done = db.done
      BY <1>1, <2>2 DEF CountDone, OfJob, Job, Counts
    <3>2. db.done > 0 /\ 199 * db.tasks <= 200 * db.done => NearlyAll(db)
      BY <1>1 DEF NearlyAll, Counts
    <3>3. db \in recent
      BY DEF TypeOK
    <3> QED
      BY <1>2, <3>1, <3>2, <3>3 DEF AllEarned, JobEarned, Excused
  <2>3. CASE CountTasks
    <3>1. CASE db.tasks = 0
      BY <2>3, <3>1 DEF CountTasks, OfJob, JobEarned, Idle
    <3>2. CASE db.tasks # 0
      <4>1. /\ job'.at = "load"
            /\ job'.seen.tasks = db.tasks
            /\ job'.seen.done = job.seen.done
            /\ job.seen.done \in Nat
        BY <1>1, <2>3, <3>2 DEF CountTasks, OfJob, Job, Counts
      <4>2. NearlyAll(job'.seen) =>
              job.seen.done > 0 /\ 199 * db.tasks <= 200 * job.seen.done
        BY <1>1, <4>1 DEF NearlyAll, Counts
      <4> QED
        BY <1>2, <2>3, <4>1, <4>2
           DEF CountTasks, AllEarned, JobEarned, Excused
    <3> QED
      BY <3>1, <3>2
  <2>4. CASE LoadProject
    BY <1>1, <1>2, <2>4
       DEF LoadProject, OfJob, AllEarned, JobEarned, Excused, Job
  <2>5. CASE Enqueue \/ SaveStats \/ FailJob
    BY <2>5 DEF Enqueue, SaveStats, FailJob, OfJob, JobEarned, Idle
  <2>6. CASE StartWeekly
    <3>1. job'.at = "weekly"
      BY <2>6 DEF StartWeekly, OfJob, Idle
    <3> QED
      BY <3>1 DEF JobEarned
  <2> QED
    BY <2>1, <2>2, <2>3, <2>4, <2>5, <2>6 DEF CountingStep
<1>4. /\ project'.complete => Excused'
      /\ progress' >= 100 => Excused'
  <2>1. CASE SaveStats
    <3>1. job.at = "save" /\ job.seen \in Counts
      BY <1>1, <2>1 DEF SaveStats, Job
    <3>2. AllDone(job.seen) => NearlyAll(job.seen)
      BY <3>1 DEF AllDone, NearlyAll, Counts
    <3>3. progress' >= 100 => NearlyAll(job.seen)
      BY <2>1, <3>1, RoundedTo100 DEF SaveStats, Save
    <3>4. project'.complete => project.complete \/ AllDone(job.seen)
      BY <2>1 DEF SaveStats, Save, Written, TypeOK
    <3> QED
      BY <1>2, <3>1, <3>2, <3>3, <3>4 DEF AllEarned, JobEarned, Excused
  <2>2. CASE ~SaveStats
    <3>1. UNCHANGED <<project, progress>>
      BY <2>2 DEF Enqueue, CountingStep, StartWeekly, FailJob, AnyTasks, CountDone, CountTasks,
                  LoadProject
    <3> QED
      BY <1>2, <3>1 DEF AllEarned, Excused
  <2> QED
    BY <2>1, <2>2
<1> QED
  BY <1>2, <1>3, <1>4 DEF AllEarned, Excused

\* A page passes on what it has got.
LEMMA PageStepEarned ==
    ASSUME TypeOK, AllEarned, NEW p \in Pages,
           OpenPage(p) \/ ReadStats(p) \/ PageStep(p)
    PROVE  AllEarned'
<1>1. /\ page \in [Pages -> Page]
      /\ page[p] \in Page
  BY DEF TypeOK
<1>2. UNCHANGED <<db, progress, recent, job, earned, torn>>
  BY DEF OpenPage, ReadStats, PageStep, GetStats, QueryStats, KeepStats,
         Reload, ChangeComplete, RefusePage, OfPage
<1>3. /\ page'[p].progress >= 100 => Excused
      /\ \A t \in Pages \ {p}: page'[t] = page[t]
  <2>1. PICK q: OfPage(p, q)
    BY DEF OpenPage, ReadStats, PageStep, GetStats, QueryStats, KeepStats,
           Reload, ChangeComplete, RefusePage
  <2>2. page'[p] = q /\ \A t \in Pages \ {p}: page'[t] = page[t]
    BY <1>1, <2>1 DEF OfPage
  <2>3. q.progress \in {0, memo, progress, page[p].progress}
    <3>1. CASE OpenPage(p)
      BY <1>1, <2>2, <3>1 DEF OpenPage, OfPage, Closed
    <3>4. CASE ChangeComplete(p) \/ RefusePage(p)
      <4>1. OfPage(p, Closed)
        BY <3>4 DEF ChangeComplete, RefusePage
      <4> QED
        BY <1>1, <2>2, <4>1 DEF OfPage, Closed
    <3>2. CASE GetStats(p)
      BY <1>1, <2>2, <3>2 DEF GetStats, OfPage, Page
    <3>3. CASE QueryStats(p) \/ KeepStats(p) \/ ReadStats(p) \/ Reload(p)
      BY <1>1, <2>2, <3>3 DEF QueryStats, KeepStats, ReadStats, Reload, OfPage, Page
    <3> QED
      BY <3>1, <3>2, <3>3, <3>4 DEF PageStep
  <2> QED
    BY <2>2, <2>3 DEF AllEarned
<1>4. memo' >= 100 => Excused
  BY DEF AllEarned, OpenPage, ReadStats, PageStep, GetStats, QueryStats,
         KeepStats, Reload, ChangeComplete, RefusePage
<1>5. project'.complete => Excused
  BY DEF AllEarned, OpenPage, ReadStats, PageStep, GetStats, QueryStats,
         KeepStats, Reload, ChangeComplete, RefusePage, Written, TypeOK
<1> QED
  BY <1>2, <1>3, <1>4, <1>5 DEF AllEarned, JobEarned, Excused

\* Completed tasks that are nearly all of no fewer tasks than there were when
\* they were counted were nearly all of these; of fewer, it is remembered.
LEMMA SaveMixedEarned ==
    ASSUME TypeOK, AllEarned, NEW loaded, NEW c \in recent, NEW d \in recent,
           SaveMixed(loaded, c, d), earned' = earned
    PROVE  /\ Excused => Excused'
           /\ project'.complete => Excused'
           /\ progress' >= 100 => Excused'
<1> DEFINE m == Mixed(c, d)
<1>1. /\ c.tasks \in Nat
      /\ d.tasks \in Nat
      /\ d.done \in Nat
      /\ d.done <= d.tasks
      /\ m \in Counts
      /\ m.tasks = c.tasks
      /\ m.done = d.done
  BY DEF TypeOK, Counts, Mixed
<1>2. Excused => Excused'
  BY Zenon DEF Excused, SaveMixed
<1>3. NearlyAll(m) => Excused'
  <2>1. CASE c.tasks < d.tasks
    BY <2>1, Zenon DEF SaveMixed, Excused
  <2>2. CASE ~(c.tasks < d.tasks)
    <3>1. NearlyAll(m) => NearlyAll(d)
      BY <1>1, <2>2 DEF NearlyAll
    <3> QED
      BY <1>2, <3>1 DEF AllEarned, Excused
  <2> QED
    BY <2>1, <2>2
<1>4. AllDone(m) => NearlyAll(m)
  BY <1>1 DEF AllDone, NearlyAll
<1>5. project'.complete => project.complete \/ AllDone(m)
  BY DEF SaveMixed, Save, Written, TypeOK
<1>6. progress' >= 100 => NearlyAll(m)
  BY <1>1, RoundedTo100 DEF SaveMixed, Save
<1> QED
  BY <1>2, <1>3, <1>4, <1>5, <1>6 DEF AllEarned

\* The mail and the page of the statistics pass on only what was earned.
LEMMA MixedEarned ==
    ASSUME TypeOK, AllEarned, SaveWeekly \/ \E p \in Pages: ShowStats(p)
    PROVE  AllEarned'
<1>1. UNCHANGED <<db, memo, recent, earned>>
  BY DEF SaveWeekly, ShowStats
<1>2. /\ Excused => Excused'
      /\ project'.complete => Excused'
      /\ progress' >= 100 => Excused'
  BY <1>1, SaveMixedEarned DEF SaveWeekly, ShowStats
<1>3. \A p \in Pages: page'[p].progress = page[p].progress
  BY DEF SaveWeekly, ShowStats, TypeOK, Page
<1>4. JobEarned'
  <2>1. CASE SaveWeekly
    BY <2>1 DEF SaveWeekly, JobEarned, Idle
  <2>2. CASE \E p \in Pages: ShowStats(p)
    <3>1. UNCHANGED <<db, job>>
      BY <2>2 DEF ShowStats
    <3> QED
      BY <1>2, <3>1 DEF AllEarned, JobEarned
  <2> QED
    BY <2>1, <2>2
<1> QED
  BY <1>1, <1>2, <1>3, <1>4 DEF AllEarned

\* Nothing else sets the flag.
LEMMA ProjectEarned ==
    ASSUME TypeOK, AllEarned,
           \/ Expire \/ Publish \/ PassEndDate \/ ExtendEndDate \/ CloseOverdue
           \/ \E c \in recent: Forget(c)
    PROVE  AllEarned'
<1>1. /\ UNCHANGED <<db, progress, job, page, earned, torn>>
      /\ memo' = memo \/ memo' = NoValue
      /\ recent' \subseteq recent
      /\ project'.complete = project.complete
  BY DEF TypeOK, Expire, Publish, PassEndDate, ExtendEndDate, CloseOverdue,
         OfProject, Forget
<1> QED
  BY <1>1 DEF AllEarned, JobEarned, Excused, NoValue

\* Nothing ever claims what was not earned.
LEMMA EarnedAlways == Spec => []AllEarned
<1>1. Init => AllEarned
  BY InitEarned
<1>2. TypeOK /\ AllEarned /\ [Next]_vars => AllEarned'
  <2> SUFFICES ASSUME TypeOK, AllEarned, [Next]_vars
               PROVE  AllEarned'
    OBVIOUS
  <2>1. CASE Next
    BY <2>1, TasksEarned, JobStepEarned, PageStepEarned, MixedEarned,
       ProjectEarned
       DEF Next, JobStep, CountingStep
  <2>2. CASE UNCHANGED vars
    BY <2>2 DEF AllEarned, JobEarned, Excused, vars
  <2> QED
    BY <2>1, <2>2
<1> QED
  BY <1>1, <1>2, TypeCorrect, PTL DEF Spec

\* The flag complete is set only of projects that were nearly completed at some
\* moment, or after completed tasks were divided by fewer tasks than there were
\* when they were counted: for any number of pages, tasks and changes, whatever
\* counts the memoized functions still answer with.
THEOREM CompleteWasEarnedAlways == Spec => []CompleteWasEarned
<1>1. AllEarned => CompleteWasEarned
  BY DEF AllEarned, CompleteWasEarned, Excused
<1> QED
  BY <1>1, EarnedAlways, PTL

-----------------------------------------------------------------------------
(* Agreement lasts *)

\* What check_contributing_state makes of the statistics.
Full(n) == n >= 100

LEMMA QuotientFrom ==
    ASSUME NEW a \in Nat, NEW b \in Nat \ {0}, a >= b * 100
    PROVE  a \div b >= 100
<1>. DEFINE q == a \div b
<1>1. q \in Int /\ a < b * (q + 1)
  OBVIOUS
<1>. HIDE DEF q
<1>2. SUFFICES ASSUME q <= 99
               PROVE  FALSE
  BY <1>1 DEF q
<1>3. \A n \in Nat: b * (100 - n) <= b * 100
  OBVIOUS
<1>4. 99 - q \in Nat /\ 100 - (99 - q) = q + 1
  BY <1>1, <1>2
<1>5. b * (100 - (99 - q)) <= b * 100
  BY <1>3, <1>4
<1>6. b * (q + 1) <= b * 100
  BY <1>4, <1>5
<1>7. b * (q + 1) \in Int /\ b * 100 \in Int
  BY <1>1
<1> QED
  BY <1>1, <1>6, <1>7

\* Counts that say something clearly say it however they are rounded.
LEMMA Verdict ==
    ASSUME NEW c \in Counts, NEW complete \in BOOLEAN, Says(c, complete)
    PROVE  Full(Percent(c)) = complete /\ AllDone(c) = complete
<1>. c.tasks \in Nat /\ c.done \in Nat
  BY DEF Counts
<1>1. CASE complete = TRUE
  <2>1. c.tasks > 0 /\ c.done >= c.tasks
    BY <1>1 DEF Says, AllDone
  <2>2. /\ 200 * c.done + c.tasks \in Nat
        /\ 2 * c.tasks \in Nat \ {0}
        /\ 200 * c.done + c.tasks >= (2 * c.tasks) * 100
    BY <2>1
  <2>3. Percent(c) >= 100
    BY <2>1, <2>2, QuotientFrom DEF Percent
  <2> QED
    BY <1>1, <2>1, <2>3 DEF Full, AllDone
<1>2. CASE complete = FALSE
  <2>1. ~NearlyAll(c)
    BY <1>2 DEF Says
  <2>2. ~(Percent(c) >= 100)
    BY <2>1, RoundedTo100
  <2>3. ~AllDone(c)
    BY <2>1 DEF AllDone, NearlyAll
  <2> QED
    BY <1>2, <2>2, <2>3 DEF Full, AllDone
<1> QED
  BY <1>1, <1>2

\* The verdict of the job, and of a page.
JobAgrees(complete) ==
    /\ job.at = "again" => Says([job.seen EXCEPT !.tasks = db.tasks], complete)
    /\ job.at \in {"load", "save"} => Says(job.seen, complete)

PageAgrees(p, complete) ==
    page[p].at \in {"keep", "have", "saved", "shown"} =>
      Full(page[p].progress) = complete

\* The verdict of the memoized counts.
RecentAgrees(complete) ==
    \A c, d \in recent: Says(Mixed(c, d), complete)

LEMMA AgreedParts ==
    ASSUME NEW complete \in BOOLEAN
    PROVE  Agreed(complete) <=>
             /\ RecentAgrees(complete)
             /\ project.complete = complete
             /\ Full(progress) = complete
             /\ memo # NoValue => Full(memo) = complete
             /\ \A p \in Pages: PageAgrees(p, complete)
             /\ JobAgrees(complete)
  BY Zenon DEF Agreed, Full, PageAgrees, JobAgrees, RecentAgrees

LEMMA AgreedPartsNext ==
    ASSUME NEW complete \in BOOLEAN,
           RecentAgrees(complete)', project'.complete = complete,
           Full(progress)' = complete, memo' # NoValue => Full(memo)' = complete,
           \A p \in Pages: PageAgrees(p, complete)', JobAgrees(complete)'
    PROVE  Agreed(complete)'
  BY Zenon DEF Agreed, Full, PageAgrees, JobAgrees, RecentAgrees

\* The tasks say what the memoized counts say.
LEMMA TasksAgree ==
    ASSUME TypeOK, NEW complete, RecentAgrees(complete)
    PROVE  Says(db, complete)
<1>1. Says(Mixed(db, db), complete)
  BY DEF TypeOK, RecentAgrees
<1>2. Mixed(db, db) = db
  BY DEF TypeOK, Mixed, Counts
<1> QED
  BY <1>1, <1>2

\* A process that sets the flag to what the row agrees with leaves it.
LEMMA WrittenAgreed ==
    ASSUME NEW complete, NEW loaded, project.complete = complete
    PROVE  Written(loaded, complete) = complete
  BY DEF Written

LEMMA JobAgreedStep ==
    ASSUME TypeOK, AllEarned, NEW complete \in BOOLEAN, Agreed(complete),
           db' = db, Enqueue \/ StartWeekly \/ CountingStep \/ FailJob
    PROVE  Agreed(complete)'
<1>. /\ db \in Counts /\ job \in Job
     /\ Says(db, complete) /\ JobAgrees(complete) /\ RecentAgrees(complete)
     /\ project.complete = complete /\ Full(progress) = complete
  BY AgreedParts, TasksAgree DEF TypeOK
<1>1. UNCHANGED <<memo, recent, page>>
  BY DEF Enqueue, CountingStep, StartWeekly, FailJob, AnyTasks, CountDone, CountTasks,
         LoadProject, SaveStats, OfJob
<1>2. JobAgrees(complete)'
  <2>1. CASE Enqueue \/ SaveStats \/ FailJob
    BY <2>1 DEF Enqueue, SaveStats, FailJob, OfJob, JobAgrees, Idle
  <2>6. CASE StartWeekly
    <3>1. job'.at = "weekly"
      BY <2>6 DEF StartWeekly, OfJob, Idle
    <3> QED
      BY <3>1 DEF JobAgrees
  <2>2. CASE AnyTasks
    <3>1. job.at = "queued" /\ job.seen.tasks = 0
      BY <2>2 DEF AnyTasks, AllEarned, JobEarned
    <3>2. CASE db.tasks = 0
      <4>1. job'.at = "load" /\ job'.seen = job.seen
        BY <2>2, <3>2 DEF AnyTasks, OfJob, Job
      <4>2. complete = FALSE
        BY <3>2 DEF Says, AllDone, Counts
      <4>3. Says(job.seen, FALSE)
        BY <3>1 DEF Says, NearlyAll
      <4> QED
        BY <4>1, <4>2, <4>3 DEF JobAgrees
    <3>3. CASE db.tasks # 0
      BY <2>2, <3>3 DEF AnyTasks, OfJob, Job, JobAgrees
    <3> QED
      BY <3>2, <3>3
  <2>3. CASE CountDone
    <3>1. job'.at = "again" /\ job'.seen = [job.seen EXCEPT !.done = db.done]
      BY <2>3 DEF CountDone, OfJob, Job
    <3>2. [job'.seen EXCEPT !.tasks = db.tasks] = db
      BY <3>1 DEF Job, Counts
    <3> QED
      BY <3>1, <3>2 DEF JobAgrees
  <2>4. CASE CountTasks
    <3>1. CASE db.tasks = 0
      BY <2>4, <3>1 DEF CountTasks, OfJob, JobAgrees, Idle
    <3>2. CASE db.tasks # 0
      <4>1. /\ job.at = "again" /\ job'.at = "load"
            /\ job'.seen = [job.seen EXCEPT !.tasks = db.tasks]
        BY <2>4, <3>2 DEF CountTasks, OfJob, Job
      <4> QED
        BY <4>1 DEF JobAgrees
    <3> QED
      BY <3>1, <3>2
  <2>5. CASE LoadProject
    <3>1. job.at = "load" /\ job'.at = "save" /\ job'.seen = job.seen
      BY <2>5 DEF LoadProject, OfJob, Job
    <3> QED
      BY <3>1 DEF JobAgrees
  <2> QED
    BY <2>1, <2>2, <2>3, <2>4, <2>5, <2>6 DEF CountingStep
<1>3. project'.complete = complete /\ Full(progress)' = complete
  <2>1. CASE SaveStats
    <3>1. job.at = "save" /\ job.seen \in Counts
      BY <2>1 DEF SaveStats, Job
    <3>2. Full(Percent(job.seen)) = complete /\ AllDone(job.seen) = complete
      BY <3>1, Verdict DEF JobAgrees
    <3>3. progress' = Percent(job.seen)
      BY <2>1 DEF SaveStats, Save
    <3>4. project'.complete = Written(job.complete, complete)
      BY <2>1, <3>2 DEF SaveStats, Save, TypeOK
    <3> QED
      BY <3>2, <3>3, <3>4, WrittenAgreed
  <2>2. CASE ~SaveStats
    <3>1. UNCHANGED <<project, progress>>
      BY <2>2 DEF Enqueue, CountingStep, StartWeekly, FailJob, AnyTasks, CountDone, CountTasks,
                  LoadProject
    <3> QED
      BY <3>1
  <2> QED
    BY <2>1, <2>2
<1>4. /\ memo' # NoValue => Full(memo)' = complete
      /\ \A p \in Pages: PageAgrees(p, complete)'
  BY <1>1, AgreedParts DEF PageAgrees
<1>5. RecentAgrees(complete)'
  BY <1>1 DEF RecentAgrees, Says, AllDone, NearlyAll, Mixed
<1> QED
  BY <1>2, <1>3, <1>4, <1>5, AgreedPartsNext

LEMMA PageAgreedStep ==
    ASSUME TypeOK, NEW complete \in BOOLEAN, Agreed(complete),
           NEW p \in Pages, OpenPage(p) \/ ReadStats(p) \/ PageStep(p)
    PROVE  Agreed(complete)'
<1>. /\ page \in [Pages -> Page] /\ page[p] \in Page
     /\ project.complete = complete /\ Full(progress) = complete
     /\ memo # NoValue => Full(memo) = complete
     /\ \A t \in Pages: PageAgrees(t, complete)
  BY AgreedParts DEF TypeOK
<1>1. UNCHANGED <<db, progress, recent, job>>
  BY DEF OpenPage, ReadStats, PageStep, GetStats, QueryStats, KeepStats,
         Reload, ChangeComplete, RefusePage, OfPage
<1>2. /\ PageAgrees(p, complete)'
      /\ \A t \in Pages \ {p}: page'[t] = page[t]
  <2>1. PICK q: OfPage(p, q)
    BY DEF OpenPage, ReadStats, PageStep, GetStats, QueryStats, KeepStats,
           Reload, ChangeComplete, RefusePage
  <2>2. page'[p] = q /\ \A t \in Pages \ {p}: page'[t] = page[t]
    BY <2>1 DEF OfPage
  <2>3. q.at \in {"keep", "have", "saved", "shown"} => Full(q.progress) = complete
    <3>1. CASE OpenPage(p)
      BY <2>2, <3>1 DEF OpenPage, OfPage, Closed
    <3>2. CASE GetStats(p)
      BY <2>2, <3>2 DEF GetStats, OfPage, Page
    <3>3. CASE QueryStats(p) \/ ReadStats(p)
      <4>1. q.progress = progress
        BY <2>2, <3>3 DEF QueryStats, ReadStats, OfPage, Page
      <4> QED
        BY <4>1
    <3>5. CASE KeepStats(p) \/ Reload(p)
      <4>1. /\ page[p].at \in {"keep", "saved"}
            /\ q.progress = page[p].progress
        BY <2>2, <3>5 DEF KeepStats, Reload, OfPage, Page
      <4> QED
        BY <4>1 DEF PageAgrees
    <3>4. CASE ChangeComplete(p) \/ RefusePage(p)
      <4>1. OfPage(p, Closed)
        BY <3>4 DEF ChangeComplete, RefusePage
      <4> QED
        BY <2>2, <4>1 DEF OfPage, Closed
    <3> QED
      BY <3>1, <3>2, <3>3, <3>4, <3>5 DEF PageStep
  <2> QED
    BY <2>2, <2>3 DEF PageAgrees
<1>3. \A t \in Pages: PageAgrees(t, complete)'
  BY <1>2 DEF PageAgrees
<1>4. memo' # NoValue => Full(memo)' = complete
  <2>1. CASE KeepStats(p)
    BY <2>1 DEF KeepStats, PageAgrees
  <2>2. CASE ~KeepStats(p)
    <3>1. memo' = memo
      BY <2>2 DEF OpenPage, ReadStats, PageStep, GetStats, QueryStats, Reload,
                  ChangeComplete, RefusePage
    <3> QED
      BY <3>1
  <2> QED
    BY <2>1, <2>2
<1>5. project'.complete = complete
  <2>1. CASE ChangeComplete(p)
    <3>1. Full(page[p].progress) = complete
      BY <2>1 DEF ChangeComplete, PageAgrees
    <3>2. project'.complete
            = Written(page[p].complete, Full(page[p].progress))
      BY <2>1 DEF ChangeComplete, Full, TypeOK
    <3> QED
      BY <3>1, <3>2, WrittenAgreed
  <2>2. CASE ~ChangeComplete(p)
    <3>1. project' = project
      BY <2>2 DEF OpenPage, ReadStats, PageStep, GetStats, QueryStats,
                  KeepStats, Reload, RefusePage
    <3> QED
      BY <3>1
  <2> QED
    BY <2>1, <2>2
<1>6. /\ RecentAgrees(complete)' /\ JobAgrees(complete)'
      /\ Full(progress)' = complete
  BY <1>1, AgreedParts
     DEF Says, AllDone, NearlyAll, JobAgrees, RecentAgrees, Mixed
<1> QED
  BY <1>3, <1>4, <1>5, <1>6, AgreedPartsNext

\* Memoized counts that agree, whichever two of them come together, set the
\* flag and the statistics to what they are.
LEMMA SaveMixedAgreed ==
    ASSUME TypeOK, NEW complete \in BOOLEAN, Agreed(complete),
           NEW loaded, NEW c \in recent, NEW d \in recent,
           SaveMixed(loaded, c, d)
    PROVE  project'.complete = complete /\ Full(progress)' = complete
<1>1. Says(Mixed(c, d), complete) /\ project.complete = complete
  BY AgreedParts DEF RecentAgrees
<1>2. Mixed(c, d) \in Counts
  BY DEF TypeOK, Mixed, Counts
<1>3. Full(Percent(Mixed(c, d))) = complete /\ AllDone(Mixed(c, d)) = complete
  BY <1>1, <1>2, Verdict
<1>4. progress' = Percent(Mixed(c, d))
  BY DEF SaveMixed, Save
<1>5. project'.complete = Written(loaded, complete)
  BY <1>3 DEF SaveMixed, Save, TypeOK
<1> QED
  BY <1>1, <1>3, <1>4, <1>5, WrittenAgreed

LEMMA MixedAgreedStep ==
    ASSUME TypeOK, NEW complete \in BOOLEAN, Agreed(complete),
           SaveWeekly \/ \E p \in Pages: ShowStats(p)
    PROVE  Agreed(complete)'
<1>1. project'.complete = complete /\ Full(progress)' = complete
  BY SaveMixedAgreed DEF SaveWeekly, ShowStats
<1>2. UNCHANGED <<db, memo, recent>>
  BY DEF SaveWeekly, ShowStats
<1>3. \A p \in Pages: PageAgrees(p, complete)'
  <2>1. \A p \in Pages: PageAgrees(p, complete)
    BY AgreedParts
  <2>2. CASE SaveWeekly
    <3>1. page' = page
      BY <2>2 DEF SaveWeekly
    <3> QED
      BY <2>1, <3>1 DEF PageAgrees
  <2>3. ASSUME NEW p \in Pages, ShowStats(p), NEW q \in Pages
        PROVE  PageAgrees(q, complete)'
    <3>1. /\ page[p].at = "have"
          /\ page' = [page EXCEPT ![p].at = "saved"]
      BY <2>3 DEF ShowStats
    <3>2. page'[q].progress = page[q].progress
      BY <3>1 DEF TypeOK, Page
    <3>3. page'[q].at \in {"keep", "have", "saved", "shown"} =>
            page[q].at \in {"keep", "have", "saved", "shown"}
      BY <3>1 DEF TypeOK, Page
    <3> QED
      BY <2>1, <3>2, <3>3 DEF PageAgrees
  <2> QED
    BY <2>2, <2>3
<1>4. JobAgrees(complete)'
  <2>1. CASE SaveWeekly
    BY <2>1 DEF SaveWeekly, JobAgrees, Idle
  <2>2. CASE \E p \in Pages: ShowStats(p)
    <3>1. UNCHANGED <<db, job>>
      BY <2>2 DEF ShowStats
    <3> QED
      BY <3>1, AgreedParts DEF JobAgrees, Says, AllDone, NearlyAll
  <2> QED
    BY <2>1, <2>2
<1>5. RecentAgrees(complete)'
  BY <1>2, AgreedParts DEF RecentAgrees, Says, AllDone, NearlyAll, Mixed
<1>6. memo' # NoValue => Full(memo)' = complete
  BY <1>2, AgreedParts
<1> QED
  BY <1>1, <1>3, <1>4, <1>5, <1>6, AgreedPartsNext

LEMMA AgreedStep ==
    ASSUME TypeOK, AllEarned, NEW complete \in BOOLEAN, Agreed(complete),
           db' = db, [Next]_vars
    PROVE  Agreed(complete)'
<1>1. CASE \/ CompleteTask \/ AddTask \/ ReopenTask
           \/ \E completed \in {0, 1}: DeleteTask(completed)
  <2>1. db'.tasks # db.tasks \/ db'.done # db.done
    BY <1>1 DEF TypeOK, Counts, CompleteTask, AddTask, ReopenTask, DeleteTask,
                Recount
  <2> QED
    BY <2>1
<1>2. CASE Enqueue \/ StartWeekly \/ CountingStep \/ FailJob
  BY <1>2, JobAgreedStep
<1>3. ASSUME NEW p \in Pages, OpenPage(p) \/ ReadStats(p) \/ PageStep(p)
      PROVE  Agreed(complete)'
  BY <1>3, PageAgreedStep
<1>4. CASE \/ Expire \/ Publish \/ PassEndDate \/ ExtendEndDate \/ CloseOverdue
           \/ (\E c \in recent: Forget(c)) \/ UNCHANGED vars
  <2>1. /\ UNCHANGED <<progress, job, page>>
        /\ memo' = memo \/ memo' = NoValue
        /\ recent' \subseteq recent
        /\ project'.complete = project.complete
    BY <1>4 DEF TypeOK, Expire, Publish, PassEndDate, ExtendEndDate,
                CloseOverdue, OfProject, Forget, vars
  <2> QED
    BY <2>1 DEF Agreed, Says, AllDone, NearlyAll, Mixed
<1>5. CASE SaveWeekly \/ \E p \in Pages: ShowStats(p)
  BY <1>5, MixedAgreedStep
<1> QED
  BY <1>1, <1>2, <1>3, <1>4, <1>5 DEF Next, JobStep, CountingStep

\* Once all copies of the statistics and all memoized counts agree with the
\* tasks, they agree until the tasks change: whatever the pages and the jobs had
\* loaded of the row, whether they compute with the cache or without it, and in
\* whichever order they write, for any number of pages and tasks.
THEOREM AgreementLastsAlways == Spec => AgreementLasts
<1>1. TypeOK /\ AllEarned /\ [Next]_vars =>
        [\A complete \in BOOLEAN:
           Agreed(complete) /\ db' = db => Agreed(complete)']_vars
  BY AgreedStep
<1> QED
  BY <1>1, TypeCorrect, EarnedAlways, PTL DEF Spec, AgreementLasts

=============================================================================
