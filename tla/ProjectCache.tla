---------------------------- MODULE ProjectCache ----------------------------
(***************************************************************************)
(* The counts of a project that memoize keeps in Redis, and clean_project, *)
(* which the repositories call after they have committed a change.         *)
(*                                                                         *)
(* A memoized call asks Redis, asks the database when there is no entry,   *)
(* and stores the answer for a time; these are three steps.  The progress  *)
(* is computed from two memoized counts, and itself memoized.  Changes are *)
(* committed, and entries deleted one after the other, in between.         *)
(***************************************************************************)
EXTENDS Integers

CONSTANTS
    Readers,    \* requests that ask for a count
    Writers,    \* requests that change the tasks of the project
    MaxTasks,   \* bound: tasks of the project
    MaxCommits, \* bound: changes committed
    AppTimeout, \* APP_TIMEOUT of the counts, in ticks
    OneDay      \* ONE_DAY of project_stats.n_tasks, in ticks

ASSUME CacheAssumption ==
    /\ MaxTasks \in Nat
    /\ MaxCommits \in Nat
    /\ AppTimeout \in Nat \ {0}
    /\ OneDay \in Nat \ {0}

\* n_tasks, n_completed_tasks and overall_progress of the project.
Keys == {"tasks", "done", "progress"}

\* What requests call: one of these, or n_tasks of project_stats ("day"),
\* whose entry has the name of the other n_tasks.
Calls == Keys \cup {"day"}

VARIABLES
    db,         \* the tasks of the project, and how many are completed
    commits,    \* how many changes were committed
    cache,      \* the entries of the keys
    reader,     \* the call each reader has reached
    writer      \* the entries each writer has still to delete

vars == <<db, commits, cache, reader, writer>>

Counts == [tasks: Nat, done: Nat]

Zero == [tasks |-> 0, done |-> 0]

\* What of the counts a key is about; a percentage is kept as the two counts
\* it is the quotient of.
Of(k, c) == [tasks |-> IF k = "done" THEN 0 ELSE c.tasks,
             done |-> IF k = "tasks" THEN 0 ELSE c.done]

NoEntry == [ttl |-> 0]

\* doubt (history): the reader that stored it had been raced, or a writer
\* failed to delete it.
Entry == {NoEntry}
         \cup [ttl: Nat \ {0}, value: Counts, doubt: BOOLEAN]

\* at: the next step of the call, of the memoized function for key inside it
\* between get and keep; again: n_tasks is called for the second time; value:
\* what the database answered; seen: the results; raced (history): a change
\* was committed since the call, or an entry used that was in doubt or about
\* to be deleted.
Reader == [call: Calls \cup {"none"}, key: {"tasks", "done"}, again: BOOLEAN,
           at: {"look", "get", "query", "keep", "store"},
           value: Counts, seen: Counts, raced: BOOLEAN]

Idle == [call |-> "none", key |-> "tasks", again |-> FALSE, at |-> "get",
         value |-> Zero, seen |-> Zero, raced |-> FALSE]

TypeOK ==
    /\ db \in Counts
    /\ db.done <= db.tasks
    /\ commits \in 0..MaxCommits
    /\ cache \in [Keys -> Entry]
    /\ reader \in [Readers -> Reader]
    /\ writer \in [Writers -> SUBSET Keys]

\* Redis is empty; the project may have tasks.
Init ==
    /\ db \in [tasks: 0..MaxTasks, done: 0..MaxTasks]
    /\ db.done <= db.tasks
    /\ commits = 0
    /\ cache = [k \in Keys |-> NoEntry]
    /\ reader = [r \in Readers |-> Idle]
    /\ writer = [w \in Writers |-> {}]

-----------------------------------------------------------------------------
(* memoize *)

Become(r, state) == reader' = [reader EXCEPT ![r] = state]

Cached(k) == cache[k] # NoEntry

\* A writer is on its way to delete the entry.
Pending(k) == \E w \in Writers: k \in writer[w]

\* A variant of Take: every use of an entry prolongs it.
TakeAndProlong(k) == cache' = [cache EXCEPT ![k].ttl = OneDay]

\* sentinel.slave.get finds the entry.
Take(k) == UNCHANGED cache

SetEx(k, timeout, value, doubt) ==
    cache' = [cache EXCEPT ![k] =
                [ttl |-> timeout, value |-> value, doubt |-> doubt]]

\* The key under which the result of the call itself is memoized.
KeyOf(c) == IF c = "day" THEN "tasks" ELSE c

Call(r, c) ==
    /\ reader[r] = Idle
    /\ Become(r, [Idle EXCEPT !.call = c,
                              !.key = IF c = "done" THEN "done" ELSE "tasks",
                              !.at = IF c \in {"tasks", "done"}
                                     THEN "get" ELSE "look"])
    /\ UNCHANGED <<db, commits, cache, writer>>

\* overall_progress, or n_tasks of project_stats: is the result there?
Look(r) ==
    LET k == KeyOf(reader[r].call)
    IN  /\ reader[r].at = "look"
        /\ IF Cached(k)
           THEN Take(k) /\ Become(r, Idle)
           ELSE Become(r, [reader[r] EXCEPT !.at = "get"]) /\ UNCHANGED cache
        /\ UNCHANGED <<db, commits, writer>>

\* What the call does with the result of the memoized function inside it:
\* overall_progress calls n_tasks, n_completed_tasks and n_tasks once more,
\* and divides; the second n_tasks may be 0.
After(q, value) ==
    LET seen == [tasks |-> IF q.key = "tasks" THEN value.tasks ELSE q.seen.tasks,
                 done |-> IF q.key = "done" THEN value.done ELSE q.seen.done]
        store == [q EXCEPT !.seen = seen, !.at = "store"]
        get(k) == [q EXCEPT !.seen = seen, !.at = "get", !.key = k]
    IN  IF q.call \in {"tasks", "done"} THEN Idle
        ELSE IF q.call = "day" THEN store
        ELSE IF q.key = "done" THEN [get("tasks") EXCEPT !.again = TRUE]
        ELSE IF q.again THEN IF value.tasks = 0 THEN Idle ELSE store
        ELSE IF value.tasks = 0 THEN store ELSE get("done")

Get(r) ==
    LET q == reader[r]
        e == cache[q.key]
    IN  /\ q.call # "none"
        /\ q.at = "get"
        /\ IF Cached(q.key)
           THEN /\ Take(q.key)
                /\ Become(r, After([q EXCEPT !.raced = @ \/ e.doubt
                                                         \/ Pending(q.key)],
                                   e.value))
           ELSE Become(r, [q EXCEPT !.at = "query"]) /\ UNCHANGED cache
        /\ UNCHANGED <<db, commits, writer>>

\* SELECT COUNT(task.id)
Query(r) ==
    LET q == reader[r]
    IN  /\ q.at = "query"
        /\ Become(r, [q EXCEPT !.value = Of(q.key, db), !.at = "keep"])
        /\ UNCHANGED <<db, commits, cache, writer>>

Keep(r) ==
    LET q == reader[r]
    IN  /\ q.at = "keep"
        /\ SetEx(q.key, AppTimeout, q.value, q.raced)
        /\ Become(r, After([q EXCEPT !.value = Zero], q.value))
        /\ UNCHANGED <<db, commits, writer>>

Store(r) ==
    LET q == reader[r]
        k == KeyOf(q.call)
    IN  /\ q.at = "store"
        /\ SetEx(k, IF q.call = "day" THEN OneDay ELSE AppTimeout,
                 Of(k, q.seen), q.raced)
        /\ Become(r, Idle)
        /\ UNCHANGED <<db, commits, writer>>

\* The request dies.
Abandon(r) ==
    /\ reader[r] # Idle
    /\ Become(r, Idle)
    /\ UNCHANGED <<db, commits, cache, writer>>

-----------------------------------------------------------------------------
(* save, update, delete, delete_valid_from_project and                     *)
(* update_tasks_redundancy of the repository                               *)

\* A variant of CleanProject: delete_n_completed_tasks is forgotten.
CleanProjectPartly == {"tasks", "progress"}

CleanProject == {"tasks", "done", "progress"}

\* Tasks are added or deleted, completed ones too, or their states change: one
\* commit may change both counts.
Commit(w, new) ==
    /\ writer[w] = {}
    /\ commits < MaxCommits
    /\ new # db
    /\ new.done <= new.tasks
    /\ db' = new
    /\ commits' = commits + 1
    /\ writer' = [writer EXCEPT ![w] = CleanProject]
    /\ reader' = [r \in Readers |->
                    IF reader[r].call = "none" THEN reader[r]
                    ELSE [reader[r] EXCEPT !.raced = TRUE]]
    /\ UNCHANGED cache

\* The order in which clean_project deletes.
FirstOf(S) == IF "tasks" \in S THEN "tasks"
              ELSE IF "done" \in S THEN "done" ELSE "progress"

DeleteMemoized(w) ==
    LET k == FirstOf(writer[w])
    IN  /\ writer[w] # {}
        /\ cache' = [cache EXCEPT ![k] = NoEntry]
        /\ writer' = [writer EXCEPT ![w] = @ \ {k}]
        /\ UNCHANGED <<db, commits, reader>>

\* The request dies after its commit, or Redis cannot be reached.
FailToClean(w) ==
    /\ writer[w] # {}
    /\ writer' = [writer EXCEPT ![w] = {}]
    /\ cache' = [k \in Keys |->
                   IF k \in writer[w] /\ Cached(k)
                   THEN [cache[k] EXCEPT !.doubt = TRUE] ELSE cache[k]]
    /\ UNCHANGED <<db, commits, reader>>

-----------------------------------------------------------------------------

\* A variant of Tick: an entry is dropped after its time is up.
TickLate ==
    /\ \E k \in Keys: Cached(k)
    /\ cache' = [k \in Keys |->
                   IF cache[k].ttl <= 0 THEN NoEntry
                   ELSE [cache[k] EXCEPT !.ttl = @ - 1]]
    /\ UNCHANGED <<db, commits, reader, writer>>

\* Time passes; Redis drops what has expired.
Tick ==
    /\ \E k \in Keys: Cached(k)
    /\ cache' = [k \in Keys |->
                   IF cache[k].ttl <= 1 THEN NoEntry
                   ELSE [cache[k] EXCEPT !.ttl = @ - 1]]
    /\ UNCHANGED <<db, commits, reader, writer>>

Next ==
    \/ \E r \in Readers:
         \/ \E c \in Calls: Call(r, c)
         \/ Look(r)
         \/ Get(r)
         \/ Query(r)
         \/ Keep(r)
         \/ Store(r)
         \/ Abandon(r)
    \/ \E w \in Writers:
         \/ \E new \in [tasks: 0..MaxTasks, done: 0..MaxTasks]: Commit(w, new)
         \/ DeleteMemoized(w)
         \/ FailToClean(w)
    \/ Tick

Spec == Init /\ [][Next]_vars

\* Time passes.  Nobody has to ask, to finish or to change anything.
FairSpec == Spec /\ WF_vars(Tick)

-----------------------------------------------------------------------------
(* Properties *)

Stale(k) == Cached(k) /\ cache[k].value # Of(k, db)

\* Unless a change and a call overlapped, or a clean-up failed, what is cached
\* is what the database says, once the writers have made their deletions:
\* clean_project reaches every count, the derived one included, and runs
\* after the commit.
UndisturbedRight ==
    \A k \in Keys: Stale(k) => cache[k].doubt \/ Pending(k)

\* A value stored by a reader that lost a race is not served for ever: no
\* later call prolongs it.
NoStaleForever == \A k \in Keys: Stale(k) ~> ~Stale(k)

=============================================================================
