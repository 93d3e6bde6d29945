------------------------- MODULE ProjectCacheProofs -------------------------
(***************************************************************************)
(* Proofs about ProjectCache, for any number of readers, writers, tasks    *)
(* and commits, and for any timeouts.                                      *)
(***************************************************************************)
EXTENDS ProjectCache, TLAPS

-----------------------------------------------------------------------------
(* Types *)

LEMMA OfType ==
    ASSUME NEW k, NEW c \in Counts
    PROVE  Of(k, c) \in Counts /\ Of(k, Of(k, c)) = Of(k, c)
  BY DEF Of, Counts

LEMMA IdleType == Idle \in Reader
  BY DEF Idle, Reader, Zero, Counts

LEMMA EntryFields ==
    ASSUME NEW e \in Entry, e # NoEntry
    PROVE  e \in [ttl: Nat \ {0}, value: Counts, doubt: BOOLEAN]
  BY DEF Entry

LEMMA BecomeType ==
    ASSUME NEW r \in Readers, NEW q \in Reader,
           reader \in [Readers -> Reader], Become(r, q)
    PROVE  /\ reader' \in [Readers -> Reader]
           /\ reader'[r] = q
           /\ \A s \in Readers \ {r}: reader'[s] = reader[s]
  BY DEF Become

LEMMA SetExType ==
    ASSUME NEW k \in Keys, NEW timeout \in Nat \ {0}, NEW value \in Counts,
           NEW doubt \in BOOLEAN, cache \in [Keys -> Entry],
           SetEx(k, timeout, value, doubt)
    PROVE  /\ cache' \in [Keys -> Entry]
           /\ cache'[k] = [ttl |-> timeout, value |-> value, doubt |-> doubt]
           /\ \A l \in Keys \ {k}: cache'[l] = cache[l]
<1>1. [ttl |-> timeout, value |-> value, doubt |-> doubt] \in Entry
  BY DEF Entry
<1> QED
  BY <1>1 DEF SetEx

\* A step of a reader to another field or two keeps its type.
LEMMA ReaderChanges ==
    ASSUME NEW q \in Reader
    PROVE  /\ \A at \in {"look", "get", "query", "keep", "store"}:
                [q EXCEPT !.at = at] \in Reader
           /\ \A value \in Counts:
                /\ [q EXCEPT !.value = value] \in Reader
                /\ [q EXCEPT !.value = value, !.at = "keep"] \in Reader
           /\ \A raced \in BOOLEAN: [q EXCEPT !.raced = raced] \in Reader
  BY DEF Reader

\* The results of a call after one more of them, and what After makes of them.
Results(q, value) ==
    [tasks |-> IF q.key = "tasks" THEN value.tasks ELSE q.seen.tasks,
     done |-> IF q.key = "done" THEN value.done ELSE q.seen.done]

ToStore(q, value) == [q EXCEPT !.seen = Results(q, value), !.at = "store"]

ToGet(q, value, k) ==
    [q EXCEPT !.seen = Results(q, value), !.at = "get", !.key = k]

LEMMA AfterValue ==
    ASSUME NEW q, NEW value
    PROVE  After(q, value) =
             IF q.call \in {"tasks", "done"} THEN Idle
             ELSE IF q.call = "day" THEN ToStore(q, value)
             ELSE IF q.key = "done"
                  THEN [ToGet(q, value, "tasks") EXCEPT !.again = TRUE]
             ELSE IF q.again
                  THEN IF value.tasks = 0 THEN Idle ELSE ToStore(q, value)
             ELSE IF value.tasks = 0 THEN ToStore(q, value)
                  ELSE ToGet(q, value, "done")
  BY DEF After, ToStore, ToGet, Results

LEMMA AfterFields ==
    ASSUME NEW q \in Reader, NEW value \in Counts
    PROVE  /\ Results(q, value) \in Counts
           /\ /\ ToStore(q, value) \in Reader
              /\ ToStore(q, value).seen = Results(q, value)
              /\ ToStore(q, value).call = q.call
              /\ ToStore(q, value).raced = q.raced
              /\ ToStore(q, value).key = q.key
              /\ ToStore(q, value).at = "store"
           /\ \A k \in {"tasks", "done"}:
                /\ ToGet(q, value, k) \in Reader
                /\ ToGet(q, value, k).seen = Results(q, value)
                /\ ToGet(q, value, k).call = q.call
                /\ ToGet(q, value, k).raced = q.raced
                /\ ToGet(q, value, k).key = k
                /\ ToGet(q, value, k).again = q.again
                /\ ToGet(q, value, k).at = "get"
<1>1. Results(q, value) \in Counts
  BY DEF Results, Counts, Reader
<1> QED
  BY <1>1 DEF ToStore, ToGet, Reader

LEMMA AgainFields ==
    ASSUME NEW q \in Reader
    PROVE  /\ [q EXCEPT !.again = TRUE] \in Reader
           /\ [q EXCEPT !.again = TRUE].again
           /\ [q EXCEPT !.again = TRUE].seen = q.seen
           /\ [q EXCEPT !.again = TRUE].call = q.call
           /\ [q EXCEPT !.again = TRUE].raced = q.raced
           /\ [q EXCEPT !.again = TRUE].key = q.key
           /\ [q EXCEPT !.again = TRUE].at = q.at
  BY DEF Reader

LEMMA AfterType ==
    ASSUME NEW q \in Reader, NEW value \in Counts
    PROVE  After(q, value) \in Reader
  BY AfterValue, AfterFields, AgainFields, IdleType

LEMMA CallType ==
    ASSUME NEW c \in Calls, NEW k \in {"tasks", "done"},
           NEW at \in {"look", "get"}
    PROVE  [Idle EXCEPT !.call = c, !.key = k, !.at = at] \in Reader
  BY DEF Idle, Reader, Zero, Counts

LEMMA ReaderType ==
    ASSUME TypeOK, NEW r \in Readers,
           \/ \E c \in Calls: Call(r, c)
           \/ Look(r)
           \/ Get(r)
           \/ Query(r)
           \/ Keep(r)
           \/ Store(r)
           \/ Abandon(r)
    PROVE  TypeOK'
<1>. USE DEF TypeOK
<1>. reader[r] \in Reader /\ reader[r].key \in {"tasks", "done"}
  BY DEF Reader
<1>. /\ reader[r].value \in Counts /\ reader[r].seen \in Counts
     /\ reader[r].raced \in BOOLEAN
  BY DEF Reader
<1>1. ASSUME NEW c \in Calls, Call(r, c)
      PROVE  TypeOK'
  <2>1. reader' \in [Readers -> Reader]
    BY <1>1, CallType, BecomeType DEF Call
  <2> QED
    BY <1>1, <2>1 DEF Call
<1>2. CASE Look(r)
  <2>1. reader' \in [Readers -> Reader]
    BY <1>2, IdleType, ReaderChanges, BecomeType DEF Look
  <2>2. cache' = cache
    BY <1>2 DEF Look, Take
  <2> QED
    BY <1>2, <2>1, <2>2 DEF Look
<1>3. CASE Get(r)
  <2>. DEFINE q == reader[r]
              e == cache[q.key]
  <2>1. cache' = cache
    BY <1>3 DEF Get, Take
  <2>2. CASE Cached(q.key)
    <3>1. e.value \in Counts /\ e.doubt \in BOOLEAN
      BY <2>2, EntryFields DEF Cached, Keys
    <3>2. (q.raced \/ e.doubt \/ Pending(q.key)) \in BOOLEAN
      OBVIOUS
    <3>3. [q EXCEPT !.raced = q.raced \/ e.doubt \/ Pending(q.key)] \in Reader
      BY <3>2, ReaderChanges
    <3>4. reader' \in [Readers -> Reader]
      BY <1>3, <2>2, <3>1, <3>3, AfterType, BecomeType DEF Get
    <3> QED
      BY <1>3, <2>1, <3>4 DEF Get
  <2>3. CASE ~Cached(q.key)
    <3>1. reader' \in [Readers -> Reader]
      BY <1>3, <2>3, ReaderChanges, BecomeType DEF Get
    <3> QED
      BY <1>3, <2>1, <3>1 DEF Get
  <2> QED
    BY <2>2, <2>3
<1>4. CASE Query(r)
  <2>1. reader' \in [Readers -> Reader]
    BY <1>4, OfType, ReaderChanges, BecomeType DEF Query
  <2> QED
    BY <1>4, <2>1 DEF Query
<1>5. CASE Keep(r)
  <2>1. cache' \in [Keys -> Entry]
    <3>1. SetEx(reader[r].key, AppTimeout, reader[r].value, reader[r].raced)
      BY <1>5 DEF Keep
    <3>2. reader[r].key \in Keys
      BY DEF Keys
    <3> QED
      BY <3>1, <3>2, SetExType, CacheAssumption
  <2>2. [reader[r] EXCEPT !.value = Zero] \in Reader
    BY ReaderChanges DEF Zero, Counts
  <2>3. reader' \in [Readers -> Reader]
    BY <1>5, <2>2, AfterType, BecomeType DEF Keep
  <2> QED
    BY <1>5, <2>1, <2>3 DEF Keep
<1>6. CASE Store(r)
  <2>. DEFINE k == KeyOf(reader[r].call)
  <2>1. reader' \in [Readers -> Reader]
    BY <1>6, IdleType, BecomeType DEF Store
  <2>2. cache' \in [Keys -> Entry]
    <3>. DEFINE timeout == IF reader[r].call = "day" THEN OneDay ELSE AppTimeout
                value == Of(k, reader[r].seen)
    <3>1. SetEx(k, timeout, value, reader[r].raced)
      BY <1>6 DEF Store
    <3>2. timeout \in Nat \ {0} /\ value \in Counts
      BY OfType, CacheAssumption
    <3>. HIDE DEF k, timeout, value
    <3>3. CASE k \in Keys
      BY <3>1, <3>2, <3>3, SetExType
    <3>4. CASE k \notin Keys
      BY <3>1, <3>4 DEF SetEx
    <3> QED
      BY <3>3, <3>4
  <2> QED
    BY <1>6, <2>1, <2>2 DEF Store
<1>7. CASE Abandon(r)
  <2>1. reader' \in [Readers -> Reader]
    BY <1>7, IdleType, BecomeType DEF Abandon
  <2> QED
    BY <1>7, <2>1 DEF Abandon
<1> QED
  BY <1>1, <1>2, <1>3, <1>4, <1>5, <1>6, <1>7

LEMMA WriterType ==
    ASSUME TypeOK, NEW w \in Writers,
           \/ \E new \in [tasks: 0..MaxTasks, done: 0..MaxTasks]: Commit(w, new)
           \/ DeleteMemoized(w)
           \/ FailToClean(w)
    PROVE  TypeOK'
<1>. USE DEF TypeOK
<1>1. ASSUME NEW new \in [tasks: 0..MaxTasks, done: 0..MaxTasks], Commit(w, new)
      PROVE  TypeOK'
  <2>1. db' \in Counts /\ db'.done <= db'.tasks
    BY <1>1, CacheAssumption DEF Commit, Counts
  <2>2. commits' \in 0..MaxCommits
    BY <1>1, CacheAssumption DEF Commit
  <2>3. reader' \in [Readers -> Reader]
    <3>1. \A r \in Readers: [reader[r] EXCEPT !.raced = TRUE] \in Reader
      BY ReaderChanges
    <3> QED
      BY <1>1, <3>1 DEF Commit
  <2>4. writer' \in [Writers -> SUBSET Keys]
    BY <1>1 DEF Commit, CleanProject, Keys
  <2> QED
    BY <1>1, <2>1, <2>2, <2>3, <2>4 DEF Commit
<1>2. CASE DeleteMemoized(w)
  BY <1>2 DEF DeleteMemoized, Entry
<1>3. CASE FailToClean(w)
  <2>1. cache' \in [Keys -> Entry]
    <3>1. ASSUME NEW k \in Keys, Cached(k)
          PROVE  [cache[k] EXCEPT !.doubt = TRUE] \in Entry
      <4>1. cache[k] \in [ttl: Nat \ {0}, value: Counts, doubt: BOOLEAN]
        BY <3>1, EntryFields DEF Cached
      <4> QED
        BY <4>1 DEF Entry
    <3> QED
      BY <1>3, <3>1 DEF FailToClean
  <2> QED
    BY <1>3, <2>1 DEF FailToClean
<1> QED
  BY <1>1, <1>2, <1>3

LEMMA TickEntries ==
    ASSUME TypeOK, Tick, NEW k \in Keys
    PROVE  /\ cache'[k] \in Entry
           /\ \/ cache'[k] = NoEntry
              \/ /\ Cached(k)
                 /\ cache'[k] # NoEntry
                 /\ cache'[k].value = cache[k].value
                 /\ cache'[k].doubt = cache[k].doubt
<1>1. CASE cache[k].ttl <= 1
  BY <1>1 DEF Tick, Entry
<1>2. CASE ~(cache[k].ttl <= 1)
  <2>1. Cached(k)
    BY <1>2 DEF Cached, NoEntry
  <2>2. cache[k] \in [ttl: Nat \ {0}, value: Counts, doubt: BOOLEAN]
    BY <2>1, EntryFields DEF Cached, TypeOK
  <2>3. cache'[k] = [cache[k] EXCEPT !.ttl = cache[k].ttl - 1]
    BY <1>2 DEF Tick
  <2>4. cache[k].ttl - 1 \in Nat \ {0}
    BY <1>2, <2>2
  <2>5. /\ cache'[k] \in [ttl: Nat \ {0}, value: Counts, doubt: BOOLEAN]
        /\ cache'[k].value = cache[k].value
        /\ cache'[k].doubt = cache[k].doubt
        /\ cache'[k].ttl # 0
    BY <2>2, <2>3, <2>4
  <2>6. cache'[k] # NoEntry
    BY <2>5 DEF NoEntry
  <2> QED
    BY <2>1, <2>5, <2>6 DEF Entry
<1> QED
  BY <1>1, <1>2

LEMMA StepType ==
    ASSUME TypeOK, Next
    PROVE  TypeOK'
<1>1. ASSUME Tick
      PROVE  TypeOK'
  <2>1. cache' = [k \in Keys |-> cache'[k]]
    BY <1>1 DEF Tick
  <2>2. cache' \in [Keys -> Entry]
    BY <1>1, <2>1, TickEntries
  <2> QED
    BY <1>1, <2>2 DEF Tick, TypeOK
<1> QED
  BY <1>1, ReaderType, WriterType DEF Next

\* Entries, calls and deletions keep their types; a project never has more
\* completed tasks than tasks.
THEOREM TypeCorrect == Spec => []TypeOK
<1>1. Init => TypeOK
  BY IdleType, CacheAssumption DEF Init, TypeOK, Counts, Entry
<1>2. TypeOK /\ UNCHANGED vars => TypeOK'
  BY DEF TypeOK, vars
<1> QED
  BY <1>1, <1>2, StepType, PTL DEF Spec

-----------------------------------------------------------------------------
(* What is cached is right unless disturbed *)

\* What a call has seen so far, when no commit has overlapped it and it has
\* used no entry in doubt, is what the database says.
SeenRight(q) ==
    /\ q.call = "none" => q.at = "get"
    /\ q.call = "day" => q.key = "tasks"
    /\ q.at = "look" => q.key = "tasks" /\ ~q.again /\ q.seen = Zero
    /\ q.at = "store" => q.call \in {"day", "progress"}
    /\ /\ q.call = "progress"
       /\ q.at \in {"get", "query", "keep"}
       /\ q.key = "tasks"
       /\ ~q.again
       => q.seen = Zero
    /\ ~q.raced =>
         /\ q.call = "progress" /\ q.at \in {"get", "query", "keep"} =>
              /\ q.key = "done" => q.seen.tasks = db.tasks
              /\ q.again => q.seen.done = db.done
         /\ q.at = "store" => Of(KeyOf(q.call), q.seen) = Of(KeyOf(q.call), db)

\* So is what it is about to keep.
ReaderRight(q) ==
    /\ SeenRight(q)
    /\ ~q.raced /\ q.at = "keep" => q.value = Of(q.key, db)

CacheRight ==
    /\ \A r \in Readers: ReaderRight(reader[r])
    /\ UndisturbedRight

LEMMA IdleRight == ReaderRight(Idle)
  BY DEF ReaderRight, SeenRight, Idle

\* The result of the memoized function inside the call keeps it right.
LEMMA AfterRight ==
    ASSUME TypeOK, NEW q \in Reader, NEW value \in Counts,
           q.call # "none", q.at \in {"get", "keep"}, SeenRight(q),
           ~q.raced => value = Of(q.key, db)
    PROVE  ReaderRight(After(q, value))
<1>. /\ db \in Counts /\ db.done <= db.tasks
     /\ db.done \in Nat /\ db.tasks \in Nat
  BY DEF TypeOK, Counts
<1>. DEFINE seen == Results(q, value)
<1>1. CASE q.call \in {"tasks", "done"}
  BY <1>1, AfterValue, IdleRight
<1>2. CASE q.call = "day" /\ q.key = "tasks"
  <2>1. After(q, value) = ToStore(q, value)
    BY <1>2, AfterValue
  <2>2. ~q.raced => seen.tasks = db.tasks
    BY <1>2 DEF Results, Of
  <2>3. ~q.raced => Of("tasks", seen) = Of("tasks", db)
    BY <2>2 DEF Of
  <2> QED
    BY <1>2, <2>1, <2>3, AfterFields DEF ReaderRight, SeenRight, KeyOf
<1>3. CASE q.call = "progress" /\ q.key = "done"
  <2>1. After(q, value) = [ToGet(q, value, "tasks") EXCEPT !.again = TRUE]
    BY <1>3, AfterValue
  <2>2. ~q.raced => seen.done = db.done
    BY <1>3 DEF Results, Of
  <2>3. /\ After(q, value).at = "get" /\ After(q, value).key = "tasks"
        /\ After(q, value).again /\ After(q, value).seen = seen
        /\ After(q, value).raced = q.raced
        /\ After(q, value).call = "progress"
    BY <1>3, <2>1, AfterFields, AgainFields
  <2> QED
    BY <2>2, <2>3 DEF ReaderRight, SeenRight
<1>4. CASE q.call = "progress" /\ q.key = "tasks"
  <2>1. ~q.raced => value.tasks = db.tasks /\ seen.tasks = db.tasks
    BY <1>4 DEF Results, Of
  <2>2. seen.done = q.seen.done
    BY <1>4 DEF Results
  <2>3. ASSUME ~q.raced => seen.done = db.done
        PROVE  ReaderRight(ToStore(q, value))
    <3>1. ~q.raced => Of("progress", seen) = Of("progress", db)
      BY <2>1, <2>3 DEF Of
    <3> QED
      BY <1>4, <3>1, AfterFields DEF ReaderRight, SeenRight, KeyOf
  <2>4. CASE q.again
    <3>1. ~q.raced => seen.done = db.done
      BY <1>4, <2>2, <2>4 DEF ReaderRight, SeenRight
    <3>2. After(q, value) \in {Idle, ToStore(q, value)}
      BY <1>4, <2>4, AfterValue
    <3> QED
      BY <2>3, <3>1, <3>2, IdleRight
  <2>5. CASE ~q.again /\ value.tasks = 0
    <3>1. q.seen = Zero
      BY <1>4, <2>5 DEF ReaderRight, SeenRight
    <3>2. seen.done = 0
      BY <2>2, <3>1 DEF Zero
    <3>3. ~q.raced => seen.done = db.done
      BY <2>1, <2>5, <3>2
    <3>4. After(q, value) = ToStore(q, value)
      BY <1>4, <2>5, AfterValue
    <3> QED
      BY <2>3, <3>3, <3>4
  <2>6. CASE ~q.again /\ value.tasks # 0
    <3>1. After(q, value) = ToGet(q, value, "done")
      BY <1>4, <2>6, AfterValue
    <3>2. /\ After(q, value).at = "get" /\ After(q, value).key = "done"
          /\ ~After(q, value).again /\ After(q, value).seen = seen
          /\ After(q, value).raced = q.raced
          /\ After(q, value).call = "progress"
      BY <1>4, <2>6, <3>1, AfterFields
    <3> QED
      BY <2>1, <3>2 DEF ReaderRight, SeenRight
  <2> QED
    BY <2>4, <2>5, <2>6
<1>5. ~(q.call = "day" /\ q.key = "done")
  BY DEF SeenRight
<1> QED
  BY <1>1, <1>2, <1>3, <1>4, <1>5 DEF Reader, Calls, Keys

\* A reader's step to a right state keeps the others right.
LEMMA BecomeRight ==
    ASSUME TypeOK, \A s \in Readers: ReaderRight(reader[s]), UNCHANGED db,
           NEW r \in Readers, NEW q \in Reader, ReaderRight(q), Become(r, q)
    PROVE  \A s \in Readers: ReaderRight(reader[s])'
<1>1. /\ reader'[r] = q
      /\ \A s \in Readers \ {r}: reader'[s] = reader[s]
  BY BecomeType DEF TypeOK
<1>2. ASSUME NEW s \in Readers
      PROVE  ReaderRight(reader[s])'
  <2>1. ReaderRight(reader'[s])
    BY <1>1
  <2> QED
    BY <2>1 DEF ReaderRight, SeenRight
<1> QED
  BY <1>2

\* Nothing becomes stale while neither the entries nor the counts change.
LEMMA CacheSame ==
    ASSUME UndisturbedRight, UNCHANGED <<db, cache, writer>>
    PROVE  UndisturbedRight'
  BY DEF UndisturbedRight, Stale, Cached, Pending

\* An entry that was set is right, or in doubt.
LEMMA SetExRight ==
    ASSUME TypeOK, UndisturbedRight, UNCHANGED <<db, writer>>,
           NEW k \in Keys, NEW timeout \in Nat \ {0}, NEW value \in Counts,
           NEW doubt \in BOOLEAN, SetEx(k, timeout, value, doubt),
           ~doubt => value = Of(k, db)
    PROVE  UndisturbedRight'
<1>1. /\ cache'[k] = [ttl |-> timeout, value |-> value, doubt |-> doubt]
      /\ \A l \in Keys \ {k}: cache'[l] = cache[l]
  BY SetExType DEF TypeOK
<1>2. cache'[k].value = value /\ cache'[k].doubt = doubt
  BY <1>1
<1>3. ASSUME NEW l \in Keys, Stale(l)'
      PROVE  cache'[l].doubt \/ Pending(l)'
  <2>1. CASE l = k
    <3>1. value # Of(k, db)
      BY <1>2, <1>3, <2>1 DEF Stale
    <3> QED
      BY <1>2, <2>1, <3>1
  <2>2. CASE l # k
    <3>1. Stale(l)
      BY <1>1, <1>3, <2>2 DEF Stale, Cached
    <3>2. cache[l].doubt \/ Pending(l)
      BY <3>1 DEF UndisturbedRight
    <3> QED
      BY <1>1, <2>2, <3>2 DEF Pending
  <2> QED
    BY <2>1, <2>2
<1> QED
  BY <1>3 DEF UndisturbedRight

\* A reader's step keeps the readers and the entries right.
LEMMA ReaderStepRight ==
    ASSUME TypeOK, CacheRight, NEW r \in Readers,
           \/ \E c \in Calls: Call(r, c)
           \/ Look(r)
           \/ Get(r)
           \/ Query(r)
           \/ Keep(r)
           \/ Store(r)
           \/ Abandon(r)
    PROVE  CacheRight'
<1>. DEFINE q == reader[r]
<1>. /\ q \in Reader /\ q.key \in {"tasks", "done"} /\ q.key \in Keys
     /\ q.value \in Counts /\ q.seen \in Counts /\ q.raced \in BOOLEAN
  BY DEF TypeOK, Reader, Keys
<1>. ReaderRight(q) /\ SeenRight(q) /\ UndisturbedRight
  BY DEF CacheRight, ReaderRight
<1>. db \in Counts
  BY DEF TypeOK
<1>0. ASSUME UNCHANGED db, NEW p \in Reader, ReaderRight(p), Become(r, p)
      PROVE  \A s \in Readers: ReaderRight(reader[s])'
  BY <1>0, BecomeRight DEF CacheRight
<1>. HIDE DEF q
<1>1. ASSUME NEW c \in Calls, Call(r, c)
      PROVE  CacheRight'
  <2>. DEFINE key == IF c = "done" THEN "done" ELSE "tasks"
              at == IF c \in {"tasks", "done"} THEN "get" ELSE "look"
              p == [Idle EXCEPT !.call = c, !.key = key, !.at = at]
  <2>1. Become(r, p) /\ UNCHANGED <<db, cache, writer>>
    BY <1>1 DEF Call
  <2>2. p \in Reader
    BY CallType
  <2>3. /\ p.call = c /\ p.key = key /\ p.at = at /\ p.seen = Zero
        /\ ~p.again
    BY DEF Idle
  <2>. HIDE DEF p
  <2>4. ReaderRight(p)
    BY <2>3 DEF ReaderRight, SeenRight, Calls, Keys
  <2> QED
    BY <2>1, <2>2, <2>4, <1>0, CacheSame DEF CacheRight
<1>2. CASE Look(r)
  <2>1. UNCHANGED <<db, cache, writer>>
    BY <1>2 DEF Look, Take
  <2>. DEFINE p == [q EXCEPT !.at = "get"]
  <2>2. q.at = "look" /\ (Become(r, Idle) \/ Become(r, p))
    BY <1>2 DEF Look, q
  <2>3. p \in Reader
    BY ReaderChanges
  <2>4. /\ p.call = q.call /\ p.key = q.key /\ p.at = "get"
        /\ p.seen = q.seen /\ p.again = q.again /\ p.raced = q.raced
    BY DEF Reader
  <2>. HIDE DEF p
  <2>5. ReaderRight(p)
    BY <2>2, <2>4 DEF ReaderRight, SeenRight
  <2> QED
    BY <2>1, <2>2, <2>3, <2>5, <1>0, CacheSame, IdleType, IdleRight
    DEF CacheRight
<1>3. CASE Get(r)
  <2>1. UNCHANGED <<db, cache, writer>> /\ q.call # "none" /\ q.at = "get"
    BY <1>3 DEF Get, Take, q
  <2>2. CASE Cached(q.key)
    <3>. DEFINE e == cache[q.key]
                raced == q.raced \/ e.doubt \/ Pending(q.key)
                p == [q EXCEPT !.raced = raced]
    <3>1. Become(r, After(p, e.value))
      BY <1>3, <2>2 DEF Get, q
    <3>2. e.value \in Counts /\ e.doubt \in BOOLEAN
      BY <2>2, EntryFields DEF Cached, TypeOK
    <3>3. raced \in BOOLEAN
      OBVIOUS
    <3>4. p \in Reader
      BY <3>3, ReaderChanges
    <3>5. /\ p.call = q.call /\ p.key = q.key /\ p.at = "get"
          /\ p.seen = q.seen /\ p.again = q.again /\ p.raced = raced
      BY <2>1 DEF Reader
    <3>6. ~raced => ~q.raced /\ e.value = Of(q.key, db)
      BY <2>2 DEF UndisturbedRight, Stale
    <3>. HIDE DEF p, e, raced
    <3>7. SeenRight(p)
      BY <2>1, <3>5, <3>6 DEF SeenRight
    <3>8. ReaderRight(After(p, e.value)) /\ After(p, e.value) \in Reader
      BY <2>1, <3>2, <3>4, <3>5, <3>6, <3>7, AfterRight, AfterType
    <3> QED
      BY <2>1, <3>1, <3>8, <1>0, CacheSame DEF CacheRight
  <2>3. CASE ~Cached(q.key)
    <3>. DEFINE p == [q EXCEPT !.at = "query"]
    <3>1. Become(r, p)
      BY <1>3, <2>3 DEF Get, q
    <3>2. p \in Reader
      BY ReaderChanges
    <3>3. /\ p.call = q.call /\ p.key = q.key /\ p.at = "query"
          /\ p.seen = q.seen /\ p.again = q.again /\ p.raced = q.raced
      BY DEF Reader
    <3>. HIDE DEF p
    <3>4. ReaderRight(p)
      BY <2>1, <3>3 DEF ReaderRight, SeenRight
    <3> QED
      BY <2>1, <3>1, <3>2, <3>4, <1>0, CacheSame DEF CacheRight
  <2> QED
    BY <2>2, <2>3
<1>4. CASE Query(r)
  <2>. DEFINE value == Of(q.key, db)
              p == [q EXCEPT !.value = value, !.at = "keep"]
  <2>1. UNCHANGED <<db, cache, writer>> /\ q.at = "query" /\ Become(r, p)
    BY <1>4 DEF Query, q
  <2>2. value \in Counts
    BY OfType
  <2>3. p \in Reader
    BY <2>2, ReaderChanges
  <2>4. /\ p.call = q.call /\ p.key = q.key /\ p.at = "keep"
        /\ p.seen = q.seen /\ p.again = q.again /\ p.raced = q.raced
        /\ p.value = value
    BY DEF Reader
  <2>. HIDE DEF p
  <2>5. ReaderRight(p)
    BY <2>1, <2>4 DEF ReaderRight, SeenRight
  <2> QED
    BY <2>1, <2>3, <2>5, <1>0, CacheSame DEF CacheRight
<1>5. CASE Keep(r)
  <2>. DEFINE p == [q EXCEPT !.value = Zero]
  <2>1. /\ UNCHANGED <<db, writer>> /\ q.at = "keep"
        /\ SetEx(q.key, AppTimeout, q.value, q.raced)
        /\ Become(r, After(p, q.value))
    BY <1>5 DEF Keep, q
  <2>2. ~q.raced => q.value = Of(q.key, db)
    BY <2>1 DEF ReaderRight
  <2>3. UndisturbedRight'
    BY <2>1, <2>2, SetExRight, CacheAssumption
  <2>4. p \in Reader
    BY ReaderChanges DEF Zero, Counts
  <2>5. /\ p.call = q.call /\ p.key = q.key /\ p.at = "keep"
        /\ p.seen = q.seen /\ p.again = q.again /\ p.raced = q.raced
    BY <2>1 DEF Reader
  <2>. HIDE DEF p
  <2>6. SeenRight(p) /\ p.call # "none"
    BY <2>1, <2>5 DEF SeenRight
  <2>7. ReaderRight(After(p, q.value)) /\ After(p, q.value) \in Reader
    BY <2>2, <2>4, <2>5, <2>6, AfterRight, AfterType
  <2> QED
    BY <2>1, <2>3, <2>7, <1>0 DEF CacheRight
<1>6. CASE Store(r)
  <2>. DEFINE k == KeyOf(q.call)
              timeout == IF q.call = "day" THEN OneDay ELSE AppTimeout
              value == Of(k, q.seen)
  <2>1. /\ UNCHANGED <<db, writer>> /\ q.at = "store"
        /\ SetEx(k, timeout, value, q.raced) /\ Become(r, Idle)
    BY <1>6 DEF Store, q
  <2>2. q.call \in {"day", "progress"} /\ (~q.raced => value = Of(k, db))
    BY <2>1 DEF SeenRight
  <2>3. k \in Keys
    BY <2>2 DEF KeyOf, Keys
  <2>4. timeout \in Nat \ {0} /\ value \in Counts
    BY OfType, CacheAssumption
  <2>. HIDE DEF k, timeout, value
  <2>5. UndisturbedRight'
    BY <2>1, <2>2, <2>3, <2>4, SetExRight
  <2> QED
    BY <2>1, <2>5, <1>0, IdleType, IdleRight DEF CacheRight
<1>7. CASE Abandon(r)
  <2>1. UNCHANGED <<db, cache, writer>> /\ Become(r, Idle)
    BY <1>7 DEF Abandon
  <2> QED
    BY <2>1, <1>0, CacheSame, IdleType, IdleRight DEF CacheRight
<1> QED
  BY <1>1, <1>2, <1>3, <1>4, <1>5, <1>6, <1>7

\* So does a writer's: a commit puts every call in flight and every entry in
\* doubt, and a deletion removes the entry it had put in doubt.
LEMMA WriterStepRight ==
    ASSUME TypeOK, CacheRight, NEW w \in Writers,
           \/ \E new \in [tasks: 0..MaxTasks, done: 0..MaxTasks]: Commit(w, new)
           \/ DeleteMemoized(w)
           \/ FailToClean(w)
    PROVE  CacheRight'
<1>0. ASSUME UNCHANGED <<db, reader>>
      PROVE  \A r \in Readers: ReaderRight(reader[r])'
  BY <1>0 DEF CacheRight, ReaderRight, SeenRight
<1>1. ASSUME NEW new \in [tasks: 0..MaxTasks, done: 0..MaxTasks], Commit(w, new)
      PROVE  CacheRight'
  <2>1. ASSUME NEW r \in Readers
        PROVE  ReaderRight(reader[r])'
    <3>. reader[r] \in Reader /\ SeenRight(reader[r])
      BY DEF TypeOK, CacheRight, ReaderRight
    <3>1. CASE reader[r].call = "none"
      <4>1. reader'[r] = reader[r]
        BY <1>1, <3>1 DEF Commit
      <4> QED
        BY <3>1, <4>1 DEF ReaderRight, SeenRight
    <3>2. CASE reader[r].call # "none"
      <4>1. reader'[r] = [reader[r] EXCEPT !.raced = TRUE]
        BY <1>1, <3>2 DEF Commit
      <4>2. /\ reader'[r].call = reader[r].call /\ reader'[r].key = reader[r].key
            /\ reader'[r].at = reader[r].at /\ reader'[r].seen = reader[r].seen
            /\ reader'[r].again = reader[r].again /\ reader'[r].raced
        BY <4>1 DEF Reader
      <4> QED
        BY <3>2, <4>2 DEF ReaderRight, SeenRight
    <3> QED
      BY <3>1, <3>2
  <2>2. \A k \in Keys: Pending(k)'
    <3>1. writer'[w] = Keys
      BY <1>1 DEF Commit, TypeOK, CleanProject, Keys
    <3> QED
      BY <3>1 DEF Pending
  <2> QED
    BY <2>1, <2>2 DEF CacheRight, UndisturbedRight
<1>2. CASE DeleteMemoized(w)
  <2>. DEFINE k == FirstOf(writer[w])
  <2>1. /\ cache' = [cache EXCEPT ![k] = NoEntry]
        /\ writer' = [writer EXCEPT ![w] = writer[w] \ {k}]
        /\ UNCHANGED <<db, reader>>
    BY <1>2 DEF DeleteMemoized
  <2>. HIDE DEF k
  <2>2. ASSUME NEW l \in Keys, Stale(l)'
        PROVE  cache'[l].doubt \/ Pending(l)'
    <3>1. l # k
      BY <2>1, <2>2 DEF Stale, Cached, TypeOK
    <3>2. cache'[l] = cache[l] /\ Stale(l)
      BY <2>1, <2>2, <3>1 DEF Stale, Cached, TypeOK
    <3>3. CASE cache[l].doubt
      BY <3>2, <3>3
    <3>4. ASSUME NEW x \in Writers, l \in writer[x]
          PROVE  Pending(l)'
      <4>1. l \in writer'[x]
        BY <2>1, <3>1, <3>4 DEF TypeOK
      <4> QED
        BY <4>1 DEF Pending
    <3> QED
      BY <3>2, <3>3, <3>4 DEF CacheRight, UndisturbedRight, Pending
  <2> QED
    BY <1>0, <2>1, <2>2 DEF CacheRight, UndisturbedRight
<1>3. CASE FailToClean(w)
  <2>1. UNCHANGED <<db, reader>> /\ writer' = [writer EXCEPT ![w] = {}]
    BY <1>3 DEF FailToClean
  <2>2. ASSUME NEW l \in Keys, Stale(l)'
        PROVE  cache'[l].doubt \/ Pending(l)'
    <3>1. CASE l \in writer[w] /\ Cached(l)
      <4>1. cache'[l] = [cache[l] EXCEPT !.doubt = TRUE]
        BY <1>3, <3>1 DEF FailToClean
      <4>2. cache[l] \in [ttl: Nat \ {0}, value: Counts, doubt: BOOLEAN]
        BY <3>1, EntryFields DEF TypeOK, Cached
      <4> QED
        BY <4>1, <4>2
    <3>2. CASE ~(l \in writer[w] /\ Cached(l))
      <4>1. cache'[l] = cache[l]
        BY <1>3, <3>2 DEF FailToClean
      <4>2. Stale(l)
        BY <2>1, <2>2, <4>1 DEF Stale, Cached
      <4>3. l \notin writer[w]
        BY <3>2, <4>2 DEF Stale
      <4>4. ASSUME NEW x \in Writers, l \in writer[x]
            PROVE  Pending(l)'
        <5>1. l \in writer'[x]
          BY <2>1, <4>3, <4>4 DEF TypeOK
        <5> QED
          BY <5>1 DEF Pending
      <4>5. CASE cache[l].doubt
        BY <4>1, <4>5
      <4> QED
        BY <4>2, <4>4, <4>5 DEF CacheRight, UndisturbedRight, Pending
    <3> QED
      BY <3>1, <3>2
  <2> QED
    BY <1>0, <2>1, <2>2 DEF CacheRight, UndisturbedRight
<1> QED
  BY <1>1, <1>2, <1>3

\* Time drops entries and changes nothing of the others but their time.
LEMMA TickRight ==
    ASSUME TypeOK, CacheRight, Tick
    PROVE  CacheRight'
<1>. UNCHANGED <<db, reader, writer>>
  BY DEF Tick
<1>1. \A r \in Readers: ReaderRight(reader[r])'
  BY DEF CacheRight, ReaderRight, SeenRight
<1>2. ASSUME NEW k \in Keys, Stale(k)'
      PROVE  cache'[k].doubt \/ Pending(k)'
  <2>1. cache'[k] # NoEntry
    BY <1>2 DEF Stale, Cached
  <2>2. /\ Cached(k) /\ cache'[k].value = cache[k].value
        /\ cache'[k].doubt = cache[k].doubt
    BY <2>1, TickEntries
  <2>3. Stale(k)
    BY <1>2, <2>2 DEF Stale
  <2> QED
    BY <2>2, <2>3 DEF CacheRight, UndisturbedRight, Pending
<1> QED
  BY <1>1, <1>2 DEF CacheRight, UndisturbedRight

\* A cached count or progress is what the database says, unless a commit
\* overlapped the call that stored it, or a clean-up failed, or a writer is
\* still deleting: clean_project reaches all that is derived from the tasks.
THEOREM UndisturbedRightAlways == Spec => []UndisturbedRight
<1>1. Init => TypeOK /\ CacheRight
  <2>1. Init => TypeOK
    BY IdleType, CacheAssumption DEF Init, TypeOK, Counts, Entry
  <2>2. Init => CacheRight
    BY IdleRight DEF Init, CacheRight, UndisturbedRight, Stale, Cached
  <2> QED
    BY <2>1, <2>2
<1>2. TypeOK /\ CacheRight /\ [Next]_vars => (TypeOK /\ CacheRight)'
  <2>1. ASSUME TypeOK, CacheRight, Next
        PROVE  CacheRight'
    BY <2>1, ReaderStepRight, WriterStepRight, TickRight DEF Next
  <2>2. ASSUME TypeOK, CacheRight, UNCHANGED vars
        PROVE  (TypeOK /\ CacheRight)'
    BY <2>2 DEF vars, TypeOK, CacheRight, ReaderRight, SeenRight,
       UndisturbedRight, Stale, Cached, Pending
  <2> QED
    BY <2>1, <2>2, StepType
<1>3. CacheRight => UndisturbedRight
  BY DEF CacheRight
<1> QED
  BY <1>1, <1>2, <1>3, PTL DEF Spec

=============================================================================
