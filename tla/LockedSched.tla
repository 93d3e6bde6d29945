---------------------------- MODULE LockedSched ----------------------------
(***************************************************************************)
(* The locked scheduler, seen from one task: the Redis hash of its locks   *)
(* (LockManager), the stamps of ContributionsGuard, and the requests that  *)
(* ask for the task and post an answer to it.                              *)
(*                                                                         *)
(* Every Redis command is atomic and the commands of a pipeline run as one *)
(* MULTI; between two commands of a request other requests run and time    *)
(* passes.  Times are what is left until they are due: a lock is past its  *)
(* expiration at -1; at 0 it is neither valid nor removable.               *)
(*                                                                         *)
(* n_answers stays as it is and no run is deleted, so the state column     *)
(* tells get_locked_task no more than the count of runs does.              *)
(***************************************************************************)
EXTENDS Integers, FiniteSets, Functions

CONSTANTS
    Users,      \* clients of the locks: user_id, external_uid or ip
    Sessions,   \* requests the web workers serve at the same time
    NAnswers,   \* n_answers of the task
    Timeout,    \* duration of a lock, a stamp and the hash (STAMP_TTL)
    Grace,      \* what release_lock leaves of a lock
    Failures    \* whether a transaction may fail after its flush

NoUser == "none"

ASSUME LimitsAssumption ==
    /\ NoUser \notin Users
    /\ IsFiniteSet(Sessions) /\ Sessions # {}
    /\ NAnswers \in Nat \ {0}
    /\ Timeout \in Nat
    /\ Grace \in 1..Timeout
    /\ Failures \in BOOLEAN

VARIABLES
    locks,      \* the hash: time left of the lock of each user in it
    ttl,        \* time left of the key of the hash
    stamps,     \* time left of each user's stamp for the task, 0: no stamp
    answered,   \* users with a committed run of the task
    count,      \* committed runs of the task
    tx          \* the request each session serves

vars == <<locks, ttl, stamps, answered, count, tx>>

\* What Redis reports of a key with no time to live.
Persistent == -1

\* user: whose request it is; limit: answers missing when the candidates were
\* read; skip: offset is 1, the first task locked is not handed out; left:
\* until the expiration computed from the request's timestamp; expired: the
\* locks found past theirs.
Request ==
    [pc: {"idle", "asked", "purge", "look", "length", "set", "stamp",
          "held", "allowed", "stamped", "authorize", "save", "flushed"},
     user: Users \cup {NoUser}, limit: 0..NAnswers, skip: BOOLEAN,
     left: -1..Timeout, expired: SUBSET Users]

Idle == [pc |-> "idle", user |-> NoUser, limit |-> 0, skip |-> FALSE,
         left |-> 0, expired |-> {}]

TypeOK ==
    /\ \E held \in SUBSET Users: locks \in [held -> -1..Timeout]
    /\ ttl \in {Persistent} \cup 1..Timeout
    /\ stamps \in [Users -> 0..Timeout]
    /\ answered \subseteq Users
    /\ count \in Nat
    /\ tx \in [Sessions -> Request]

Init ==
    /\ locks = [u \in {} |-> 0]
    /\ ttl = Persistent
    /\ stamps = [u \in Users |-> 0]
    /\ answered = {}
    /\ count = 0
    /\ tx = [s \in Sessions |-> Idle]

At(s, pc) == tx[s].pc = pc

User(s) == tx[s].user

Become(s, request) == tx' = [tx EXCEPT ![s] = request]

Goto(s, pc) == Become(s, [tx[s] EXCEPT !.pc = pc])

Enter(s, pc, u) == Become(s, [Idle EXCEPT !.pc = pc, !.user = u])

Finish(s) == Become(s, Idle)

Holders == DOMAIN locks

Live(u) == u \in Holders /\ locks[u] > 0

-----------------------------------------------------------------------------
(* The hash of the locks *)

\* HSET of one field; a key that did not exist has no time to live.
SetField(u, left) ==
    locks' = [v \in Holders \cup {u} |-> IF v = u THEN left ELSE locks[v]]

Expire == ttl' = Timeout

\* HDEL; the key goes with its last field.
RemoveFields(us) ==
    /\ locks' = Restrict(locks, Holders \ us)
    /\ ttl' = IF Holders \subseteq us THEN Persistent ELSE ttl

-----------------------------------------------------------------------------
(* GET /api/project/<id>/newtask: get_locked_task, then the stamp *)

\* The candidates: a task with answers missing and none of the user.
Ask(s, u, skip) ==
    /\ At(s, "idle")
    /\ u \notin answered
    /\ count < NAnswers
    /\ Become(s, [Idle EXCEPT !.pc = "asked", !.user = u, !.skip = skip,
                              !.limit = NAnswers - count])
    /\ UNCHANGED <<locks, ttl, stamps, answered, count>>

\* acquire_lock takes its timestamp and _release_expired_locks reads the hash.
FindExpired(s) ==
    LET expired == {u \in Holders: locks[u] < 0}
    IN  /\ At(s, "asked")
        /\ Become(s, [tx[s] EXCEPT !.pc = IF expired = {} THEN "look"
                                          ELSE "purge",
                                   !.left = Timeout,
                                   !.expired = expired])
        /\ UNCHANGED <<locks, ttl, stamps, answered, count>>

Purge(s) ==
    /\ At(s, "purge")
    /\ RemoveFields(tx[s].expired)
    /\ Goto(s, "look")
    /\ UNCHANGED <<stamps, answered, count>>

\* With the lock, the task is handed out, or passed over for the next one.
Acquired(s) == IF tx[s].skip THEN Finish(s) ELSE Enter(s, "stamp", User(s))

\* A variant of KeepTime: a lock the user has is renewed.
RenewTime(s) == SetField(User(s), tx[s].left) /\ Expire

\* HEXISTS: a lock the user has is enough as it is.
KeepTime(s) == UNCHANGED <<locks, ttl>>

Look(s) ==
    /\ At(s, "look")
    /\ IF User(s) \in Holders
       THEN Acquired(s) /\ KeepTime(s)
       ELSE Goto(s, "length") /\ UNCHANGED <<locks, ttl>>
    /\ UNCHANGED <<stamps, answered, count>>

\* A variant of RoomFor: the comparison is off by one.
RoomForOneMore(s) == Cardinality(Holders) <= tx[s].limit

\* HLEN against the limit; refused, the scheduler turns to the next task.
RoomFor(s) == Cardinality(Holders) < tx[s].limit

Length(s) ==
    /\ At(s, "length")
    /\ IF RoomFor(s) THEN Goto(s, "set") ELSE Finish(s)
    /\ UNCHANGED <<locks, ttl, stamps, answered, count>>

\* The pipeline: HSET and EXPIRE.
SetLock(s) ==
    /\ At(s, "set")
    /\ SetField(User(s), tx[s].left)
    /\ Expire
    /\ Acquired(s)
    /\ UNCHANGED <<stamps, answered, count>>

\* A variant of Stamp: the stamp outlives the lock by the grace.
StampPastLock(s) ==
    /\ At(s, "stamp")
    /\ stamps' = [stamps EXCEPT ![User(s)] = Timeout + Grace]
    /\ Finish(s)
    /\ UNCHANGED <<locks, ttl, answered, count>>

Stamp(s) ==
    /\ At(s, "stamp")
    /\ stamps' = [stamps EXCEPT ![User(s)] = Timeout]
    /\ Finish(s)
    /\ UNCHANGED <<locks, ttl, answered, count>>

NewTask(s) ==
    \/ \E u \in Users, skip \in BOOLEAN: Ask(s, u, skip)
    \/ FindExpired(s)
    \/ Purge(s)
    \/ Look(s)
    \/ Length(s)
    \/ SetLock(s)
    \/ Stamp(s)

-----------------------------------------------------------------------------
(* POST /api/taskrun *)

\* has_lock: HEXISTS ...
Submit(s, u) ==
    /\ At(s, "idle")
    /\ u \in Holders
    /\ Enter(s, "held", u)
    /\ UNCHANGED <<locks, ttl, stamps, answered, count>>

\* ... then HGET: a field gone in between is None, and float(None) fails.
ReadLock(s) ==
    /\ At(s, "held")
    /\ IF Live(User(s)) THEN Goto(s, "allowed") ELSE Finish(s)
    /\ UNCHANGED <<locks, ttl, stamps, answered, count>>

CheckStamp(s) ==
    /\ At(s, "allowed")
    /\ IF stamps[User(s)] > 0 THEN Goto(s, "stamped") ELSE Finish(s)
    /\ UNCHANGED <<locks, ttl, stamps, answered, count>>

\* _add_created_timestamp
TakeStamp(s) ==
    /\ At(s, "stamped")
    /\ stamps' = [stamps EXCEPT ![User(s)] = 0]
    /\ Goto(s, "authorize")
    /\ UNCHANGED <<locks, ttl, answered, count>>

Authorize(s) ==
    /\ At(s, "authorize")
    /\ IF User(s) \in answered THEN Finish(s) ELSE Goto(s, "save")
    /\ UNCHANGED <<locks, ttl, stamps, answered, count>>

\* A variant of Flush: the release leaves the whole hash the grace.
FlushAll(s) ==
    /\ At(s, "save")
    /\ SetField(User(s), Grace)
    /\ ttl' = Grace
    /\ Goto(s, "flushed")
    /\ UNCHANGED <<stamps, answered, count>>

\* The INSERT; after_save releases the lock before the transaction commits.
Flush(s) ==
    /\ At(s, "save")
    /\ SetField(User(s), Grace)
    /\ Goto(s, "flushed")
    /\ UNCHANGED <<ttl, stamps, answered, count>>

Commit(s) ==
    /\ At(s, "flushed")
    /\ answered' = answered \cup {User(s)}
    /\ count' = count + 1
    /\ Finish(s)
    /\ UNCHANGED <<locks, ttl, stamps>>

Rollback(s) ==
    /\ Failures
    /\ At(s, "flushed")
    /\ Finish(s)
    /\ UNCHANGED <<locks, ttl, stamps, answered, count>>

Post(s) ==
    \/ \E u \in Users: Submit(s, u)
    \/ ReadLock(s)
    \/ CheckStamp(s)
    \/ TakeStamp(s)
    \/ Authorize(s)
    \/ Flush(s)
    \/ Commit(s)
    \/ Rollback(s)

-----------------------------------------------------------------------------
\* Time passes for all: Redis drops the keys that are due.
Older(left) == IF left < 0 THEN left ELSE left - 1

Tick ==
    /\ IF ttl = 1
       THEN locks' = [u \in {} |-> 0] /\ ttl' = Persistent
       ELSE /\ locks' = [u \in Holders |-> Older(locks[u])]
            /\ ttl' = IF ttl = Persistent THEN ttl ELSE ttl - 1
    /\ stamps' = [u \in Users |-> IF stamps[u] = 0 THEN 0 ELSE stamps[u] - 1]
    /\ tx' = [s \in Sessions |->
                 IF tx[s].pc \in {"purge", "look", "length", "set"}
                 THEN [tx[s] EXCEPT !.left = Older(@)] ELSE tx[s]]
    /\ UNCHANGED <<answered, count>>

Next == Tick \/ \E s \in Sessions: NewTask(s) \/ Post(s)

Spec == Init /\ [][Next]_vars

\* Time never stops.  Nothing else is assumed: a request may hang for ever.
FairSpec == Spec /\ WF_vars(Tick)

-----------------------------------------------------------------------------
(* Properties *)

\* The key of the hash outlives the locks in it: a lock taken never goes
\* because the whole hash did, whoever set its time to live last.  Only what
\* is left of a released lock may be cut short.
KeyOutlivesLocks ==
    ttl # Persistent =>
        \A u \in Holders: locks[u] <= ttl \/ locks[u] <= Grace

\* acquire_lock compares HLEN with the limit before it sets the field, and a
\* release sets a field anew.  What that can add is bounded: at most one lock
\* for every other request in progress.
LocksBounded ==
    Cardinality(Holders) <= NAnswers + Cardinality(Sessions) - 1

\* A user who asks for the task again and again keeps its lock no longer: if
\* no transaction fails after the release, every lock ends.
LockEnds == \A u \in Users: Live(u) ~> ~Live(u)

-----------------------------------------------------------------------------
(* What the repository says and its code does not guarantee *)

\* redis_lock.py: duration is "how long a lock is valid after being acquired
\* if not released".  No request removes a lock before it expires.
ValidUntilExpired ==
    [][Tick \/ \A u \in Users: Live(u) => u \in Holders']_vars

=============================================================================
