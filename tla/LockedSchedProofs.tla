-------------------------- MODULE LockedSchedProofs --------------------------
(***************************************************************************)
(* Proofs about LockedSched, for every set of users, every number of       *)
(* workers, every n_answers, every duration of the locks and of the grace. *)
(***************************************************************************)
EXTENDS LockedSched, FiniteSetTheorems, TLAPS

-----------------------------------------------------------------------------
(* Types *)

LEMMA BecomeType ==
    ASSUME NEW s \in Sessions, NEW q \in Request,
           tx \in [Sessions -> Request], Become(s, q)
    PROVE  /\ tx' \in [Sessions -> Request]
           /\ tx'[s] = q
           /\ \A t \in Sessions \ {s}: tx'[t] = tx[t]
  BY DEF Become

LEMMA IdleType == Idle \in Request /\ Idle.pc = "idle"
  BY LimitsAssumption DEF Idle, Request

LEMMA GotoType ==
    ASSUME NEW s \in Sessions, tx \in [Sessions -> Request],
           NEW pc \in {"look", "length", "set", "allowed", "stamped",
                       "authorize", "save", "flushed"},
           Goto(s, pc)
    PROVE  /\ tx' \in [Sessions -> Request]
           /\ tx'[s].pc = pc /\ User(s)' = User(s)
           /\ tx'[s].left = tx[s].left
           /\ \A t \in Sessions \ {s}: tx'[t] = tx[t]
<1>1. /\ [tx[s] EXCEPT !.pc = pc] \in Request
      /\ [tx[s] EXCEPT !.pc = pc].pc = pc
      /\ [tx[s] EXCEPT !.pc = pc].user = tx[s].user
      /\ [tx[s] EXCEPT !.pc = pc].left = tx[s].left
  BY DEF Request
<1> QED
  BY <1>1, BecomeType DEF Goto, User

LEMMA AskedType ==
    ASSUME NEW q \in Request, NEW u \in Users, NEW k \in BOOLEAN,
           NEW n \in 0..NAnswers
    PROVE  [q EXCEPT !.pc = "asked", !.user = u, !.skip = k, !.limit = n]
             \in Request
  BY DEF Request

LEMMA FoundType ==
    ASSUME NEW q \in Request, NEW pc \in {"look", "purge"},
           NEW x \in SUBSET Users, NEW left \in -1..Timeout
    PROVE  [q EXCEPT !.pc = pc, !.left = left, !.expired = x] \in Request
  BY DEF Request

LEMMA FinishType ==
    ASSUME NEW s \in Sessions, tx \in [Sessions -> Request], Finish(s)
    PROVE  /\ tx' \in [Sessions -> Request]
           /\ tx'[s].pc = "idle"
           /\ \A t \in Sessions \ {s}: tx'[t] = tx[t]
  BY IdleType, BecomeType DEF Finish

LEMMA EnterType ==
    ASSUME NEW s \in Sessions, tx \in [Sessions -> Request],
           NEW pc \in {"stamp", "held"}, NEW u \in Users \cup {NoUser},
           Enter(s, pc, u)
    PROVE  /\ tx' \in [Sessions -> Request]
           /\ tx'[s].pc = pc /\ User(s)' = u
           /\ \A t \in Sessions \ {s}: tx'[t] = tx[t]
<1>1. \A q \in Request: /\ [q EXCEPT !.pc = pc, !.user = u] \in Request
                       /\ [q EXCEPT !.pc = pc, !.user = u].pc = pc
                       /\ [q EXCEPT !.pc = pc, !.user = u].user = u
  BY DEF Request
<1> QED
  BY <1>1, IdleType, BecomeType DEF Enter, User

LEMMA AcquiredType ==
    ASSUME NEW s \in Sessions, tx \in [Sessions -> Request], Acquired(s)
    PROVE  /\ tx' \in [Sessions -> Request]
           /\ tx'[s].pc \in {"idle", "stamp"}
           /\ tx'[s].pc = "stamp" => User(s)' = User(s)
           /\ \A t \in Sessions \ {s}: tx'[t] = tx[t]
<1>1. User(s) \in Users \cup {NoUser}
  BY DEF User, Request
<1> QED
  BY <1>1, FinishType, EnterType DEF Acquired

\* A request in progress has a user.
Served == \A s \in Sessions: tx[s].pc # "idle" => User(s) \in Users

TypeInv == TypeOK /\ Served

LEMMA LocksType ==
    ASSUME TypeOK
    PROVE  /\ Holders \subseteq Users
           /\ locks \in [Holders -> -1..Timeout]
  BY DEF TypeOK, Holders

LEMMA SetFieldType ==
    ASSUME TypeOK, NEW u \in Users, NEW left \in -1..Timeout,
           SetField(u, left)
    PROVE  /\ Holders' = Holders \cup {u}
           /\ \A v \in Holders': locks'[v] = IF v = u THEN left ELSE locks[v]
           /\ \E held \in SUBSET Users: locks' \in [held -> -1..Timeout]
  BY LocksType DEF SetField, Holders

LEMMA RemoveFieldsType ==
    ASSUME TypeOK, NEW us, RemoveFields(us)
    PROVE  /\ Holders' \subseteq Holders
           /\ \A v \in Holders': locks'[v] = locks[v]
           /\ \E held \in SUBSET Users: locks' \in [held -> -1..Timeout]
           /\ ttl' \in {Persistent, ttl}
  BY LocksType DEF RemoveFields, Holders, Restrict

LEMMA InitType == Init => TypeInv
<1> SUFFICES ASSUME Init
             PROVE  TypeInv
  OBVIOUS
<1>1. locks \in [{} -> -1..Timeout]
  BY DEF Init
<1>2. tx \in [Sessions -> Request]
  BY IdleType DEF Init
<1>3. stamps \in [Users -> 0..Timeout]
  BY LimitsAssumption DEF Init
<1>4. Served
  BY DEF Init, Served, Idle
<1> QED
  BY <1>1, <1>2, <1>3, <1>4 DEF Init, TypeInv, TypeOK

LEMMA NextType == TypeInv /\ [Next]_vars => TypeInv'
<1> SUFFICES ASSUME TypeInv, [Next]_vars
             PROVE  TypeInv'
  OBVIOUS
<1> USE LimitsAssumption DEF TypeInv, TypeOK, Served, User
<1>1. ASSUME NEW s \in Sessions, NewTask(s)
      PROVE  TypeInv'
  <2>a. tx[s].pc # "idle" => User(s) \in Users
    OBVIOUS
  <2>1. ASSUME NEW u \in Users, NEW skip \in BOOLEAN, Ask(s, u, skip)
        PROVE  TypeInv'
    <3> DEFINE q == [Idle EXCEPT !.pc = "asked", !.user = u, !.skip = skip,
                                 !.limit = NAnswers - count]
    <3>1. NAnswers - count \in 0..NAnswers
      BY <2>1 DEF Ask
    <3>2. q \in Request /\ q.user = u
      <4>1. q \in Request
        BY <3>1, IdleType, AskedType
      <4>2. q.user = u
        BY DEF Idle
      <4> QED
        BY <4>1, <4>2
    <3>3. Become(s, q)
      BY <2>1 DEF Ask
    <3> HIDE DEF q
    <3> QED
      BY <2>1, <3>2, <3>3, BecomeType DEF Ask, User
  <2>2. CASE FindExpired(s)
    <3> DEFINE expired == {u \in Holders: locks[u] < 0}
               pc == IF expired = {} THEN "look" ELSE "purge"
               q == [tx[s] EXCEPT !.pc = pc,
                                  !.left = Timeout,
                                  !.expired = expired]
    <3>1. expired \in SUBSET Users
      BY LocksType
    <3>2. pc \in {"look", "purge"} /\ Timeout \in -1..Timeout
      OBVIOUS
    <3>3. Become(s, q)
      BY <2>2 DEF FindExpired
    <3> HIDE DEF expired, pc
    <3>4. q \in Request /\ q.user = tx[s].user
      <4>1. tx[s] \in Request
        OBVIOUS
      <4>2. q \in Request
        BY <3>1, <3>2, <4>1, FoundType
      <4>3. q.user = tx[s].user
        BY <4>1 DEF Request
      <4> QED
        BY <4>2, <4>3
    <3> HIDE DEF q
    <3>5. tx[s].pc # "idle"
      BY <2>2 DEF FindExpired, At
    <3> QED
      BY <2>2, <3>3, <3>4, <3>5, BecomeType DEF FindExpired, User
  <2>3. CASE Purge(s)
    <3>1. RemoveFields(tx[s].expired)
      BY <2>3 DEF Purge
    <3> QED
      BY <2>3, <3>1, RemoveFieldsType, GotoType DEF Purge, At, User
  <2>4. CASE Look(s)
    <3>1. CASE User(s) \in Holders
      BY <2>4, <3>1, AcquiredType DEF Look, KeepTime, At
    <3>2. CASE User(s) \notin Holders
      BY <2>4, <3>2, GotoType DEF Look, At
    <3> QED
      BY <3>1, <3>2
  <2>5. CASE Length(s)
    BY <2>5, GotoType, FinishType DEF Length, At
  <2>6. CASE SetLock(s)
    <3>1. /\ User(s) \in Users
          /\ tx[s].left \in -1..Timeout
      BY <2>6 DEF SetLock, At, Request
    <3>2. \E held \in SUBSET Users: locks' \in [held -> -1..Timeout]
      BY <2>6, <3>1, SetFieldType DEF SetLock
    <3>3. ttl' \in {Persistent} \cup 1..Timeout
      BY <2>6 DEF SetLock, Expire
    <3>4. Acquired(s) /\ UNCHANGED <<stamps, answered, count>>
      BY <2>6 DEF SetLock
    <3>5. tx' \in [Sessions -> Request] /\ Served'
      BY <3>1, <3>4, AcquiredType
    <3> QED
      BY <3>2, <3>3, <3>4, <3>5
  <2>7. CASE Stamp(s)
    <3>1. stamps' \in [Users -> 0..Timeout]
      <4>1. Timeout \in 0..Timeout
        BY LimitsAssumption
      <4>2. stamps' = [stamps EXCEPT ![User(s)] = Timeout]
        BY <2>7 DEF Stamp
      <4> QED
        BY <4>1, <4>2
    <3>2. /\ tx' \in [Sessions -> Request] /\ tx'[s].pc = "idle"
          /\ \A t \in Sessions \ {s}: tx'[t] = tx[t]
      BY <2>7, FinishType DEF Stamp
    <3> QED
      BY <2>7, <3>1, <3>2 DEF Stamp
  <2> QED
    BY <1>1, <2>1, <2>2, <2>3, <2>4, <2>5, <2>6, <2>7 DEF NewTask
<1>2. ASSUME NEW s \in Sessions, Post(s)
      PROVE  TypeInv'
  <2>1. ASSUME NEW u \in Users, Submit(s, u)
        PROVE  TypeInv'
    <3>1. u \in Users \cup {NoUser} /\ Enter(s, "held", u)
      BY <2>1 DEF Submit
    <3>2. /\ tx' \in [Sessions -> Request] /\ User(s)' = u
          /\ \A t \in Sessions \ {s}: tx'[t] = tx[t]
      BY <3>1, EnterType
    <3>3. Served'
      BY <3>2
    <3> QED
      BY <2>1, <3>2, <3>3 DEF Submit
  <2>2. CASE ReadLock(s) \/ CheckStamp(s) \/ Authorize(s)
    <3>1. UNCHANGED <<locks, ttl, stamps, answered, count>>
      BY <2>2 DEF ReadLock, CheckStamp, Authorize
    <3>2. /\ tx' \in [Sessions -> Request]
          /\ tx'[s].pc # "idle" => User(s)' \in Users
          /\ \A t \in Sessions \ {s}: tx'[t] = tx[t]
      BY <2>2, GotoType, FinishType DEF ReadLock, CheckStamp, Authorize, At
    <3> QED
      BY <3>1, <3>2 DEF User
  <2>3. CASE TakeStamp(s)
    BY <2>3, GotoType DEF TakeStamp, At
  <2>4. CASE Flush(s)
    <3>1. User(s) \in Users /\ Grace \in -1..Timeout
      BY <2>4 DEF Flush, At
    <3>2. \E held \in SUBSET Users: locks' \in [held -> -1..Timeout]
      BY <2>4, <3>1, SetFieldType DEF Flush
    <3>3. tx' \in [Sessions -> Request] /\ Served'
      BY <2>4, <3>1, GotoType DEF Flush
    <3> QED
      BY <2>4, <3>2, <3>3 DEF Flush
  <2>5. CASE Commit(s)
    <3>1. User(s) \in Users
      BY <2>5 DEF Commit, At
    <3> QED
      BY <2>5, <3>1, FinishType DEF Commit
  <2>6. CASE Rollback(s)
    BY <2>6, FinishType DEF Rollback
  <2> QED
    BY <1>2, <2>1, <2>2, <2>3, <2>4, <2>5, <2>6 DEF Post
<1>3. CASE Tick
  <2>1. \E held \in SUBSET Users: locks' \in [held -> -1..Timeout]
    <3>1. CASE ttl = 1
      <4>1. locks' \in [{} -> -1..Timeout]
        BY <1>3, <3>1 DEF Tick
      <4> QED
        BY <4>1
    <3>2. CASE ttl # 1
      <4>1. locks' = [u \in Holders |-> Older(locks[u])]
        BY <1>3, <3>2 DEF Tick
      <4>2. locks' \in [Holders -> -1..Timeout]
        BY <4>1, LocksType DEF Older
      <4> QED
        BY <4>2, LocksType
    <3> QED
      BY <3>1, <3>2
  <2>2. ttl' \in {Persistent} \cup 1..Timeout
    BY <1>3 DEF Tick, Persistent
  <2>3. stamps' \in [Users -> 0..Timeout]
    BY <1>3 DEF Tick
  <2>4. ASSUME NEW s \in Sessions
        PROVE  tx'[s] \in Request /\ tx'[s].pc = tx[s].pc /\ User(s)' = User(s)
    <3>1. Older(tx[s].left) \in -1..Timeout
      BY DEF Older, Request
    <3>2. /\ [tx[s] EXCEPT !.left = Older(@)] \in Request
          /\ [tx[s] EXCEPT !.left = Older(@)].pc = tx[s].pc
          /\ [tx[s] EXCEPT !.left = Older(@)].user = tx[s].user
      BY <3>1 DEF Request
    <3> QED
      BY <1>3, <3>2 DEF Tick, User
  <2>5. tx' \in [Sessions -> Request]
    BY <1>3, <2>4 DEF Tick
  <2> QED
    BY <1>3, <2>1, <2>2, <2>3, <2>4, <2>5 DEF Tick
<1>4. CASE UNCHANGED vars
  BY <1>4 DEF vars, User
<1> QED
  BY <1>1, <1>2, <1>3, <1>4 DEF Next

\* The hash, the stamps and the requests keep their types.
THEOREM TypeCorrect == Spec => []TypeOK
<1>1. TypeInv => TypeOK
  BY DEF TypeInv
<1> QED
  BY <1>1, InitType, NextType, PTL DEF Spec

-----------------------------------------------------------------------------
(* The key of the hash *)

LEMMA InitKey == Init => KeyOutlivesLocks
  BY DEF Init, KeyOutlivesLocks, Holders

LEMMA NextKey ==
    TypeInv /\ KeyOutlivesLocks /\ [Next]_vars => KeyOutlivesLocks'
<1> SUFFICES ASSUME TypeInv, KeyOutlivesLocks, [Next]_vars
             PROVE  KeyOutlivesLocks'
  OBVIOUS
<1>a. TypeOK /\ Served
  BY DEF TypeInv
<1>b. Holders \subseteq Users /\ locks \in [Holders -> -1..Timeout]
  BY <1>a, LocksType
<1>1. ASSUME NEW s \in Sessions, NewTask(s)
      PROVE  KeyOutlivesLocks'
  <2>1. CASE UNCHANGED <<locks, ttl>>
    BY <2>1 DEF KeyOutlivesLocks, Holders
  <2>2. CASE Purge(s)
    BY <1>a, <2>2, RemoveFieldsType DEF Purge, KeyOutlivesLocks
  <2>3. CASE SetLock(s)
    <3>1. User(s) \in Users /\ tx[s].left \in -1..Timeout
      BY <1>a, <2>3 DEF SetLock, At, Served, TypeOK, Request
    <3>2. /\ Holders' = Holders \cup {User(s)}
          /\ \A v \in Holders': locks'[v] = IF v = User(s) THEN tx[s].left
                                            ELSE locks[v]
      BY <1>a, <2>3, <3>1, SetFieldType DEF SetLock
    <3>3. ttl' = Timeout
      BY <2>3 DEF SetLock, Expire
    <3>4. \A v \in Holders': locks'[v] <= Timeout
      BY <1>b, <3>1, <3>2, LimitsAssumption
    <3> QED
      BY <3>3, <3>4 DEF KeyOutlivesLocks
  <2> QED
    BY <1>1, <2>1, <2>2, <2>3
       DEF NewTask, Ask, FindExpired, Look, KeepTime, Length, Stamp
<1>2. ASSUME NEW s \in Sessions, Post(s)
      PROVE  KeyOutlivesLocks'
  <2>1. CASE UNCHANGED <<locks, ttl>>
    BY <2>1 DEF KeyOutlivesLocks, Holders
  <2>2. CASE Flush(s)
    <3>1. User(s) \in Users /\ Grace \in -1..Timeout
      BY <1>a, <2>2, LimitsAssumption DEF Flush, At, Served
    <3>2. /\ Holders' = Holders \cup {User(s)}
          /\ \A v \in Holders': locks'[v] = IF v = User(s) THEN Grace
                                            ELSE locks[v]
      BY <1>a, <2>2, <3>1, SetFieldType DEF Flush
    <3>3. ttl' = ttl
      BY <2>2 DEF Flush
    <3> QED
      BY <3>1, <3>2, <3>3 DEF KeyOutlivesLocks
  <2> QED
    BY <1>2, <2>1, <2>2
       DEF Post, Submit, ReadLock, CheckStamp, TakeStamp, Authorize, Commit,
           Rollback
<1>3. CASE Tick
  <2>1. CASE ttl = 1
    BY <1>3, <2>1 DEF Tick, KeyOutlivesLocks
  <2>2. CASE ttl # 1
    <3>1. /\ Holders' = Holders
          /\ \A u \in Holders: locks'[u] = Older(locks[u])
      BY <1>3, <2>2 DEF Tick, Holders
    <3>2. ttl = Persistent \/ ttl \in 1..Timeout
      BY <1>a DEF TypeOK
    <3>3. IF ttl = Persistent
          THEN ttl' = Persistent
          ELSE ttl' = ttl - 1 /\ ttl \in 2..Timeout
      BY <1>3, <2>2, <3>2, LimitsAssumption DEF Tick, Persistent
    <3>4. ASSUME NEW u \in Holders, ttl # Persistent
          PROVE  locks'[u] <= ttl' \/ locks'[u] <= Grace
      <4>1. locks[u] \in Int /\ Grace \in Nat
        <5>1. locks[u] \in -1..Timeout
          BY <1>b
        <5> QED
          BY <5>1, LimitsAssumption
      <4>2. locks[u] <= ttl \/ locks[u] <= Grace
        BY <3>4 DEF KeyOutlivesLocks
      <4>3. ttl' = ttl - 1 /\ ttl \in 2..Timeout
        BY <3>3, <3>4
      <4>4. locks'[u] = IF locks[u] < 0 THEN locks[u] ELSE locks[u] - 1
        BY <3>1 DEF Older
      <4> QED
        BY <4>1, <4>2, <4>3, <4>4, LimitsAssumption
    <3> QED
      BY <3>1, <3>3, <3>4 DEF KeyOutlivesLocks
  <2> QED
    BY <2>1, <2>2
<1>4. CASE UNCHANGED vars
  BY <1>4 DEF vars, KeyOutlivesLocks, Holders
<1> QED
  BY <1>1, <1>2, <1>3, <1>4 DEF Next

\* No lock goes before its time because the key of the hash expired: each
\* pipeline that sets a lock gives the key the full duration again.
THEOREM KeyOutlives == Spec => []KeyOutlivesLocks
  BY InitType, NextType, InitKey, NextKey, PTL DEF Spec

-----------------------------------------------------------------------------
(* How many locks there can be *)

\* A request that may still set the field of its user: it passed HLEN, or
\* it found the user's lock.
Claims(s) ==
    tx[s].pc \in {"set", "held", "allowed", "stamped", "authorize", "save"}

Claimants == {User(s): s \in {t \in Sessions: Claims(t)}}

\* The locks there are and those that may be added.
RoomInv ==
    /\ IsFiniteSet(Holders)
    /\ Cardinality(Holders \cup Claimants)
         <= NAnswers + Cardinality(Sessions) - 1

LEMMA ClaimantsFinite ==
    /\ IsFiniteSet(Claimants)
    /\ Cardinality(Claimants) \in Nat
    /\ Cardinality(Claimants) <= Cardinality(Sessions)
<1> DEFINE C == {t \in Sessions: Claims(t)}
<1>1. IsFiniteSet(C) /\ Cardinality(C) <= Cardinality(Sessions)
  BY LimitsAssumption, FS_Subset
<1>2. Claimants = {User(s): s \in C}
  BY DEF Claimants
<1> HIDE DEF C
<1> DEFINE f == [t \in C |-> User(t)]
<1>3. f \in Surjection(C, Claimants)
  BY <1>2 DEF Surjection
<1> HIDE DEF f
<1>4. IsFiniteSet(Claimants) /\ Cardinality(Claimants) <= Cardinality(C)
  BY <1>1, <1>3, FS_Surjection
<1> QED
  BY <1>1, <1>4, LimitsAssumption, FS_CardinalityType

LEMMA InitRoom == Init => RoomInv
<1> SUFFICES ASSUME Init PROVE RoomInv
  OBVIOUS
<1>1. Holders = {}
  BY DEF Init, Holders
<1>2. Claimants = {}
  BY DEF Init, Claimants, Claims, Idle
<1>3. Cardinality(Sessions) \in Nat \ {0}
  BY LimitsAssumption, FS_CardinalityType, FS_EmptySet
<1> QED
  BY <1>1, <1>2, <1>3, FS_EmptySet, LimitsAssumption DEF RoomInv

\* No step but HLEN with room to spare lets in another user.
LEMMA RoomShrinks ==
    ASSUME TypeOK, RoomInv, Holders' \subseteq Holders \cup Claimants,
           Claimants' \subseteq Holders \cup Claimants
    PROVE  RoomInv'
<1> DEFINE A == Holders \cup Claimants
<1> DEFINE B == Holders' \cup Claimants'
<1>1. IsFiniteSet(A) /\ Cardinality(A) \in Nat
  BY ClaimantsFinite, FS_Union, FS_CardinalityType DEF RoomInv
<1>2. B \subseteq A
  OBVIOUS
<1>3. /\ IsFiniteSet(B) /\ Cardinality(B) <= Cardinality(A)
      /\ Cardinality(B) \in Nat
  BY <1>1, <1>2, FS_Subset, FS_CardinalityType
<1>4. IsFiniteSet(Holders')
  BY <1>1, FS_Subset
<1>5. Cardinality(A) <= NAnswers + Cardinality(Sessions) - 1
  BY DEF RoomInv
<1>6. Cardinality(Sessions) \in Nat
  BY LimitsAssumption, FS_CardinalityType
<1>7. Cardinality(B) <= NAnswers + Cardinality(Sessions) - 1
  <2> HIDE DEF A, B
  <2> QED
    BY <1>1, <1>3, <1>5, <1>6, LimitsAssumption
<1> QED
  BY <1>4, <1>7 DEF RoomInv

LEMMA OthersClaim ==
    ASSUME NEW s \in Sessions,
           \A t \in Sessions \ {s}: tx'[t] = tx[t],
           Claims(s)' => User(s)' \in Holders \cup Claimants
    PROVE  Claimants' \subseteq Holders \cup Claimants
<1> SUFFICES ASSUME NEW t \in Sessions, Claims(t)'
             PROVE  User(t)' \in Holders \cup Claimants
  BY DEF Claimants
<1>1. CASE t = s
  BY <1>1
<1>2. CASE t # s
  <2>1. tx'[t] = tx[t]
    BY <1>2
  <2> QED
    BY <2>1 DEF Claimants, Claims, User
<1> QED
  BY <1>1, <1>2

LEMMA NextRoom ==
    TypeInv /\ RoomInv /\ [Next]_vars => RoomInv'
<1> SUFFICES ASSUME TypeInv, RoomInv, [Next]_vars
             PROVE  RoomInv'
  OBVIOUS
<1>a. TypeOK /\ Served /\ tx \in [Sessions -> Request]
  BY DEF TypeInv, TypeOK
<1>b. Holders \subseteq Users /\ locks \in [Holders -> -1..Timeout]
  BY <1>a, LocksType
<1>1. ASSUME NEW s \in Sessions, NewTask(s)
      PROVE  RoomInv'
  <2>1. CASE \E u \in Users, skip \in BOOLEAN: Ask(s, u, skip)
    <3>1. PICK u \in Users, skip \in BOOLEAN: Ask(s, u, skip)
      BY <2>1
    <3>2. NAnswers - count \in 0..NAnswers
      BY <1>a, <3>1, LimitsAssumption DEF Ask, TypeOK
    <3> DEFINE q == [Idle EXCEPT !.pc = "asked", !.user = u, !.skip = skip,
                                 !.limit = NAnswers - count]
    <3>3. q \in Request /\ q.pc = "asked" /\ Become(s, q)
      BY <3>1, <3>2, IdleType, AskedType DEF Ask, Idle
    <3> HIDE DEF q
    <3>4. /\ \A t \in Sessions \ {s}: tx'[t] = tx[t]
          /\ tx'[s].pc = "asked"
      BY <1>a, <3>3, BecomeType
    <3>5. Holders' = Holders /\ ~Claims(s)'
      BY <3>1, <3>4 DEF Ask, Holders, Claims
    <3> QED
      BY <1>a, <3>4, <3>5, OthersClaim, RoomShrinks
  <2>2. CASE FindExpired(s)
    <3> DEFINE expired == {u \in Holders: locks[u] < 0}
    <3> DEFINE pc == IF expired = {} THEN "look" ELSE "purge"
    <3>1. /\ pc \in {"look", "purge"}
          /\ Become(s, [tx[s] EXCEPT !.pc = pc, !.left = Timeout,
                                     !.expired = expired])
      BY <2>2 DEF FindExpired
    <3>2. expired \in SUBSET Users /\ Timeout \in -1..Timeout
      BY <1>b, LimitsAssumption
    <3> HIDE DEF expired, pc
    <3>3. tx[s] \in Request
      BY <1>a
    <3>4. [tx[s] EXCEPT !.pc = pc, !.left = Timeout, !.expired = expired]
            \in Request
      BY <3>1, <3>2, <3>3, FoundType
    <3>5. [tx[s] EXCEPT !.pc = pc, !.left = Timeout, !.expired = expired].pc
            = pc
      BY <3>3 DEF Request
    <3>6. /\ \A t \in Sessions \ {s}: tx'[t] = tx[t]
          /\ tx'[s].pc = pc
      BY <1>a, <3>1, <3>4, <3>5, BecomeType
    <3>7. Holders' = Holders /\ ~Claims(s)'
      BY <2>2, <3>1, <3>6 DEF FindExpired, Holders, Claims
    <3> QED
      BY <1>a, <3>6, <3>7, OthersClaim, RoomShrinks
  <2>3. CASE Purge(s)
    <3>1. Holders' \subseteq Holders
      BY <1>a, <2>3, RemoveFieldsType DEF Purge
    <3>2. /\ \A t \in Sessions \ {s}: tx'[t] = tx[t]
          /\ ~Claims(s)'
      BY <1>a, <2>3, GotoType DEF Purge, Claims
    <3> QED
      BY <1>a, <3>1, <3>2, OthersClaim, RoomShrinks
  <2>4. CASE Look(s)
    <3>1. Holders' = Holders
      BY <2>4 DEF Look, KeepTime, Holders
    <3>2. /\ \A t \in Sessions \ {s}: tx'[t] = tx[t]
          /\ ~Claims(s)'
      BY <1>a, <2>4, GotoType, AcquiredType DEF Look, Claims
    <3> QED
      BY <1>a, <3>1, <3>2, OthersClaim, RoomShrinks
  <2>5. CASE Length(s) /\ ~RoomFor(s)
    <3>1. Holders' = Holders
      BY <2>5 DEF Length, Holders
    <3>2. /\ \A t \in Sessions \ {s}: tx'[t] = tx[t]
          /\ ~Claims(s)'
      BY <1>a, <2>5, FinishType DEF Length, Claims
    <3> QED
      BY <1>a, <3>1, <3>2, OthersClaim, RoomShrinks
  <2>6. CASE Length(s) /\ RoomFor(s)
    <3>1. Holders' = Holders
      BY <2>6 DEF Length, Holders
    <3>2. tx[s].limit \in 0..NAnswers
      BY <1>a DEF Request
    <3>3. IsFiniteSet(Holders) /\ Cardinality(Holders) \in Nat
      BY FS_CardinalityType DEF RoomInv
    <3>4. Cardinality(Holders) <= NAnswers - 1
      BY <2>6, <3>2, <3>3, LimitsAssumption DEF RoomFor
    <3>5. /\ IsFiniteSet(Claimants')
          /\ Cardinality(Claimants') \in Nat
          /\ Cardinality(Claimants') <= Cardinality(Sessions)
      <4>1. (/\ IsFiniteSet(Claimants)
             /\ Cardinality(Claimants) \in Nat
             /\ Cardinality(Claimants) <= Cardinality(Sessions))'
        BY ClaimantsFinite, PTL
      <4> QED
        BY <4>1
    <3>6. /\ Cardinality(Holders \cup Claimants') \in Nat
          /\ Cardinality(Holders \cup Claimants')
               <= Cardinality(Holders) + Cardinality(Claimants')
      <4>1. /\ IsFiniteSet(Holders \cap Claimants')
            /\ Cardinality(Holders \cap Claimants') \in Nat
        BY <3>3, FS_Subset, FS_CardinalityType
      <4>2. /\ IsFiniteSet(Holders \cup Claimants')
            /\ Cardinality(Holders \cup Claimants') =
                 Cardinality(Holders) + Cardinality(Claimants')
                   - Cardinality(Holders \cap Claimants')
        BY <3>3, <3>5, FS_Union
      <4> QED
        BY <3>3, <3>5, <4>1, <4>2, FS_CardinalityType
    <3>7. Cardinality(Sessions) \in Nat
      BY LimitsAssumption, FS_CardinalityType
    <3>8. Cardinality(Holders \cup Claimants')
            <= NAnswers + Cardinality(Sessions) - 1
      BY <3>3, <3>4, <3>5, <3>6, <3>7, LimitsAssumption
    <3> QED
      BY <3>1, <3>3, <3>8 DEF RoomInv
  <2>7. CASE SetLock(s)
    <3>1. User(s) \in Users /\ tx[s].left \in -1..Timeout
      BY <1>a, <2>7 DEF SetLock, At, Served, Request
    <3>2. Holders' = Holders \cup {User(s)}
      BY <1>a, <2>7, <3>1, SetFieldType DEF SetLock
    <3>3. User(s) \in Claimants
      BY <2>7 DEF SetLock, At, Claims, Claimants
    <3>4. /\ \A t \in Sessions \ {s}: tx'[t] = tx[t]
          /\ ~Claims(s)'
      BY <1>a, <2>7, AcquiredType DEF SetLock, Claims
    <3> QED
      BY <1>a, <3>2, <3>3, <3>4, OthersClaim, RoomShrinks
  <2>8. CASE Stamp(s)
    <3>1. Holders' = Holders
      BY <2>8 DEF Stamp, Holders
    <3>2. /\ \A t \in Sessions \ {s}: tx'[t] = tx[t]
          /\ ~Claims(s)'
      BY <1>a, <2>8, FinishType DEF Stamp, Claims
    <3> QED
      BY <1>a, <3>1, <3>2, OthersClaim, RoomShrinks
  <2> QED
    BY <1>1, <2>1, <2>2, <2>3, <2>4, <2>5, <2>6, <2>7, <2>8 DEF NewTask
<1>2. ASSUME NEW s \in Sessions, Post(s)
      PROVE  RoomInv'
  <2>1. CASE \E u \in Users: Submit(s, u)
    <3>1. PICK u \in Users: Submit(s, u)
      BY <2>1
    <3>2. /\ \A t \in Sessions \ {s}: tx'[t] = tx[t]
          /\ User(s)' = u /\ u \in Holders /\ Holders' = Holders
      BY <1>a, <3>1, EnterType DEF Submit, Holders
    <3> QED
      BY <1>a, <3>2, OthersClaim, RoomShrinks
  <2>2. CASE Flush(s)
    <3>1. User(s) \in Users /\ Grace \in -1..Timeout
      BY <1>a, <2>2, LimitsAssumption DEF Flush, At, Served
    <3>2. Holders' = Holders \cup {User(s)}
      BY <1>a, <2>2, <3>1, SetFieldType DEF Flush
    <3>3. User(s) \in Claimants
      BY <2>2 DEF Flush, At, Claims, Claimants
    <3>4. /\ \A t \in Sessions \ {s}: tx'[t] = tx[t]
          /\ ~Claims(s)'
      BY <1>a, <2>2, GotoType DEF Flush, Claims
    <3> QED
      BY <1>a, <3>2, <3>3, <3>4, OthersClaim, RoomShrinks
  <2>3. CASE ReadLock(s) \/ CheckStamp(s) \/ TakeStamp(s) \/ Authorize(s)
             \/ Commit(s) \/ Rollback(s)
    <3>1. Holders' = Holders
      BY <2>3 DEF ReadLock, CheckStamp, TakeStamp, Authorize, Commit,
                  Rollback, Holders
    <3>2. CASE Finish(s)
      <4>1. /\ \A t \in Sessions \ {s}: tx'[t] = tx[t]
            /\ ~Claims(s)'
        BY <1>a, <3>2, FinishType DEF Claims
      <4> QED
        BY <1>a, <3>1, <4>1, OthersClaim, RoomShrinks
    <3>3. CASE /\ Claims(s)
               /\ \E pc \in {"allowed", "stamped", "authorize", "save"}:
                     Goto(s, pc)
      <4>1. /\ \A t \in Sessions \ {s}: tx'[t] = tx[t]
            /\ User(s)' = User(s)
        BY <1>a, <3>3, GotoType
      <4>2. User(s) \in Claimants
        BY <3>3 DEF Claimants
      <4> QED
        BY <1>a, <3>1, <4>1, <4>2, OthersClaim, RoomShrinks
    <3> QED
      BY <2>3, <3>2, <3>3
         DEF ReadLock, CheckStamp, TakeStamp, Authorize, Commit, Rollback, At,
             Claims
  <2> QED
    BY <1>2, <2>1, <2>2, <2>3 DEF Post
<1>3. CASE Tick
  <2>1. Holders' \subseteq Holders
    BY <1>3 DEF Tick, Holders
  <2>2. \A t \in Sessions: tx'[t].pc = tx[t].pc /\ User(t)' = User(t)
    BY <1>3, <1>a DEF Tick, User, Request
  <2>3. Claimants' = Claimants
    BY <2>2 DEF Claimants, Claims
  <2> QED
    BY <1>a, <2>1, <2>3, RoomShrinks
<1>4. CASE UNCHANGED vars
  <2>1. Holders' = Holders /\ Claimants' = Claimants
    BY <1>4 DEF vars, Holders, Claimants, Claims, User
  <2> QED
    BY <1>a, <2>1, RoomShrinks
<1> QED
  BY <1>1, <1>2, <1>3, <1>4 DEF Next

LEMMA RoomBounds == TypeInv /\ RoomInv => LocksBounded
<1> SUFFICES ASSUME TypeInv, RoomInv
             PROVE  LocksBounded
  OBVIOUS
<1>1. /\ IsFiniteSet(Holders \cup Claimants)
      /\ Holders \subseteq Holders \cup Claimants
  BY ClaimantsFinite, FS_Union DEF RoomInv
<1>2. /\ Cardinality(Holders) <= Cardinality(Holders \cup Claimants)
      /\ Cardinality(Holders) \in Nat
      /\ Cardinality(Holders \cup Claimants) \in Nat
  BY <1>1, FS_Subset, FS_CardinalityType DEF RoomInv
<1>3. Cardinality(Sessions) \in Nat
  BY LimitsAssumption, FS_CardinalityType
<1> QED
  BY <1>2, <1>3, LimitsAssumption DEF RoomInv, LocksBounded

\* HLEN and HSET are two commands and a release sets its field anew, yet the
\* locks of a task never exceed n_answers by more than the requests that can
\* be in between: one for every worker but one.
THEOREM LocksStayBounded == Spec => []LocksBounded
  BY InitType, NextType, InitRoom, NextRoom, RoomBounds, PTL DEF Spec

-----------------------------------------------------------------------------
(* Requests served in turn *)

\* The locks a purge is about to remove are past their expiration still: with
\* other requests at work between HGETALL and HDEL this is not so.
PurgesExpired ==
    \A s \in Sessions:
        At(s, "purge") => \A u \in tx[s].expired: u \in Holders => locks[u] < 0

LEMMA FindPurge ==
    ASSUME TypeInv, NEW s \in Sessions, FindExpired(s)
    PROVE  /\ tx'[s].expired = {u \in Holders: locks[u] < 0}
           /\ UNCHANGED locks
<1>1. tx[s] \in Request /\ tx \in [Sessions -> Request]
  BY DEF TypeInv, TypeOK
<1>. DEFINE expired == {u \in Holders: locks[u] < 0}
            pc == IF expired = {} THEN "look" ELSE "purge"
<1>2. Become(s, [tx[s] EXCEPT !.pc = pc, !.left = Timeout,
                              !.expired = expired])
  BY DEF FindExpired
<1>. HIDE DEF expired, pc
<1>3. tx'[s].expired = expired
  BY <1>1, <1>2 DEF Become, Request
<1> QED
  BY <1>3 DEF FindExpired, expired

\* Every step of a request but FindExpired leaves it outside of a purge.
LEMMA NoPurge ==
    ASSUME TypeInv, NEW s \in Sessions, NewTask(s) \/ Post(s),
           ~FindExpired(s)
    PROVE  tx'[s].pc # "purge"
<1>a. tx \in [Sessions -> Request] /\ tx[s] \in Request
  BY DEF TypeInv, TypeOK
<1>1. CASE \E u \in Users, skip \in BOOLEAN: Ask(s, u, skip)
  BY <1>a, <1>1 DEF Ask, Become, Idle
<1>2. CASE \E u \in Users: Submit(s, u)
  BY <1>a, <1>2 DEF Submit, Enter, Become, Idle
<1>3. CASE Purge(s) \/ Length(s) \/ Stamp(s)
  BY <1>a, <1>3, GotoType, FinishType DEF Purge, Length, Stamp
<1>4. CASE Look(s) \/ SetLock(s)
  BY <1>a, <1>4, GotoType, AcquiredType DEF Look, SetLock
<1>5. CASE ReadLock(s) \/ CheckStamp(s) \/ TakeStamp(s) \/ Authorize(s)
  BY <1>a, <1>5, GotoType, FinishType
     DEF ReadLock, CheckStamp, TakeStamp, Authorize
<1>6. CASE Flush(s) \/ Commit(s) \/ Rollback(s)
  BY <1>a, <1>6, GotoType, FinishType DEF Flush, Commit, Rollback
<1> QED
  BY <1>1, <1>2, <1>3, <1>4, <1>5, <1>6 DEF NewTask, Post

LEMMA NextPurges ==
    ASSUME \A s, t \in Sessions: s = t, TypeInv, PurgesExpired, [Next]_vars
    PROVE  PurgesExpired'
<1>1. ASSUME NEW s \in Sessions, NewTask(s) \/ Post(s)
      PROVE  PurgesExpired'
  <2>1. CASE FindExpired(s)
    BY <2>1, FindPurge DEF PurgesExpired, Holders
  <2>2. CASE ~FindExpired(s)
    BY <1>1, <2>2, NoPurge DEF PurgesExpired, At
  <2> QED
    BY <2>1, <2>2
<1>2. CASE Tick
  <2>1. ASSUME NEW s \in Sessions, At(s, "purge")'
        PROVE  At(s, "purge") /\ tx'[s].expired = tx[s].expired
    <3>1. tx[s] \in Request
      BY DEF TypeInv, TypeOK
    <3> QED
      BY <1>2, <2>1, <3>1 DEF Tick, At, Request
  <2>2. ASSUME NEW u \in Holders', locks[u] < 0
        PROVE  locks'[u] < 0
    BY <1>2, <2>2 DEF Tick, Holders, Older
  <2>3. Holders' \subseteq Holders
    BY <1>2 DEF Tick, Holders
  <2> QED
    BY <2>1, <2>2, <2>3 DEF PurgesExpired
<1>3. CASE UNCHANGED vars
  BY <1>3 DEF vars, PurgesExpired, At, Holders
<1> QED
  BY <1>1, <1>2, <1>3 DEF Next

LEMMA StepKeepsLive ==
    ASSUME TypeInv, PurgesExpired, [Next]_vars
    PROVE  [Tick \/ \A u \in Users: Live(u) => u \in Holders']_vars
<1>. SUFFICES ASSUME ~Tick, NEW u \in Users, Live(u)
              PROVE  u \in Holders'
  OBVIOUS
<1>1. ASSUME NEW s \in Sessions, NewTask(s) \/ Post(s)
      PROVE  u \in Holders'
  <2>1. CASE Purge(s)
    <3>1. locks[u] \in Int /\ locks[u] > 0 /\ u \in Holders
      BY LocksType DEF Live, TypeInv
    <3>2. u \notin tx[s].expired
      BY <2>1, <3>1 DEF Purge, PurgesExpired
    <3>3. Holders' = Holders \ tx[s].expired
      BY <2>1 DEF Purge, RemoveFields, Restrict, Holders
    <3> QED
      BY <3>1, <3>2, <3>3
  <2>2. CASE SetLock(s) \/ Flush(s)
    BY <2>2 DEF SetLock, Flush, SetField, Holders, Live
  <2>3. CASE UNCHANGED locks
    BY <2>3 DEF Holders, Live
  <2> QED
    BY <1>1, <2>1, <2>2, <2>3
       DEF NewTask, Post, Ask, FindExpired, Look, KeepTime, Length, Stamp,
           Submit, ReadLock, CheckStamp, TakeStamp, Authorize, Commit, Rollback
<1>2. CASE UNCHANGED vars
  BY <1>2 DEF vars, Holders, Live
<1> QED
  BY <1>1, <1>2 DEF Next

\* One worker that serves request after request keeps what redis_lock.py
\* says, whatever the users and the durations: a lock is valid until it
\* expires.  What the run lock_lifetime finds takes two requests, one of them
\* between the HGETALL and the HDEL of the other.
THEOREM ValidWhenServedInTurn ==
    ASSUME \A s, t \in Sessions: s = t
    PROVE  Spec => ValidUntilExpired
<1>1. Init => PurgesExpired
  BY DEF Init, PurgesExpired, At, Idle
<1>2. TypeInv /\ PurgesExpired /\ [Next]_vars => PurgesExpired'
  BY NextPurges
<1>3. TypeInv /\ PurgesExpired /\ [Next]_vars
        => [Tick \/ \A u \in Users: Live(u) => u \in Holders']_vars
  BY StepKeepsLive
<1> QED
  BY <1>1, <1>2, <1>3, InitType, NextType, PTL DEF Spec, ValidUntilExpired

=============================================================================
