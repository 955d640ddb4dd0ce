---------------------------- MODULE TwoTierCache ----------------------------
(***************************************************************************)
(* CacheManager (src/atlas_mcp/cache/manager.py) over one cache key: the   *)
(* L1 tier of every replica, the L2 tier and the stampede lock they share, *)
(* and the callers of get_or_compute.                                      *)
(*                                                                         *)
(* An L2 operation takes effect in an action of its own, so callers of     *)
(* other replicas (and of the same one) interleave between any two.  Time  *)
(* is kept as what is left of each TTL and timer; one tick is one          *)
(* STAMPEDE_WAIT_MS.  A value is abstracted to its age, counted from the   *)
(* start of the computation that produced it.                              *)
(***************************************************************************)
EXTENDS Integers, FiniteSets

CONSTANTS
    Replicas,
    Callers,
    Home,        \* Home[c]: the replica that runs caller c
    L1Ttl,       \* cache_l1_ttl_seconds
    L2Ttl,       \* the tool's cache_ttl_seconds, or cache_l2_ttl_seconds
    LockTtl,     \* STAMPEDE_LOCK_TTL_MS
    MaxWaits,    \* STAMPEDE_MAX_WAITS
    MaxCompute   \* the ATBA timeout of the computation

ASSUME ConstantsAssumption ==
    /\ Home \in [Callers -> Replicas]
    /\ {L1Ttl, L2Ttl, LockTtl, MaxWaits, MaxCompute} \subseteq Nat \ {0}

VARIABLES
    l1,         \* per replica: its L1 entry for the key
    l2,         \* the shared L2 entry
    lock,       \* ticks until the stampede lock expires, 0 when it is free
    call,       \* per caller: where its get_or_compute stands
    deleting,   \* replicas that deleted their L1 entry and not yet the L2 one
    disturbed,  \* history: a call was aborted, a replica crashed, or the key was invalidated
    unlocked    \* history: an invalidation deleted the stampede lock

vars == <<l1, l2, lock, call, deleting, disturbed, unlocked>>

\* An entry is served while left >= 0, that is until expires_at < now.
Absent == [age |-> 0, left |-> -1]
Entry(age, ttl) == [age |-> age, left |-> ttl]
Hit(e) == e.left >= 0

\* A caller between two awaits of get_or_compute, `age` being the age of the
\* value it holds, `timer` the rest of its sleep, `waits` its sleeps so far and
\* `holds` whether acquire_lock returned True.
At == {"idle", "l2get", "promote", "acquire", "compute", "l2set", "release", "sleep"}
Idle == [at |-> "idle", age |-> 0, timer |-> 0, waits |-> 0, holds |-> FALSE]

TypeOK ==
    /\ l1 \in [Replicas -> [age : Nat, left : -1..L1Ttl]]
    /\ l2 \in [age : Nat, left : -1..L2Ttl]
    /\ lock \in 0..LockTtl
    /\ call \in [Callers -> [at : At, age : Nat, timer : 0..1,
                             waits : 0..MaxWaits, holds : BOOLEAN]]
    /\ deleting \subseteq Replicas
    /\ disturbed \in BOOLEAN
    /\ unlocked \in BOOLEAN

Init ==
    /\ l1 = [r \in Replicas |-> Absent]
    /\ l2 = Absent
    /\ lock = 0
    /\ call = [c \in Callers |-> Idle]
    /\ deleting = {}
    /\ disturbed = FALSE
    /\ unlocked = FALSE

-----------------------------------------------------------------------------

Goto(c, where) == call' = [call EXCEPT ![c].at = where]
Return(c) == call' = [call EXCEPT ![c] = Idle]
Sleep(c) == call' = [call EXCEPT ![c].at = "sleep", ![c].timer = 1, ![c].waits = @ + 1]
Compute(c, locked) ==
    call' = [call EXCEPT ![c].at = "compute", ![c].age = 0, ![c].holds = locked]

\* The code of get_or_compute after the computation: `finally` when it holds the lock.
Leave(c) == IF call[c].holds THEN Goto(c, "release") ELSE Return(c)

\* First get(): L1 has nothing.  (An L1 hit returns at once.)
Start(c) ==
    /\ call[c].at = "idle"
    /\ ~Hit(l1[Home[c]])
    /\ Goto(c, "l2get")
    /\ UNCHANGED <<l1, l2, lock, deleting, disturbed, unlocked>>

\* A waiter's sleep is over: it calls get() again.
Wake(c) ==
    /\ call[c].at = "sleep"
    /\ call[c].timer = 0
    /\ IF Hit(l1[Home[c]]) THEN Return(c) ELSE Goto(c, "l2get")
    /\ UNCHANGED <<l1, l2, lock, deleting, disturbed, unlocked>>

L2Hit(c) ==
    /\ call[c].at = "l2get"
    /\ Hit(l2)
    /\ call' = [call EXCEPT ![c].at = "promote", ![c].age = l2.age]
    /\ UNCHANGED <<l1, l2, lock, deleting, disturbed, unlocked>>

\* Mutant: one sleep too many.
MutantL2Miss(c) ==
    /\ call[c].at = "l2get"
    /\ ~Hit(l2)
    /\ \/ call[c].waits = 0 /\ Goto(c, "acquire")
       \/ call[c].waits \in 1..MaxWaits /\ Sleep(c)
       \/ call[c].waits > MaxWaits /\ Compute(c, FALSE)
    /\ UNCHANGED <<l1, l2, lock, deleting, disturbed, unlocked>>

\* Mutant: the first sleep is also the last.
ImpatientL2Miss(c) ==
    /\ call[c].at = "l2get"
    /\ ~Hit(l2)
    /\ \/ call[c].waits = 0 /\ Goto(c, "acquire")
       \/ call[c].waits > 0 /\ Compute(c, FALSE)
    /\ UNCHANGED <<l1, l2, lock, deleting, disturbed, unlocked>>

\* Mutant: wait for the lock's holder for ever.
PatientL2Miss(c) ==
    /\ call[c].at = "l2get"
    /\ ~Hit(l2)
    /\ \/ call[c].waits = 0 /\ Goto(c, "acquire")
       \/ /\ call[c].waits > 0
          /\ call' = [call EXCEPT ![c].at = "sleep", ![c].timer = 1]
    /\ UNCHANGED <<l1, l2, lock, deleting, disturbed, unlocked>>

\* A miss goes on to the lock, to the next sleep, or, when patience is over,
\* to a computation without the lock.
L2Miss(c) ==
    /\ call[c].at = "l2get"
    /\ ~Hit(l2)
    /\ \/ call[c].waits = 0 /\ Goto(c, "acquire")
       \/ call[c].waits \in 1..(MaxWaits - 1) /\ Sleep(c)
       \/ call[c].waits = MaxWaits /\ Compute(c, FALSE)
    /\ UNCHANGED <<l1, l2, lock, deleting, disturbed, unlocked>>

\* Mutant: a promotion renews the L2 entry as well.
MutantPromote(c) ==
    /\ call[c].at = "promote"
    /\ l1' = [l1 EXCEPT ![Home[c]] = Entry(call[c].age, L1Ttl)]
    /\ l2' = Entry(call[c].age, L2Ttl)
    /\ Return(c)
    /\ UNCHANGED <<lock, deleting, disturbed, unlocked>>

\* An L2 hit is copied into L1, with the full L1 TTL, and returned.
Promote(c) ==
    /\ call[c].at = "promote"
    /\ l1' = [l1 EXCEPT ![Home[c]] = Entry(call[c].age, L1Ttl)]
    /\ Return(c)
    /\ UNCHANGED <<l2, lock, deleting, disturbed, unlocked>>

\* Mutant: SET without NX.
MutantAcquire(c) ==
    /\ call[c].at = "acquire"
    /\ lock' = LockTtl
    /\ Compute(c, TRUE)
    /\ UNCHANGED <<l1, l2, deleting, disturbed, unlocked>>

Acquire(c) ==
    /\ call[c].at = "acquire"
    /\ \/ lock = 0 /\ lock' = LockTtl /\ Compute(c, TRUE)
       \/ lock # 0 /\ lock' = lock /\ Sleep(c)
    /\ UNCHANGED <<l1, l2, deleting, disturbed, unlocked>>

\* compute() returned: set() writes L1, then awaits L2.
ComputeDone(c) ==
    /\ call[c].at = "compute"
    /\ l1' = [l1 EXCEPT ![Home[c]] =
                 Entry(call[c].age, IF L2Ttl < L1Ttl THEN L2Ttl ELSE L1Ttl)]
    /\ Goto(c, "l2set")
    /\ UNCHANGED <<l2, lock, deleting, disturbed, unlocked>>

SetL2(c) ==
    /\ call[c].at = "l2set"
    /\ l2' = Entry(call[c].age, L2Ttl)
    /\ Leave(c)
    /\ UNCHANGED <<l1, lock, deleting, disturbed, unlocked>>

\* release_lock deletes the lock, whoever holds it by now.
Release(c) ==
    /\ call[c].at = "release"
    /\ lock' = 0
    /\ Return(c)
    /\ UNCHANGED <<l1, l2, deleting, disturbed, unlocked>>

-----------------------------------------------------------------------------
(* Failures, invalidation, eviction *)

\* The awaited operation raises or is cancelled: compute() failed, Redis did,
\* the client left.  Inside the try the finally clause releases the lock.
Abort(c) ==
    /\ call[c].at # "idle"
    /\ IF call[c].at \in {"compute", "l2set"} THEN Leave(c) ELSE Return(c)
    /\ disturbed' = TRUE
    /\ UNCHANGED <<l1, l2, lock, deleting, unlocked>>

\* acquire_lock took effect in L2 and the call ended before its answer came.
AbortAfterAcquire(c) ==
    /\ call[c].at = "acquire"
    /\ lock = 0
    /\ lock' = LockTtl
    /\ Return(c)
    /\ disturbed' = TRUE
    /\ UNCHANGED <<l1, l2, deleting, unlocked>>

\* A replica restarts: its L1 and its calls are gone, L2 and the lock are not.
Crash(r) ==
    /\ l1' = [l1 EXCEPT ![r] = Absent]
    /\ call' = [c \in Callers |-> IF Home[c] = r THEN Idle ELSE call[c]]
    /\ deleting' = deleting \ {r}
    /\ disturbed' = TRUE
    /\ UNCHANGED <<l2, lock, unlocked>>

\* delete(), and the prefix invalidations as far as this key goes: L1 of the
\* replica that runs it, then L2.
InvalidateL1(r) ==
    /\ r \notin deleting
    /\ l1' = [l1 EXCEPT ![r] = Absent]
    /\ deleting' = deleting \union {r}
    /\ disturbed' = TRUE
    /\ UNCHANGED <<l2, lock, call, unlocked>>

\* The lock's key is the entry's with a suffix: in Redis a prefix invalidation
\* matches it too.  delete() and InMemoryL2 leave it.
InvalidateL2(r) ==
    /\ r \in deleting
    /\ l2' = Absent
    /\ lock' \in {lock, 0}
    /\ unlocked' = (unlocked \/ lock' # lock)
    /\ deleting' = deleting \ {r}
    /\ UNCHANGED <<l1, call, disturbed>>

\* Another key pushed the entry out of the LRU.
Evict(r) ==
    /\ Hit(l1[r])
    /\ l1' = [l1 EXCEPT ![r] = Absent]
    /\ UNCHANGED <<l2, lock, call, deleting, disturbed, unlocked>>

-----------------------------------------------------------------------------

Aged(e) == IF e.left > 0 THEN Entry(e.age + 1, e.left - 1) ELSE Absent

\* An L2 operation takes less than a tick, a sleep ends on time, and no
\* computation outlives its ATBA timeout: these hold time back.
MayPass(k) ==
    \/ k.at = "idle"
    \/ k.at = "sleep" /\ k.timer > 0
    \/ k.at = "compute" /\ k.age < MaxCompute

Tick ==
    /\ \A c \in Callers : MayPass(call[c])
    /\ deleting = {}
    /\ l1' = [r \in Replicas |-> Aged(l1[r])]
    /\ l2' = Aged(l2)
    /\ lock' = IF lock > 0 THEN lock - 1 ELSE 0
    /\ call' = [c \in Callers |->
                  CASE call[c].at = "sleep" -> [call[c] EXCEPT !.timer = @ - 1]
                    [] call[c].at = "compute" -> [call[c] EXCEPT !.age = @ + 1]
                    [] OTHER -> call[c]]
    /\ UNCHANGED <<deleting, disturbed, unlocked>>

Proceed(c) ==
    \/ Wake(c) \/ L2Hit(c) \/ L2Miss(c) \/ Promote(c) \/ Acquire(c)
    \/ ComputeDone(c) \/ SetL2(c) \/ Release(c)

Next ==
    \/ \E c \in Callers : Start(c)
    \/ \E c \in Callers : Proceed(c)
    \/ \E c \in Callers : Abort(c) \/ AbortAfterAcquire(c)
    \/ \E r \in Replicas : Crash(r) \/ InvalidateL1(r) \/ InvalidateL2(r) \/ Evict(r)
    \/ Tick

\* L2 operations are answered, and time does not stand still: the callers hold
\* a tick back only for the length of their L2 operations.  Nobody has to call,
\* to fail or to invalidate.
AtRest == \A c \in Callers : call[c].at = "idle"
Fairness ==
    /\ \A c \in Callers : WF_vars(Proceed(c))
    /\ \A r \in Replicas : WF_vars(InvalidateL2(r))
    /\ []<>AtRest \/ []<><<Tick>>_vars

Spec == Init /\ [][Next]_vars /\ Fairness

-----------------------------------------------------------------------------
(* Properties *)

Computing(c) == call[c].at = "compute"
LockedComputing(c) == Computing(c) /\ call[c].holds

\* No tier serves a value older than the computation, the L2 TTL and (in L1) the
\* L1 TTL together, however promotions, late stores and evictions interleave.
BoundedStaleness ==
    /\ \A r \in Replicas : Hit(l1[r]) => l1[r].age <= MaxCompute + L2Ttl + L1Ttl
    /\ Hit(l2) => l2.age <= MaxCompute + L2Ttl

SingleLockedCompute ==
    \A c, d \in Callers : LockedComputing(c) /\ LockedComputing(d) => c = d

\* Computations under the lock exclude each other when none outlives the lock's
\* TTL and no invalidation deletes the lock: the unconditional release_lock
\* then only ever deletes the caller's own lock or none, aborted and crashed
\* holders included.
LockedComputesExclude == unlocked \/ SingleLockedCompute

\* An undisturbed stampede has one computation at a time: waiters are patient enough
\* for a computation shorter than MaxWaits sleeps.
StampedeCollapses ==
    ~disturbed => Cardinality({c \in Callers : Computing(c)}) <= 1

\* "compute ourselves rather than hang" (manager.py:183): every call ends,
\* whatever became of the lock's holder.
CallsEnd == \A c \in Callers : call[c].at # "idle" ~> call[c].at = "idle"

\* "every entry self-expires; correctness bounded by cache_l2_ttl_seconds"
\* (manager.py:192), here leaving the computation's own duration out.
StalenessWithinL2Ttl ==
    \A r \in Replicas : Hit(l1[r]) => l1[r].age <= MaxCompute + L2Ttl
=============================================================================
