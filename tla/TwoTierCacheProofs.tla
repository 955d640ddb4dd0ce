------------------------- MODULE TwoTierCacheProofs -------------------------
(***************************************************************************)
(* Proofs of TwoTierCache's safety properties, for any replicas, callers,  *)
(* TTLs and limits.                                                        *)
(***************************************************************************)
EXTENDS TwoTierCache, FiniteSetTheorems, TLAPS

\* The types of a call record and of the cache entries.
Record == [at : At, age : Nat, timer : 0..1, waits : 0..MaxWaits, holds : BOOLEAN]
L1Entry == [age : Nat, left : -1..L1Ttl]
L2Entry == [age : Nat, left : -1..L2Ttl]

\* The positions inside the try block of get_or_compute.
Inside == {"compute", "l2set", "release"}

\* What the position of a call says of its record: nobody slept before asking for
\* the lock, only the try block holds it, and the value at hand is as young as its
\* source, the computation or L2.
Sane(k) ==
    /\ k \in Record
    /\ k.at \in {"idle", "acquire"} => k.waits = 0
    /\ k.at = "sleep" => k.waits > 0
    /\ k.holds => k.at \in Inside
    /\ k.at \in Inside => k.age <= MaxCompute
    /\ k.at = "release" => k.holds
    /\ k.at = "promote" => k.age <= MaxCompute + L2Ttl

\* An entry that is still served is young enough to stay so until it expires.
Young(e, bound) == Hit(e) => e.age + e.left <= bound

CallsSane ==
    /\ call \in [Callers -> Record]
    /\ \A c \in Callers : Sane(call[c])

TiersYoung ==
    /\ l1 \in [Replicas -> L1Entry] /\ l2 \in L2Entry
    /\ \A r \in Replicas : Young(l1[r], MaxCompute + L2Ttl + L1Ttl)
    /\ Young(l2, MaxCompute + L2Ttl)

FlagsTyped ==
    /\ lock \in 0..LockTtl
    /\ deleting \subseteq Replicas
    /\ disturbed \in BOOLEAN /\ unlocked \in BOOLEAN

\* The inductive invariant of types and ages.
AgesInv == CallsSane /\ TiersYoung /\ FlagsTyped

\* The lock is its holder's: it was set when the computation began, expires
\* LockTtl later, and nobody else can hold it meanwhile.
LockInv ==
    ~unlocked =>
        \A c \in Callers : call[c].holds =>
            /\ lock = LockTtl - call[c].age
            /\ \A d \in Callers : call[d].holds => d = c

\* How long a waiter has waited since it found the lock taken.
Waited(k) == IF k.at = "sleep" THEN k.waits - k.timer ELSE k.waits

\* Waiters have a computation to wait for, that began before they did, or an L2
\* entry that lasts until they look.
Served(k) ==
    \/ \E h \in Callers : /\ call[h].at \in {"compute", "l2set"}
                          /\ call[h].age >= Waited(k)
    \/ l2.left >= (IF k.at = "sleep" THEN k.timer ELSE 0)

Waiting(k) == k.at \in {"sleep", "l2get"} /\ k.waits > 0

\* Undisturbed, everyone inside the try block holds the lock, a holder about to
\* release has stored its value, and waiters are served.
Calm(c) ==
    /\ call[c].at \in Inside => call[c].holds
    /\ call[c].at = "release" => l2.left = L2Ttl
    /\ Waiting(call[c]) => Served(call[c])

\* Nobody lost the lock either: while it is set, it has its holder.
CalmInv ==
    ~disturbed =>
        /\ ~unlocked /\ deleting = {}
        /\ lock # 0 => \E h \in Callers : call[h].holds
        /\ \A c \in Callers : Calm(c)

LEMMA Limits ==
    /\ L1Ttl \in Nat /\ L2Ttl \in Nat /\ LockTtl \in Nat /\ MaxWaits \in Nat /\ MaxCompute \in Nat
    /\ L1Ttl > 0 /\ L2Ttl > 0 /\ LockTtl > 0 /\ MaxWaits > 0 /\ MaxCompute > 0
BY ConstantsAssumption

-----------------------------------------------------------------------------
(* What the ways to go on do to a call's record *)

\* Only the record of c changes.
Alone(c) ==
    /\ call' \in [Callers -> Record]
    /\ \A d \in Callers : d # c => call'[d] = call[d]

LEMMA GotoEffect ==
    ASSUME call \in [Callers -> Record], NEW c \in Callers, NEW where \in At, Goto(c, where)
    PROVE  /\ Alone(c)
           /\ call'[c].at = where /\ call'[c].age = call[c].age
           /\ call'[c].timer = call[c].timer /\ call'[c].waits = call[c].waits
           /\ call'[c].holds = call[c].holds
BY DEF Goto, Alone, Record

LEMMA ReturnEffect ==
    ASSUME call \in [Callers -> Record], NEW c \in Callers, Return(c)
    PROVE  Alone(c) /\ call'[c] = Idle /\ Sane(Idle)
<1>1. Idle \in Record /\ Sane(Idle)
    BY ConstantsAssumption DEF Idle, Record, Sane, At, Inside
<1>2. QED
    BY <1>1 DEF Return, Alone

LEMMA SleepEffect ==
    ASSUME call \in [Callers -> Record], NEW c \in Callers, call[c].waits < MaxWaits, Sleep(c)
    PROVE  /\ Alone(c)
           /\ call'[c].at = "sleep" /\ call'[c].age = call[c].age
           /\ call'[c].timer = 1 /\ call'[c].waits = call[c].waits + 1
           /\ call'[c].holds = call[c].holds
<1>1. call[c] \in Record
    OBVIOUS
<1>2. call[c].waits + 1 \in 0..MaxWaits
    BY <1>1, ConstantsAssumption DEF Record
<1>3. QED
    BY <1>1, <1>2 DEF Sleep, Alone, Record, At

LEMMA ComputeEffect ==
    ASSUME call \in [Callers -> Record], NEW c \in Callers, NEW locked \in BOOLEAN,
           Compute(c, locked)
    PROVE  /\ Alone(c)
           /\ call'[c].at = "compute" /\ call'[c].age = 0
           /\ call'[c].timer = call[c].timer /\ call'[c].waits = call[c].waits
           /\ call'[c].holds = locked
BY DEF Compute, Alone, Record, At

\* Leaving the try block: with the lock to its release, else back to the caller.
LEMMA LeaveEffect ==
    ASSUME call \in [Callers -> Record], NEW c \in Callers, Leave(c)
    PROVE  /\ Alone(c)
           /\ \/ /\ call[c].holds
                 /\ call'[c].at = "release" /\ call'[c].age = call[c].age
                 /\ call'[c].timer = call[c].timer /\ call'[c].waits = call[c].waits
                 /\ call'[c].holds = call[c].holds
              \/ ~call[c].holds /\ call'[c] = Idle /\ Sane(Idle)
<1>1. CASE call[c].holds
    BY <1>1, GotoEffect DEF Leave, At
<1>2. CASE ~call[c].holds
    BY <1>2, ReturnEffect DEF Leave
<1>3. QED
    BY <1>1, <1>2

-----------------------------------------------------------------------------
(* Types and ages *)

LEMMA OneCallSane ==
    ASSUME CallsSane, NEW c \in Callers, Alone(c), Sane(call'[c])
    PROVE  CallsSane'
BY DEF CallsSane, Alone

\* The steps of get_or_compute.
LEMMA CallSaneStep ==
    ASSUME AgesInv, NEW c \in Callers,
           Start(c) \/ Proceed(c) \/ Abort(c) \/ AbortAfterAcquire(c)
    PROVE  CallsSane'
<1> USE ConstantsAssumption
<1>1. /\ call \in [Callers -> Record] /\ Sane(call[c]) /\ CallsSane
      /\ l2 \in L2Entry /\ Young(l2, MaxCompute + L2Ttl)
    BY DEF AgesInv, CallsSane, TiersYoung
<1>2. ASSUME Return(c) PROVE CallsSane'
    BY <1>1, <1>2, ReturnEffect, OneCallSane
<1>3. ASSUME NEW where \in {"l2get", "acquire", "l2set", "release"}, Goto(c, where),
             where \in {"l2get", "acquire"} => call[c].at \notin Inside,
             where = "acquire" => call[c].waits = 0,
             where = "l2set" => call[c].at = "compute",
             where = "release" => call[c].at \in Inside /\ call[c].holds
      PROVE  CallsSane'
    <2>1. /\ Alone(c) /\ call'[c].at = where /\ call'[c].age = call[c].age
          /\ call'[c].waits = call[c].waits /\ call'[c].holds = call[c].holds
        BY <1>1, <1>3, GotoEffect DEF At
    <2>2. call'[c] \in Record
        BY <2>1 DEF Alone
    <2>3. Sane(call'[c])
        BY <1>1, <1>3, <2>1, <2>2 DEF Sane, Inside
    <2>4. QED
        BY <1>1, <2>1, <2>3, OneCallSane
<1>4. ASSUME Sleep(c), call[c].waits < MaxWaits, call[c].at \notin Inside PROVE CallsSane'
    <2>1. /\ Alone(c) /\ call'[c].at = "sleep"
          /\ call'[c].waits = call[c].waits + 1 /\ call'[c].holds = call[c].holds
        BY <1>1, <1>4, SleepEffect
    <2>2. call'[c] \in Record /\ call[c].waits \in Nat
        BY <1>1, <2>1 DEF Alone, Sane, Record
    <2>3. Sane(call'[c])
        BY <1>1, <1>4, <2>1, <2>2 DEF Sane, Inside
    <2>4. QED
        BY <1>1, <2>1, <2>3, OneCallSane
<1>5. ASSUME NEW locked \in BOOLEAN, Compute(c, locked) PROVE CallsSane'
    <2>1. Alone(c) /\ call'[c].at = "compute" /\ call'[c].age = 0
        BY <1>1, <1>5, ComputeEffect
    <2>2. call'[c] \in Record
        BY <2>1 DEF Alone
    <2>3. Sane(call'[c])
        BY <2>1, <2>2 DEF Sane, Inside
    <2>4. QED
        BY <1>1, <2>1, <2>3, OneCallSane
<1>6. ASSUME Leave(c), call[c].at \in {"compute", "l2set"} PROVE CallsSane'
    BY <1>2, <1>3, <1>6 DEF Leave, Inside
<1>7. ASSUME Start(c) PROVE CallsSane'
    BY <1>3, <1>7 DEF Start, Inside
<1>8. ASSUME Wake(c) PROVE CallsSane'
    BY <1>2, <1>3, <1>8 DEF Wake, Inside
<1>9. ASSUME L2Hit(c) PROVE CallsSane'
    <2>1. /\ call[c].at = "l2get" /\ Hit(l2)
          /\ call' = [call EXCEPT ![c].at = "promote", ![c].age = l2.age]
        BY <1>9 DEF L2Hit
    <2>2. l2.age \in Nat /\ l2.left \in Int /\ l2.age <= MaxCompute + L2Ttl
        BY <1>1, <2>1 DEF L2Entry, Young, Hit
    <2>3. /\ Alone(c) /\ call'[c].at = "promote" /\ call'[c].age = l2.age
          /\ call'[c].holds = call[c].holds
        BY <1>1, <2>1, <2>2 DEF Alone, Record, At
    <2>4. call'[c] \in Record
        BY <2>3 DEF Alone
    <2>5. Sane(call'[c])
        BY <1>1, <2>1, <2>2, <2>3, <2>4 DEF Sane, Inside
    <2>6. QED
        BY <1>1, <2>3, <2>5, OneCallSane
<1>10. ASSUME L2Miss(c) PROVE CallsSane'
    <2>1. /\ call[c].at = "l2get"
          /\ \/ call[c].waits = 0 /\ Goto(c, "acquire")
             \/ call[c].waits \in 1..(MaxWaits - 1) /\ Sleep(c)
             \/ Compute(c, FALSE)
        BY <1>10 DEF L2Miss
    <2>2. CASE call[c].waits = 0 /\ Goto(c, "acquire")
        BY <1>3, <2>1, <2>2 DEF Inside
    <2>3. CASE call[c].waits \in 1..(MaxWaits - 1) /\ Sleep(c)
        BY <1>4, <2>1, <2>3 DEF Inside
    <2>4. CASE Compute(c, FALSE)
        BY <1>5, <2>4
    <2>5. QED
        BY <2>1, <2>2, <2>3, <2>4
<1>11. ASSUME Promote(c) PROVE CallsSane'
    BY <1>2, <1>11 DEF Promote
<1>12. ASSUME Acquire(c) PROVE CallsSane'
    <2>1. call[c].at = "acquire" /\ call[c].waits = 0 /\ (Compute(c, TRUE) \/ Sleep(c))
        BY <1>1, <1>12 DEF Acquire, Sane
    <2>2. CASE Compute(c, TRUE)
        BY <1>5, <2>2
    <2>3. CASE Sleep(c)
        <3>1. call[c].waits < MaxWaits
            BY <2>1, Limits
        <3>2. QED
            BY <1>4, <2>1, <2>3, <3>1 DEF Inside
    <2>4. QED
        BY <2>1, <2>2, <2>3
<1>13. ASSUME ComputeDone(c) PROVE CallsSane'
    BY <1>3, <1>13 DEF ComputeDone
<1>14. ASSUME SetL2(c) PROVE CallsSane'
    BY <1>6, <1>14 DEF SetL2
<1>15. ASSUME Release(c) \/ AbortAfterAcquire(c) PROVE CallsSane'
    BY <1>2, <1>15 DEF Release, AbortAfterAcquire
<1>16. ASSUME Abort(c) PROVE CallsSane'
    BY <1>2, <1>6, <1>16 DEF Abort
<1>17. QED
    BY <1>7, <1>8, <1>9, <1>10, <1>11, <1>12, <1>13, <1>14, <1>15, <1>16 DEF Proceed

\* A tick ends the sleeps and ages the computations; it waits for everyone else.
LEMMA TickEffect ==
    ASSUME CallsSane, Tick, NEW c \in Callers
    PROVE  /\ call'[c] \in Record
           /\ call'[c].at = call[c].at /\ call'[c].at \in {"idle", "sleep", "compute"}
           /\ call'[c].waits = call[c].waits /\ call'[c].holds = call[c].holds
           /\ call[c].at = "sleep" => /\ call[c].timer = 1 /\ call'[c].timer = 0
           /\ call[c].at = "compute" => /\ call[c].age < MaxCompute
                                        /\ call'[c].age = call[c].age + 1
           /\ call[c].at # "compute" => call'[c].age = call[c].age
<1> USE Limits
<1>1. call[c] \in Record /\ MayPass(call[c])
    BY DEF CallsSane, Tick
<1>2. CASE call[c].at = "sleep"
    <2>1. call'[c] = [call[c] EXCEPT !.timer = @ - 1]
        BY <1>2 DEF Tick
    <2>2. call[c].timer = 1
        BY <1>1, <1>2 DEF MayPass, Record
    <2>3. QED
        BY <1>1, <1>2, <2>1, <2>2 DEF Record
<1>3. CASE call[c].at = "compute"
    <2>1. call'[c] = [call[c] EXCEPT !.age = @ + 1]
        BY <1>3 DEF Tick
    <2>2. call[c].age < MaxCompute
        BY <1>1, <1>3 DEF MayPass, Record
    <2>3. QED
        BY <1>1, <1>3, <2>1, <2>2 DEF Record
<1>4. CASE call[c].at \notin {"sleep", "compute"}
    BY <1>1, <1>4 DEF Tick, MayPass
<1>5. QED
    BY <1>2, <1>3, <1>4

LEMMA TickCallsSane ==
    ASSUME CallsSane, Tick
    PROVE  CallsSane'
<1>1. SUFFICES ASSUME NEW c \in Callers PROVE call'[c] \in Record /\ Sane(call'[c])
    BY DEF Tick, CallsSane
<1>2. Sane(call[c]) /\ call[c].age \in Nat
    BY DEF CallsSane, Sane, Record
<1>3. QED
    BY <1>2, TickEffect, Limits DEF Sane, Inside

\* What a caller may do to the tiers.
LEMMA CallTiersStep ==
    ASSUME AgesInv, NEW c \in Callers,
           Start(c) \/ Proceed(c) \/ Abort(c) \/ AbortAfterAcquire(c)
    PROVE  TiersYoung' /\ FlagsTyped'
<1> USE Limits
<1>1. /\ call[c] \in Record /\ Sane(call[c]) /\ Home[c] \in Replicas
      /\ TiersYoung /\ FlagsTyped
    BY ConstantsAssumption DEF AgesInv, CallsSane
<1>2. FlagsTyped'
    <2>1. lock' \in {lock, 0, LockTtl} /\ deleting' = deleting /\ unlocked' = unlocked
        BY DEF Start, Proceed, Wake, L2Hit, L2Miss, Promote, Acquire, ComputeDone, SetL2,
               Release, Abort, AbortAfterAcquire
    <2>2. disturbed' = disturbed \/ disturbed' = TRUE
        BY DEF Start, Proceed, Wake, L2Hit, L2Miss, Promote, Acquire, ComputeDone, SetL2,
               Release, Abort, AbortAfterAcquire
    <2>3. disturbed' \in BOOLEAN
        BY <1>1, <2>2 DEF FlagsTyped
    <2>4. QED
        BY <1>1, <2>1, <2>3 DEF FlagsTyped
<1>3. ASSUME UNCHANGED <<l1, l2>> PROVE TiersYoung'
    BY <1>1, <1>3 DEF TiersYoung, Young, Hit
<1>4. ASSUME NEW ttl \in 0..L1Ttl, UNCHANGED l2, call[c].age <= MaxCompute + L2Ttl,
             l1' = [l1 EXCEPT ![Home[c]] = Entry(call[c].age, ttl)]
      PROVE  TiersYoung'
    <2>1. call[c].age \in Nat
        BY <1>1 DEF Record
    <2>2. l1' \in [Replicas -> L1Entry]
        BY <1>1, <1>4, <2>1 DEF TiersYoung, L1Entry, Entry
    <2>3. \A r \in Replicas : Young(l1'[r], MaxCompute + L2Ttl + L1Ttl)
        <3>1. SUFFICES ASSUME NEW r \in Replicas
                       PROVE  Young(l1'[r], MaxCompute + L2Ttl + L1Ttl)
            OBVIOUS
        <3>2. CASE r = Home[c]
            BY <1>1, <1>4, <2>1, <3>2 DEF TiersYoung, Entry, Young
        <3>3. CASE r # Home[c]
            BY <1>1, <1>4, <3>3 DEF TiersYoung
        <3>4. QED
            BY <3>2, <3>3
    <2>4. QED
        BY <1>1, <1>4, <2>2, <2>3 DEF TiersYoung, Young, Hit
<1>5. ASSUME Promote(c) PROVE TiersYoung'
    <2>1. /\ call[c].age <= MaxCompute + L2Ttl /\ L1Ttl \in 0..L1Ttl /\ l2' = l2
          /\ l1' = [l1 EXCEPT ![Home[c]] = Entry(call[c].age, L1Ttl)]
        BY <1>1, <1>5 DEF Promote, Sane
    <2>2. QED
        BY <1>4, <2>1
<1>6. ASSUME ComputeDone(c) PROVE TiersYoung'
    <2>1. call[c].age <= MaxCompute /\ call[c].age \in Nat
        BY <1>1, <1>6 DEF ComputeDone, Sane, Inside, Record
    <2>2. call[c].age <= MaxCompute + L2Ttl
        BY <2>1
    <2>3. (IF L2Ttl < L1Ttl THEN L2Ttl ELSE L1Ttl) \in 0..L1Ttl
        OBVIOUS
    <2>4. QED
        BY <1>4, <1>6, <2>2, <2>3 DEF ComputeDone
<1>7. ASSUME SetL2(c) PROVE TiersYoung'
    <2>1. call[c].age <= MaxCompute /\ call[c].age \in Nat
        BY <1>1, <1>7 DEF SetL2, Sane, Inside, Record
    <2>2. l2' = Entry(call[c].age, L2Ttl) /\ l1' = l1
        BY <1>7 DEF SetL2
    <2>3. l2' \in L2Entry /\ Young(l2', MaxCompute + L2Ttl)
        BY <2>1, <2>2 DEF L2Entry, Entry, Young
    <2>4. QED
        BY <1>1, <2>2, <2>3 DEF TiersYoung, Young, Hit
<1>8. QED
    BY <1>2, <1>3, <1>5, <1>6, <1>7
       DEF Start, Proceed, Wake, L2Hit, L2Miss, Acquire, Release, Abort, AbortAfterAcquire

LEMMA AgedYoung ==
    ASSUME NEW e, NEW ttl \in Nat, e \in [age : Nat, left : -1..ttl],
           NEW bound \in Nat, Young(e, bound)
    PROVE  Aged(e) \in [age : Nat, left : -1..ttl] /\ Young(Aged(e), bound)
BY DEF Aged, Young, Hit, Entry, Absent

\* Crashes, invalidations and evictions only remove entries.
LEMMA AgesStep ==
    ASSUME AgesInv, [Next]_vars
    PROVE  AgesInv'
<1> USE Limits
<1>1. ASSUME NEW c \in Callers, Start(c) \/ Proceed(c) \/ Abort(c) \/ AbortAfterAcquire(c)
      PROVE  AgesInv'
    BY <1>1, CallSaneStep, CallTiersStep DEF AgesInv
<1>2. Absent \in L1Entry /\ Absent \in L2Entry /\ ~Hit(Absent)
    BY DEF Absent, L1Entry, L2Entry, Hit
<1>3. ASSUME NEW r \in Replicas, l1' = [l1 EXCEPT ![r] = Absent] \/ l1' = l1,
             l2' = Absent \/ l2' = l2
      PROVE  TiersYoung'
    BY <1>2, <1>3 DEF AgesInv, TiersYoung, Young, Hit
<1>4. ASSUME NEW r \in Replicas, Crash(r) PROVE AgesInv'
    <2>1. CallsSane'
        <3>1. Idle \in Record /\ Sane(Idle)
            BY DEF Idle, Record, Sane, At, Inside
        <3>2. QED
            BY <1>4, <3>1 DEF Crash, AgesInv, CallsSane
    <2>2. FlagsTyped'
        BY <1>4 DEF Crash, AgesInv, FlagsTyped
    <2>3. QED
        BY <1>3, <1>4, <2>1, <2>2 DEF AgesInv, Crash
<1>5. ASSUME NEW r \in Replicas, InvalidateL1(r) \/ InvalidateL2(r) \/ Evict(r) PROVE AgesInv'
    <2>1. FlagsTyped'
        <3>1. lock' \in {lock, 0} /\ deleting' \subseteq Replicas
            BY <1>5 DEF InvalidateL1, InvalidateL2, Evict, AgesInv, FlagsTyped
        <3>2. disturbed' \in BOOLEAN
            BY <1>5 DEF InvalidateL1, InvalidateL2, Evict, AgesInv, FlagsTyped
        <3>3. unlocked' \in BOOLEAN
            BY <1>5, Zenon DEF InvalidateL1, InvalidateL2, Evict, AgesInv, FlagsTyped
        <3>4. QED
            BY <3>1, <3>2, <3>3 DEF AgesInv, FlagsTyped
    <2>2. CallsSane'
        BY <1>5 DEF InvalidateL1, InvalidateL2, Evict, AgesInv, CallsSane
    <2>3. TiersYoung'
        BY <1>3, <1>5 DEF InvalidateL1, InvalidateL2, Evict
    <2>4. QED
        BY <2>1, <2>2, <2>3 DEF AgesInv
<1>6. ASSUME Tick PROVE AgesInv'
    <2>1. CallsSane'
        BY <1>6, TickCallsSane DEF AgesInv
    <2>2. TiersYoung'
        <3>1. l2' \in L2Entry /\ Young(l2', MaxCompute + L2Ttl)
            <4>1. Aged(l2) \in L2Entry /\ Young(Aged(l2), MaxCompute + L2Ttl)
                BY AgedYoung DEF AgesInv, TiersYoung, L2Entry
            <4>2. l2' = Aged(l2)
                BY <1>6 DEF Tick
            <4>3. QED
                BY <4>1, <4>2
        <3>2. ASSUME NEW r \in Replicas
              PROVE  /\ Aged(l1[r]) \in L1Entry
                     /\ Young(Aged(l1[r]), MaxCompute + L2Ttl + L1Ttl)
            BY AgedYoung DEF AgesInv, TiersYoung, L1Entry
        <3>3. l1' = [r \in Replicas |-> Aged(l1[r])]
            BY <1>6 DEF Tick
        <3>4. QED
            BY <3>1, <3>2, <3>3 DEF TiersYoung, Young, Hit
    <2>3. FlagsTyped'
        BY <1>6 DEF Tick, AgesInv, FlagsTyped
    <2>4. QED
        BY <2>1, <2>2, <2>3 DEF AgesInv
<1>7. CASE UNCHANGED vars
    BY <1>7 DEF vars, AgesInv, CallsSane, TiersYoung, FlagsTyped, Sane, Young, Hit
<1>8. QED
    BY <1>1, <1>4, <1>5, <1>6, <1>7 DEF Next

-----------------------------------------------------------------------------
(* The lock, when no computation outlives it *)

\* Whoever holds the lock set it less than LockTtl ago.
LEMMA HeldIsSet ==
    ASSUME MaxCompute < LockTtl, AgesInv, LockInv, ~unlocked, NEW c \in Callers, call[c].holds
    PROVE  lock # 0 /\ lock = LockTtl - call[c].age /\ \A d \in Callers : call[d].holds => d = c
<1>1. call[c] \in Record /\ call[c].age <= MaxCompute
    BY DEF AgesInv, CallsSane, Sane
<1>2. QED
    BY <1>1, Limits DEF LockInv, Record

\* A step that changes neither the lock nor the holders' ages, and adds no holder.
LEMMA LockKept ==
    ASSUME LockInv, lock' = lock, unlocked' = unlocked,
           \A d \in Callers : call'[d].holds => call[d].holds /\ call'[d].age = call[d].age
    PROVE  LockInv'
BY DEF LockInv

\* A step of a caller that leaves the lock alone.
LEMMA LockAlone ==
    ASSUME LockInv, NEW c \in Callers, Alone(c), lock' = lock, unlocked' = unlocked,
           call'[c].holds => call[c].holds /\ call'[c].age = call[c].age
    PROVE  LockInv'
BY LockKept DEF Alone

LEMMA LockCallStep ==
    ASSUME MaxCompute < LockTtl, AgesInv, LockInv, NEW c \in Callers,
           Start(c) \/ Proceed(c) \/ Abort(c) \/ AbortAfterAcquire(c)
    PROVE  LockInv'
<1> USE Limits
<1>1. call \in [Callers -> Record] /\ call[c] \in Record /\ Sane(call[c])
    BY DEF AgesInv, CallsSane
<1>2. ~Idle.holds
    BY DEF Idle
<1>3. unlocked' = unlocked
    BY DEF Start, Proceed, Wake, L2Hit, L2Miss, Promote, Acquire, ComputeDone, SetL2,
           Release, Abort, AbortAfterAcquire
<1>4. ASSUME Return(c), lock' = lock PROVE LockInv'
    BY <1>1, <1>2, <1>3, <1>4, ReturnEffect, LockAlone
<1>5. ASSUME NEW where \in At, Goto(c, where), lock' = lock PROVE LockInv'
    BY <1>1, <1>3, <1>5, GotoEffect, LockAlone
<1>6. ASSUME Sleep(c), call[c].waits < MaxWaits, lock' = lock PROVE LockInv'
    BY <1>1, <1>3, <1>6, SleepEffect, LockAlone
<1>7. ASSUME Compute(c, FALSE), lock' = lock PROVE LockInv'
    BY <1>1, <1>3, <1>7, ComputeEffect, LockAlone
<1>8. ASSUME Leave(c), lock' = lock PROVE LockInv'
    BY <1>4, <1>5, <1>8 DEF Leave, At
<1>9. ASSUME Start(c) \/ Wake(c) PROVE LockInv'
    BY <1>4, <1>5, <1>9 DEF Start, Wake, At
<1>10. ASSUME L2Hit(c) PROVE LockInv'
    <2>1. ~call[c].holds
        BY <1>1, <1>10 DEF L2Hit, Sane, Inside
    <2>2. l2.age \in Nat /\ call' = [call EXCEPT ![c].at = "promote", ![c].age = l2.age]
        BY <1>10 DEF L2Hit, AgesInv, TiersYoung, L2Entry
    <2>3. Alone(c) /\ call'[c].holds = call[c].holds
        BY <1>1, <2>2 DEF Alone, Record, At
    <2>4. QED
        BY <1>3, <1>10, <2>1, <2>3, LockAlone DEF L2Hit
<1>11. ASSUME L2Miss(c) PROVE LockInv'
    <2>1. /\ lock' = lock
          /\ \/ Goto(c, "acquire")
             \/ call[c].waits \in 1..(MaxWaits - 1) /\ Sleep(c)
             \/ Compute(c, FALSE)
        BY <1>11 DEF L2Miss
    <2>2. CASE Goto(c, "acquire")
        BY <1>5, <2>1, <2>2 DEF At
    <2>3. CASE call[c].waits \in 1..(MaxWaits - 1) /\ Sleep(c)
        BY <1>6, <2>1, <2>3
    <2>4. CASE Compute(c, FALSE)
        BY <1>7, <2>1, <2>4
    <2>5. QED
        BY <2>1, <2>2, <2>3, <2>4
<1>12. ASSUME Promote(c) PROVE LockInv'
    BY <1>4, <1>12 DEF Promote
<1>13. ASSUME lock = 0, lock' = LockTtl, Compute(c, TRUE) PROVE LockInv'
    <2>1. Alone(c) /\ call'[c].age = 0
        BY <1>1, <1>13, ComputeEffect
    <2>2. ~unlocked => \A d \in Callers : ~call[d].holds
        BY <1>13, HeldIsSet
    <2>3. QED
        BY <1>3, <1>13, <2>1, <2>2 DEF LockInv, Alone
<1>14. ASSUME Acquire(c) PROVE LockInv'
    <2>1. CASE lock = 0 /\ lock' = LockTtl /\ Compute(c, TRUE)
        BY <1>13, <2>1
    <2>2. CASE lock' = lock /\ Sleep(c)
        <3>1. call[c].waits = 0
            BY <1>1, <1>14 DEF Acquire, Sane
        <3>2. QED
            BY <1>6, <2>2, <3>1
    <2>3. QED
        BY <1>14, <2>1, <2>2 DEF Acquire
<1>15. ASSUME ComputeDone(c) PROVE LockInv'
    BY <1>5, <1>15 DEF ComputeDone, At
<1>16. ASSUME SetL2(c) PROVE LockInv'
    BY <1>8, <1>16 DEF SetL2
<1>17. ASSUME Release(c) PROVE LockInv'
    <2>1. call[c].holds
        BY <1>1, <1>17 DEF Release, Sane
    <2>2. Alone(c) /\ ~call'[c].holds
        BY <1>1, <1>2, <1>17, ReturnEffect DEF Release
    <2>3. QED
        BY <1>3, <2>1, <2>2 DEF LockInv, Alone
<1>18. ASSUME Abort(c) PROVE LockInv'
    BY <1>4, <1>8, <1>18 DEF Abort
<1>19. ASSUME AbortAfterAcquire(c) PROVE LockInv'
    <2>1. Alone(c) /\ ~call'[c].holds
        BY <1>1, <1>2, <1>19, ReturnEffect DEF AbortAfterAcquire
    <2>2. ~unlocked => \A d \in Callers : ~call[d].holds
        BY <1>19, HeldIsSet DEF AbortAfterAcquire
    <2>3. QED
        BY <1>3, <2>1, <2>2 DEF LockInv, Alone
<1>20. QED
    BY <1>9, <1>10, <1>11, <1>12, <1>14, <1>15, <1>16, <1>17, <1>18, <1>19 DEF Proceed

LEMMA LockStep ==
    ASSUME MaxCompute < LockTtl, AgesInv, LockInv, [Next]_vars
    PROVE  LockInv'
<1>1. ASSUME NEW c \in Callers, Start(c) \/ Proceed(c) \/ Abort(c) \/ AbortAfterAcquire(c)
      PROVE  LockInv'
    BY <1>1, LockCallStep
<1>2. ASSUME NEW r \in Replicas, Crash(r) PROVE LockInv'
    <2>1. \A d \in Callers : call'[d] = Idle \/ call'[d] = call[d]
        BY <1>2 DEF Crash
    <2>2. QED
        BY <1>2, <2>1, LockKept DEF Crash, Idle
<1>3. ASSUME NEW r \in Replicas, InvalidateL1(r) \/ Evict(r) PROVE LockInv'
    BY <1>3, LockKept DEF InvalidateL1, Evict
<1>4. ASSUME NEW r \in Replicas, InvalidateL2(r) PROVE LockInv'
    BY <1>4 DEF InvalidateL2, LockInv
<1>5. ASSUME Tick PROVE LockInv'
    <2>1. SUFFICES ASSUME ~unlocked', NEW c \in Callers, call'[c].holds
                   PROVE  /\ lock' = LockTtl - call'[c].age
                          /\ \A d \in Callers : call'[d].holds => d = c
        BY DEF LockInv
    <2>2. ~unlocked /\ CallsSane /\ lock \in 0..LockTtl
        BY <1>5, <2>1 DEF Tick, AgesInv, FlagsTyped
    <2>3. \A d \in Callers : call'[d].holds = call[d].holds
        BY <1>5, <2>2, TickEffect
    <2>4. /\ lock # 0 /\ lock = LockTtl - call[c].age
          /\ \A d \in Callers : call[d].holds => d = c
        BY <2>1, <2>2, <2>3, HeldIsSet
    <2>5. call[c].at = "compute"
        BY <1>5, <2>1, <2>2, <2>3, TickEffect DEF CallsSane, Sane, Inside
    <2>6. call'[c].age = call[c].age + 1 /\ call[c].age \in Nat
        BY <1>5, <2>2, <2>5, TickEffect DEF CallsSane, Record
    <2>7. lock' = lock - 1
        BY <1>5, <2>2, <2>4 DEF Tick
    <2>8. QED
        BY <2>2, <2>3, <2>4, <2>6, <2>7, Limits
<1>6. CASE UNCHANGED vars
    BY <1>6 DEF vars, LockInv
<1>7. QED
    BY <1>1, <1>2, <1>3, <1>4, <1>5, <1>6 DEF Next

-----------------------------------------------------------------------------
(* An undisturbed stampede, when waiters are patient enough *)

\* Served, when `h` is a computation to wait for.
Serves(h, k) == call[h].at \in {"compute", "l2set"} /\ call[h].age >= Waited(k)

\* A step of c that keeps L2 and c's computation serves the others on.
LEMMA OthersCalm ==
    ASSUME NEW c \in Callers, Alone(c), l2' = l2,
           call[c].at \in {"compute", "l2set"} =>
               call'[c].at \in {"compute", "l2set"} /\ call'[c].age = call[c].age,
           NEW d \in Callers, d # c, Calm(d)
    PROVE  Calm(d)'
<1>1. call'[d] = call[d]
    BY DEF Alone
<1>2. ASSUME Served(call[d]) PROVE Served(call[d])'
    <2>1. CASE l2.left >= (IF call[d].at = "sleep" THEN call[d].timer ELSE 0)
        BY <1>1, <2>1 DEF Served
    <2>2. CASE \E h \in Callers : Serves(h, call[d])
        <3>1. PICK h \in Callers : Serves(h, call[d])
            BY <2>2
        <3>2. Serves(h, call[d])'
            BY <1>1, <3>1 DEF Serves, Waited, Alone
        <3>3. QED
            BY <3>2 DEF Served, Serves
    <2>3. QED
        BY <1>2, <2>1, <2>2 DEF Served, Serves
<1>3. QED
    BY <1>1, <1>2 DEF Calm, Waiting

LEMMA CalmCallStep ==
    ASSUME MaxCompute < MaxWaits, AgesInv, CalmInv, ~disturbed,
           NEW c \in Callers, Start(c) \/ Proceed(c)
    PROVE  CalmInv'
<1> USE Limits
<1>1. /\ call \in [Callers -> Record] /\ call[c] \in Record /\ Sane(call[c])
      /\ call[c].age \in Nat /\ call[c].waits \in 0..MaxWaits /\ call[c].timer \in 0..1
      /\ l2 \in L2Entry /\ l2.left \in -1..L2Ttl
    BY DEF AgesInv, CallsSane, TiersYoung, Record, L2Entry
<1>2. /\ ~unlocked /\ deleting = {} /\ Calm(c)
      /\ lock # 0 => \E h \in Callers : call[h].holds
      /\ \A d \in Callers : Calm(d)
    BY DEF CalmInv
<1>3. unlocked' = unlocked /\ deleting' = deleting
    BY DEF Start, Proceed, Wake, L2Hit, L2Miss, Promote, Acquire, ComputeDone, SetL2, Release
\* Outside the try block a step adds no holder and takes none away.
<1>4. ASSUME Alone(c), l2' = l2, lock' = lock, call[c].at \notin Inside,
             Calm(c)'
      PROVE  CalmInv'
    <2>1. \A d \in Callers : Calm(d)'
        BY <1>2, <1>4, OthersCalm DEF Inside
    <2>2. ~call[c].holds
        BY <1>1, <1>4 DEF Sane
    <2>3. lock' # 0 => \E h \in Callers : call'[h].holds
        BY <1>2, <1>4, <2>2 DEF Alone
    <2>4. QED
        BY <1>2, <1>3, <2>1, <2>3 DEF CalmInv
<1>5. ASSUME Return(c), l2' = l2, lock' = lock, call[c].at \notin Inside PROVE CalmInv'
    <2>1. Alone(c) /\ call'[c] = Idle
        BY <1>1, <1>5, ReturnEffect
    <2>2. Calm(c)'
        BY <2>1 DEF Calm, Idle, Inside, Waiting
    <2>3. QED
        BY <1>4, <1>5, <2>1, <2>2
<1>6. ASSUME Start(c) PROVE CalmInv'
    <2>1. Alone(c) /\ call'[c].at = "l2get" /\ call'[c].waits = 0
        BY <1>1, <1>6, GotoEffect DEF Start, Sane, At
    <2>2. Calm(c)'
        BY <2>1 DEF Calm, Inside, Waiting
    <2>3. QED
        BY <1>4, <1>6, <2>1, <2>2 DEF Start, Inside
<1>7. ASSUME Wake(c) PROVE CalmInv'
    <2>1. call[c].at = "sleep" /\ call[c].timer = 0 /\ l2' = l2 /\ lock' = lock
        BY <1>7 DEF Wake
    <2>2. CASE Return(c)
        BY <1>5, <2>1, <2>2 DEF Inside
    <2>3. CASE Goto(c, "l2get")
        <3>1. Alone(c) /\ call'[c].at = "l2get" /\ call'[c].waits = call[c].waits
            BY <1>1, <2>3, GotoEffect DEF At
        <3>2. Served(call[c])
            BY <1>1, <1>2, <2>1 DEF Calm, Waiting, Sane
        <3>3. Served(call[c])'
            <4>1. Waited(call[c])' = Waited(call[c])
                BY <1>1, <2>1, <3>1 DEF Waited
            <4>2. CASE l2.left >= 0
                BY <2>1, <3>1, <4>2 DEF Served
            <4>3. CASE \E h \in Callers : Serves(h, call[c])
                <5>1. PICK h \in Callers : Serves(h, call[c])
                    BY <4>3
                <5>2. h # c
                    BY <2>1, <5>1 DEF Serves
                <5>3. Serves(h, call[c])'
                    BY <3>1, <4>1, <5>1, <5>2 DEF Serves, Alone
                <5>4. QED
                    BY <5>3 DEF Served, Serves
            <4>4. QED
                BY <2>1, <3>2, <4>2, <4>3 DEF Served, Serves
        <3>4. Calm(c)'
            BY <3>1, <3>3 DEF Calm, Inside
        <3>5. QED
            BY <1>4, <2>1, <3>1, <3>4 DEF Inside
    <2>4. QED
        BY <1>7, <2>2, <2>3 DEF Wake
<1>8. ASSUME L2Hit(c) PROVE CalmInv'
    <2>1. call' = [call EXCEPT ![c].at = "promote", ![c].age = l2.age] /\ l2.age \in Nat
        BY <1>1, <1>8 DEF L2Hit, L2Entry
    <2>2. Alone(c) /\ call'[c].at = "promote"
        BY <1>1, <2>1 DEF Alone, Record, At
    <2>3. Calm(c)'
        BY <2>2 DEF Calm, Inside, Waiting
    <2>4. QED
        BY <1>4, <1>8, <2>2, <2>3 DEF L2Hit, Inside
<1>9. ASSUME L2Miss(c) PROVE CalmInv'
    <2>1. /\ call[c].at = "l2get" /\ l2' = l2 /\ lock' = lock /\ ~Hit(l2)
          /\ \/ call[c].waits = 0 /\ Goto(c, "acquire")
             \/ call[c].waits \in 1..(MaxWaits - 1) /\ Sleep(c)
             \/ call[c].waits = MaxWaits
        BY <1>9 DEF L2Miss
    <2>2. CASE Goto(c, "acquire")
        <3>1. Alone(c) /\ call'[c].at = "acquire"
            BY <1>1, <2>2, GotoEffect DEF At
        <3>2. Calm(c)'
            BY <3>1 DEF Calm, Inside, Waiting
        <3>3. QED
            BY <1>4, <2>1, <3>1, <3>2 DEF Inside
    \* A waiter that misses L2 still has a computation to wait for.
    <2>3. ASSUME call[c].waits > 0
          PROVE  \E h \in Callers : Serves(h, call[c]) /\ h # c
        <3>1. Served(call[c])
            BY <1>2, <2>1, <2>3 DEF Calm, Waiting
        <3>2. ~(l2.left >= 0)
            BY <2>1 DEF Hit
        <3>3. PICK h \in Callers : Serves(h, call[c])
            BY <2>1, <3>1, <3>2 DEF Served, Serves
        <3>4. QED
            BY <2>1, <3>3 DEF Serves
    <2>4. CASE call[c].waits \in 1..(MaxWaits - 1) /\ Sleep(c)
        <3>1. /\ Alone(c) /\ call'[c].at = "sleep" /\ call'[c].timer = 1
              /\ call'[c].waits = call[c].waits + 1
            BY <1>1, <2>4, SleepEffect
        <3>2. Waited(call[c])' = Waited(call[c])
            BY <1>1, <2>1, <3>1 DEF Waited
        <3>3. PICK h \in Callers : Serves(h, call[c]) /\ h # c
            BY <2>3, <2>4
        <3>4. Serves(h, call[c])'
            BY <3>1, <3>2, <3>3 DEF Serves, Alone
        <3>5. Calm(c)'
            BY <3>1, <3>4 DEF Calm, Inside, Served, Serves
        <3>6. QED
            BY <1>4, <2>1, <3>1, <3>5 DEF Inside
    <2>5. CASE call[c].waits = MaxWaits
        <3>1. PICK h \in Callers : Serves(h, call[c])
            BY <2>3, <2>5
        <3>2. call[h].age \in Nat /\ call[h].age <= MaxCompute
            BY <3>1 DEF Serves, AgesInv, CallsSane, Sane, Record, Inside
        <3>3. call[h].age >= MaxWaits
            BY <2>1, <2>5, <3>1 DEF Serves, Waited
        <3>4. QED
            BY <3>2, <3>3
    <2>6. QED
        BY <2>1, <2>2, <2>4, <2>5
<1>10. ASSUME Promote(c) PROVE CalmInv'
    BY <1>5, <1>10 DEF Promote, Inside
<1>11. ASSUME Acquire(c) PROVE CalmInv'
    <2>1. call[c].at = "acquire" /\ call[c].waits = 0 /\ l2' = l2
        BY <1>1, <1>11 DEF Acquire, Sane
    <2>2. CASE lock = 0 /\ Compute(c, TRUE)
        <3>1. Alone(c) /\ call'[c].at = "compute" /\ call'[c].holds
            BY <1>1, <2>2, ComputeEffect
        <3>2. \A d \in Callers : Calm(d)'
            <4>1. Calm(c)'
                BY <3>1 DEF Calm, Waiting
            <4>2. QED
                BY <1>2, <2>1, <3>1, <4>1, OthersCalm
        <3>3. QED
            BY <1>2, <1>3, <3>1, <3>2 DEF CalmInv
    <2>3. CASE lock # 0 /\ lock' = lock /\ Sleep(c)
        <3>1. /\ Alone(c) /\ call'[c].at = "sleep" /\ call'[c].timer = 1 /\ call'[c].waits = 1
            BY <1>1, <2>1, <2>3, SleepEffect
        <3>2. PICK h \in Callers : call[h].holds
            BY <1>2, <2>3
        <3>3. /\ call[h].at \in Inside /\ h # c /\ call[h].age \in Nat
              /\ call'[h] = call[h] /\ Calm(h)
            BY <1>1, <1>2, <2>1, <3>1, <3>2 DEF AgesInv, CallsSane, Sane, Record, Inside, Alone
        <3>4. Served(call[c])'
            <4>1. CASE call[h].at = "release"
                <5>1. l2'.left = L2Ttl
                    BY <2>1, <3>3, <4>1 DEF Calm
                <5>2. QED
                    BY <3>1, <5>1 DEF Served
            <4>2. CASE call[h].at \in {"compute", "l2set"}
                <5>1. Serves(h, call[c])'
                    BY <3>1, <3>3, <4>2 DEF Serves, Waited
                <5>2. QED
                    BY <5>1 DEF Served, Serves
            <4>3. QED
                BY <3>3, <4>1, <4>2 DEF Inside
        <3>5. Calm(c)'
            BY <3>1, <3>4 DEF Calm, Inside
        <3>6. QED
            BY <1>4, <2>1, <2>3, <3>1, <3>5 DEF Inside
    <2>4. QED
        BY <1>11, <2>2, <2>3 DEF Acquire
<1>12. ASSUME ComputeDone(c) PROVE CalmInv'
    <2>1. /\ Alone(c) /\ call[c].at = "compute" /\ call'[c].at = "l2set"
          /\ call'[c].age = call[c].age /\ call'[c].holds = call[c].holds
          /\ l2' = l2 /\ lock' = lock
        BY <1>1, <1>12, GotoEffect DEF ComputeDone, At
    <2>2. Calm(c)'
        BY <1>2, <2>1 DEF Calm, Inside, Waiting
    <2>3. \A d \in Callers : Calm(d)'
        BY <1>2, <2>1, <2>2, OthersCalm
    <2>4. lock' # 0 => \E h \in Callers : call'[h].holds
        BY <1>2, <2>1 DEF Alone
    <2>5. QED
        BY <1>2, <1>3, <2>3, <2>4 DEF CalmInv
<1>13. ASSUME SetL2(c) PROVE CalmInv'
    <2>1. /\ call[c].at = "l2set" /\ call[c].holds /\ lock' = lock
          /\ l2' = Entry(call[c].age, L2Ttl)
        BY <1>2, <1>13 DEF SetL2, Calm, Inside
    <2>2. Alone(c) /\ call'[c].at = "release" /\ call'[c].holds
        BY <1>1, <1>13, <2>1, LeaveEffect DEF SetL2
    <2>3. l2'.left = L2Ttl
        BY <2>1 DEF Entry
    <2>4. ASSUME NEW d \in Callers PROVE Calm(d)'
        <3>1. call'[d] \in Record
            BY <2>2 DEF Alone
        <3>2. Served(call[d])'
            BY <2>3, <3>1 DEF Served, Record
        <3>3. call'[d].at \in Inside => call'[d].holds
            BY <1>2, <2>2 DEF Calm, Alone
        <3>4. QED
            BY <2>3, <3>2, <3>3 DEF Calm
    <2>5. QED
        BY <1>2, <1>3, <2>2, <2>4 DEF CalmInv
<1>14. ASSUME Release(c) PROVE CalmInv'
    <2>1. Alone(c) /\ call'[c] = Idle /\ call[c].at = "release" /\ l2' = l2 /\ lock' = 0
        BY <1>1, <1>14, ReturnEffect DEF Release
    <2>2. Calm(c)'
        BY <2>1 DEF Calm, Idle, Inside, Waiting
    <2>3. \A d \in Callers : Calm(d)'
        BY <1>2, <2>1, <2>2, OthersCalm
    <2>4. QED
        BY <1>2, <1>3, <2>1, <2>3 DEF CalmInv
<1>15. QED
    BY <1>6, <1>7, <1>8, <1>9, <1>10, <1>11, <1>12, <1>13, <1>14 DEF Proceed

\* While time passes everyone sleeps or computes: a waiter's next look comes
\* closer as its computation, or its entry, gets older.
LEMMA CalmTick ==
    ASSUME AgesInv, CalmInv, ~disturbed, Tick
    PROVE  CalmInv'
<1> USE Limits
<1>1. /\ ~unlocked /\ deleting = {} /\ CallsSane /\ lock \in 0..LockTtl
      /\ lock # 0 => \E h \in Callers : call[h].holds
      /\ \A d \in Callers : Calm(d)
      /\ l2 \in L2Entry
    BY DEF CalmInv, AgesInv, TiersYoung, FlagsTyped
<1>2. lock' # 0 => \E h \in Callers : call'[h].holds
    <2>1. lock' # 0 => lock # 0
        BY <1>1 DEF Tick
    <2>2. QED
        BY <1>1, <2>1, TickEffect
<1>3. ASSUME NEW c \in Callers PROVE Calm(c)'
    <2>1. /\ call'[c].at = call[c].at /\ call'[c].at \in {"idle", "sleep", "compute"}
          /\ call'[c].waits = call[c].waits /\ call'[c].holds = call[c].holds
        BY <1>1, TickEffect
    <2>2. ASSUME Waiting(call[c])' PROVE Served(call[c])'
        <3>1. /\ call[c].at = "sleep" /\ call'[c].at = "sleep"
              /\ call[c].timer = 1 /\ call'[c].timer = 0
            BY <1>1, <2>1, <2>2, TickEffect DEF Waiting
        <3>2. Served(call[c])
            BY <1>1, <2>1, <2>2, <3>1 DEF Calm, Waiting
        <3>3. CASE l2.left >= 1
            <4>1. l2'.left >= 0
                BY <1>1, <3>3 DEF Tick, Aged, Entry, L2Entry
            <4>2. QED
                BY <3>1, <4>1 DEF Served
        <3>4. CASE \E h \in Callers : Serves(h, call[c])
            <4>1. PICK h \in Callers : Serves(h, call[c])
                BY <3>4
            <4>2. /\ call'[h].at = "compute" /\ call'[h].age = call[h].age + 1
                  /\ call[h].age \in Nat
                BY <1>1, <4>1, TickEffect DEF Serves, CallsSane, Record
            <4>3. call[c].waits \in Nat
                BY <1>1 DEF CallsSane, Record
            <4>4. Waited(call[c])' = Waited(call[c]) + 1 /\ Waited(call[c]) \in Int
                BY <2>1, <3>1, <4>3 DEF Waited
            <4>5. Serves(h, call[c])'
                BY <4>1, <4>2, <4>4 DEF Serves
            <4>6. QED
                BY <4>5 DEF Served, Serves
        <3>5. QED
            BY <3>1, <3>2, <3>3, <3>4 DEF Served, Serves
    <2>3. QED
        BY <1>1, <2>1, <2>2 DEF Calm
<1>4. QED
    BY <1>1, <1>2, <1>3 DEF CalmInv, Tick

LEMMA CalmStep ==
    ASSUME MaxCompute < MaxWaits, AgesInv, CalmInv, [Next]_vars
    PROVE  CalmInv'
<1>1. SUFFICES ASSUME ~disturbed' PROVE CalmInv'
    BY DEF CalmInv
<1>2. ASSUME NEW c \in Callers, Start(c) \/ Proceed(c) PROVE CalmInv'
    <2>1. ~disturbed
        BY <1>1, <1>2 DEF Start, Proceed, Wake, L2Hit, L2Miss, Promote, Acquire, ComputeDone,
                          SetL2, Release
    <2>2. QED
        BY <1>2, <2>1, CalmCallStep
<1>3. ASSUME NEW c \in Callers, Abort(c) \/ AbortAfterAcquire(c) PROVE FALSE
    BY <1>1, <1>3 DEF Abort, AbortAfterAcquire
<1>4. ASSUME NEW r \in Replicas, Crash(r) \/ InvalidateL1(r) PROVE FALSE
    BY <1>1, <1>4 DEF Crash, InvalidateL1
<1>5. ASSUME NEW r \in Replicas, InvalidateL2(r) PROVE FALSE
    BY <1>1, <1>5 DEF InvalidateL2, CalmInv
<1>6. ASSUME NEW r \in Replicas, Evict(r) PROVE CalmInv'
    <2>1. UNCHANGED <<l2, lock, call, deleting, disturbed, unlocked>>
        BY <1>6 DEF Evict
    <2>2. QED
        BY <2>1 DEF CalmInv, Calm, Served
<1>7. ASSUME Tick PROVE CalmInv'
    <2>1. ~disturbed
        BY <1>1, <1>7 DEF Tick
    <2>2. QED
        BY <1>7, <2>1, CalmTick
<1>8. CASE UNCHANGED vars
    BY <1>8 DEF vars, CalmInv, Calm, Served
<1>9. QED
    BY <1>2, <1>3, <1>4, <1>5, <1>6, <1>7, <1>8 DEF Next

-----------------------------------------------------------------------------
(* The theorems *)

LEMMA InitInv == Init => AgesInv /\ LockInv /\ CalmInv
<1> SUFFICES ASSUME Init PROVE AgesInv /\ LockInv /\ CalmInv
    OBVIOUS
<1>1. Idle \in Record /\ Sane(Idle) /\ \A c \in Callers : call[c] = Idle
    BY Limits DEF Init, Idle, Record, Sane, At, Inside
<1>2. CallsSane
    BY <1>1 DEF Init, CallsSane
<1>3. TiersYoung
    <2>1. Absent \in L1Entry /\ Absent \in L2Entry /\ ~Hit(Absent)
        BY Limits DEF Absent, L1Entry, L2Entry, Hit
    <2>2. QED
        BY <2>1 DEF Init, TiersYoung, Young
<1>4. FlagsTyped
    <2>1. lock \in 0..LockTtl /\ deleting \subseteq Replicas
        BY Limits DEF Init
    <2>2. disturbed \in BOOLEAN /\ unlocked \in BOOLEAN
        BY DEF Init
    <2>3. QED
        BY <2>1, <2>2 DEF FlagsTyped
<1>5. LockInv
    BY <1>1 DEF LockInv, Idle
<1>6. CalmInv
    BY <1>1 DEF Init, CalmInv, Calm, Waiting, Idle, Inside
<1>7. QED
    BY <1>2, <1>3, <1>4, <1>5, <1>6 DEF AgesInv

LEMMA AgesInvariant == Spec => []AgesInv
<1>1. QED
    BY InitInv, AgesStep, PTL DEF Spec

\* The tiers, the lock and the calls keep their types; no call sleeps more than
\* STAMPEDE_MAX_WAITS times.
THEOREM TypeCorrect == Spec => []TypeOK
<1>1. AgesInv => TypeOK
    BY DEF AgesInv, CallsSane, TiersYoung, FlagsTyped, TypeOK, Record, L1Entry, L2Entry
<1>2. QED
    BY <1>1, AgesInvariant, PTL

\* What get_or_compute serves is never older than a computation, the L2 TTL and
\* the L1 TTL together: the promotion of an L2 hit starts a new L1 TTL, a late
\* store a new L2 TTL, and neither does so for a value that has had one before.
THEOREM StalenessBounded == Spec => []BoundedStaleness
<1>1. AgesInv => BoundedStaleness
    <2>1. SUFFICES ASSUME AgesInv PROVE BoundedStaleness
        OBVIOUS
    <2>2. ASSUME NEW r \in Replicas, Hit(l1[r])
          PROVE  l1[r].age <= MaxCompute + L2Ttl + L1Ttl
        <3>1. /\ l1[r].age \in Nat /\ l1[r].left \in Int /\ l1[r].left >= 0
              /\ l1[r].age + l1[r].left <= MaxCompute + L2Ttl + L1Ttl
            BY <2>1, <2>2 DEF AgesInv, TiersYoung, L1Entry, Young, Hit
        <3>2. QED
            BY <3>1, Limits
    <2>3. ASSUME Hit(l2) PROVE l2.age <= MaxCompute + L2Ttl
        <3>1. /\ l2.age \in Nat /\ l2.left \in Int /\ l2.left >= 0
              /\ l2.age + l2.left <= MaxCompute + L2Ttl
            BY <2>1, <2>3 DEF AgesInv, TiersYoung, L2Entry, Young, Hit
        <3>2. QED
            BY <3>1, Limits
    <2>4. QED
        BY <2>2, <2>3 DEF BoundedStaleness
<1>2. QED
    BY <1>1, AgesInvariant, PTL

\* As long as no computation outlives the lock's TTL, two computations under the
\* lock never overlap, whatever aborts, crashes and unconditional releases do,
\* unless an invalidation deleted the lock.
THEOREM LockExcludes == MaxCompute < LockTtl => (Spec => []LockedComputesExclude)
<1> SUFFICES ASSUME MaxCompute < LockTtl PROVE Spec => []LockedComputesExclude
    OBVIOUS
<1>1. AgesInv /\ LockInv /\ [Next]_vars => AgesInv' /\ LockInv'
    BY AgesStep, LockStep
<1>2. LockInv => LockedComputesExclude
    BY DEF LockInv, LockedComputesExclude, SingleLockedCompute, LockedComputing
<1>3. QED
    BY <1>1, <1>2, InitInv, PTL DEF Spec

\* A stampede that nothing disturbs has one computation at a time, as long as no
\* computation outlives the lock's TTL or the waiters' patience.
THEOREM StampedeComputesOnce ==
    MaxCompute < LockTtl /\ MaxCompute < MaxWaits => (Spec => []StampedeCollapses)
<1> SUFFICES ASSUME MaxCompute < LockTtl, MaxCompute < MaxWaits
             PROVE  Spec => []StampedeCollapses
    OBVIOUS
<1>1. AgesInv /\ LockInv /\ CalmInv /\ [Next]_vars => AgesInv' /\ LockInv' /\ CalmInv'
    BY AgesStep, LockStep, CalmStep
<1>2. LockInv /\ CalmInv => StampedeCollapses
    <2>1. SUFFICES ASSUME LockInv, CalmInv, ~disturbed
                   PROVE  Cardinality({c \in Callers : Computing(c)}) <= 1
        BY DEF StampedeCollapses
    <2>2. \A c, d \in Callers : Computing(c) /\ Computing(d) => c = d
        BY <2>1 DEF LockInv, CalmInv, Calm, Computing, Inside
    <2>3. CASE {c \in Callers : Computing(c)} = {}
        BY <2>3, FS_EmptySet
    <2>4. ASSUME NEW h \in Callers, Computing(h)
          PROVE  Cardinality({c \in Callers : Computing(c)}) <= 1
        <3>1. {c \in Callers : Computing(c)} = {h}
            BY <2>2, <2>4
        <3>2. Cardinality({h}) = 1
            BY FS_Singleton
        <3>3. QED
            BY <3>1, <3>2
    <2>5. QED
        BY <2>3, <2>4
<1>3. QED
    BY <1>1, <1>2, InitInv, PTL DEF Spec
=============================================================================
