--------------------------- MODULE LimiterProofs ---------------------------
(***************************************************************************)
(* Theorems about TokenBucket and about Limiter above it, for every quota, *)
(* every lag and any number of calls.  Those about the bucket come first;  *)
(* LimiterImplementsBucket then makes them theorems of the limiter.        *)
(***************************************************************************)
EXTENDS Limiter, TLAPS

\* The inductive invariant: the accounting, and that stored stamps are not
\* from the future, which is why an expired bucket would have been full.
IInv ==
    /\ TypeOK
    /\ AdmissionAccounted
    /\ lastMs <= touched
    /\ touched <= now
    /\ ~present => \/ touched = 0 /\ spent = 0
                   \/ now >= touched + IdleExpiry

-----------------------------------------------------------------------------
(* Arithmetic of the bucket *)

LEMMA LevelBounds ==
    ASSUME TypeOK, NEW s \in Nat
    PROVE  /\ Level(s) \in 0..Capacity
           /\ present => Level(s) <= tokens + Monus(s, lastMs) * Refill
<1> DEFINE refilled == tokens + Monus(s, lastMs) * Refill
<1>1. Monus(s, lastMs) \in Nat
    BY DEF Monus, TypeOK
<1>2. Monus(s, lastMs) * Refill \in Nat
    BY <1>1, QuotaAssumption
<1>3. refilled \in Nat
    BY <1>2, QuotaAssumption DEF TypeOK
<1> HIDE DEF refilled
<1>4. Level(s) = IF present THEN AtMost(refilled, Capacity) ELSE Capacity
    BY DEF Level, refilled
<1>5. Level(s) \in 0..Capacity /\ (present => Level(s) <= refilled)
    BY <1>3, <1>4, QuotaAssumption DEF AtMost
<1>6. QED
    BY <1>5 DEF refilled

\* A stamp that goes forward is paid for by lastMs, one that goes backward by regress.
LEMMA StampsArePaid ==
    ASSUME NEW last \in Nat, NEW back \in Nat, NEW s \in Nat
    PROVE  Refill * (last + back) + Monus(s, last) * Refill
             = Refill * (s + (back + Monus(last, s)))
<1>1. CASE s > last
    <2>1. Monus(s, last) = s - last /\ Monus(last, s) = 0
        BY <1>1 DEF Monus
    <2>2. (last + back) + (s - last) = s + (back + 0)
        OBVIOUS
    <2>3. Refill * (last + back) + (s - last) * Refill = Refill * ((last + back) + (s - last))
        BY QuotaAssumption, SMT
    <2>4. QED
        BY <2>1, <2>2, <2>3
<1>2. CASE ~(s > last)
    <2>1. Monus(s, last) = 0 /\ s + (back + Monus(last, s)) = last + back
        BY <1>2 DEF Monus
    <2>2. QED
        BY <2>1, QuotaAssumption
<1>3. QED
    BY <1>1, <1>2

\* What a bucket holds when a call looks at it is paid for, the full bucket that
\* replaces an expired one included.
LEMMA LevelIsPaid ==
    ASSUME IInv, NEW s \in Stamps
    PROVE  spent + Level(s) <= Capacity + Refill * (s + (regress + Monus(lastMs, s)))
<1> USE QuotaAssumption
<1>1. /\ s \in Nat /\ now <= s + Lag /\ s <= now /\ now \in Nat
      /\ lastMs \in Nat /\ regress \in Nat /\ spent \in Nat /\ tokens \in Nat
      /\ touched \in Nat /\ present \in BOOLEAN
    BY DEF Stamps, IInv, TypeOK
<1>2. Level(s) \in 0..Capacity /\ (present => Level(s) <= tokens + Monus(s, lastMs) * Refill)
    BY <1>1, LevelBounds DEF IInv
<1>3. /\ Monus(s, lastMs) \in Nat /\ Monus(lastMs, s) \in Nat
      /\ Monus(s, lastMs) * Refill \in Nat
    <2>1. Monus(s, lastMs) \in Nat /\ Monus(lastMs, s) \in Nat
        BY <1>1 DEF Monus
    <2>2. QED
        BY <2>1
<1>4. CASE present
    <2>1. Refill * (lastMs + regress) + Monus(s, lastMs) * Refill
            = Refill * (s + (regress + Monus(lastMs, s)))
        BY <1>1, StampsArePaid
    <2>2. spent + tokens <= Capacity + Refill * (lastMs + regress)
        BY <1>4 DEF IInv, AdmissionAccounted
    <2>3. Refill * (lastMs + regress) \in Nat
        BY <1>1
    <2>4. QED
        BY <1>1, <1>2, <1>3, <1>4, <2>1, <2>2, <2>3
<1>5. CASE ~present /\ spent = 0
    <2>1. Refill * (s + (regress + Monus(lastMs, s))) \in Nat
        BY <1>1, <1>3
    <2>2. QED
        BY <1>2, <1>5, <2>1
<1>6. CASE ~present /\ now >= touched + IdleExpiry
    <2>1. s - lastMs >= IdleExpiry - Lag /\ Monus(lastMs, s) = 0
        BY <1>1, <1>6, ExpiryAssumption DEF IInv, Monus
    <2>2. PICK d \in Nat : s = lastMs + (IdleExpiry - Lag) + d
        BY <1>1, <2>1, ExpiryAssumption
    <2>3. IdleExpiry - Lag \in Nat
        BY ExpiryAssumption
    <2>4. Refill * (s + regress)
            = Refill * (lastMs + regress) + Refill * (IdleExpiry - Lag) + Refill * d
        BY <1>1, <2>2, <2>3, SMT
    <2>5. Refill * d \in Nat /\ Refill * (lastMs + regress) \in Nat
          /\ Refill * (IdleExpiry - Lag) \in Nat
        BY <1>1, <2>2, <2>3
    <2>6. spent <= Capacity + Refill * (lastMs + regress)
        <3>1. spent + 0 <= Capacity + Refill * (lastMs + regress)
            BY <1>6 DEF IInv, AdmissionAccounted
        <3>2. QED
            BY <1>1, <3>1
    <2>7. spent <= Refill * (s + regress)
        BY <1>1, <2>4, <2>5, <2>6, ExpiryAssumption
    <2>8. s + (regress + Monus(lastMs, s)) = s + regress
        BY <1>1, <2>1
    <2>9. QED
        BY <1>1, <1>2, <2>7, <2>8
<1>7. QED
    BY <1>1, <1>4, <1>5, <1>6 DEF IInv

-----------------------------------------------------------------------------

LEMMA InitIInv == Init => IInv
<1> SUFFICES ASSUME Init PROVE IInv
    OBVIOUS
<1>1. TypeOK
    <2>1. reply \in [allowed : BOOLEAN, retryAfter : Nat]
        BY DEF Init
    <2>2. now \in Nat /\ lastMs \in Nat /\ touched \in Nat /\ spent \in Nat /\ regress \in Nat
        BY DEF Init
    <2>3. tokens \in 0..Capacity
        BY QuotaAssumption DEF Init
    <2>4. present \in BOOLEAN
        BY DEF Init
    <2>5. QED
        BY <2>1, <2>2, <2>3, <2>4 DEF TypeOK
<1>2. AdmissionAccounted
    BY QuotaAssumption DEF Init, AdmissionAccounted
<1>3. lastMs <= touched /\ touched <= now
    BY DEF Init
<1>4. QED
    BY <1>1, <1>2, <1>3 DEF IInv, Init

\* retry_after is a number of ticks.
LEMMA RetryAfterType ==
    ASSUME NEW level \in 0..Capacity, level < Cost
    PROVE  RetryAfter(level) \in Nat
<1>1. Cost - level + Refill - 1 \in Nat
    BY QuotaAssumption
<1>2. QED
    BY <1>1, QuotaAssumption DEF RetryAfter, CeilDiv

LEMMA ConsumeStep ==
    ASSUME IInv, NEW s \in Stamps, NEW taken \in Nat, taken <= Level(s),
           Store(s, Level(s) - taken), spent' = spent + taken,
           reply' \in [allowed : BOOLEAN, retryAfter : Nat]
    PROVE  IInv'
<1> USE QuotaAssumption
<1>1. /\ s \in Nat /\ s <= now /\ now \in Nat
      /\ lastMs \in Nat /\ regress \in Nat /\ spent \in Nat
    BY DEF Stamps, IInv, TypeOK
<1>2. Level(s) \in 0..Capacity
    BY <1>1, LevelBounds DEF IInv
<1>3. /\ present' = TRUE /\ tokens' = Level(s) - taken /\ lastMs' = s
      /\ touched' = now /\ now' = now /\ regress' = regress + Monus(lastMs, s)
    BY DEF Store
<1>4. Monus(lastMs, s) \in Nat
    BY <1>1 DEF Monus
<1>5. TypeOK' /\ (lastMs <= touched)' /\ (touched <= now)'
    BY <1>1, <1>2, <1>3, <1>4 DEF TypeOK
<1>6. spent' + tokens' = spent + Level(s)
    BY <1>1, <1>2, <1>3
<1>7. AdmissionAccounted'
    BY <1>3, <1>6, LevelIsPaid DEF AdmissionAccounted
<1>8. QED
    BY <1>3, <1>5, <1>7 DEF IInv

LEMMA NextIInv == IInv /\ [Next]_vars => IInv'
<1> SUFFICES ASSUME IInv, [Next]_vars PROVE IInv'
    OBVIOUS
<1>1. ASSUME NEW s \in Stamps, Allow(s) PROVE IInv'
    BY <1>1, ConsumeStep, QuotaAssumption DEF Allow
<1>2. ASSUME NEW s \in Stamps, Refuse(s) PROVE IInv'
    <2>1. s \in Nat /\ TypeOK /\ spent \in Nat
        BY DEF Stamps, IInv, TypeOK
    <2>2. Level(s) \in 0..Capacity /\ Level(s) < Cost
        BY <1>2, <2>1, LevelBounds DEF Refuse
    <2>3. reply' \in [allowed : BOOLEAN, retryAfter : Nat]
        BY <1>2, <2>2, RetryAfterType DEF Refuse
    <2>4. Store(s, Level(s) - 0) /\ spent' = spent + 0 /\ 0 <= Level(s)
        BY <1>2, <2>1, <2>2, QuotaAssumption DEF Refuse
    <2>5. QED
        BY <2>3, <2>4, ConsumeStep
<1>3. CASE Expire
    <2>1. TypeOK' /\ (lastMs <= touched)' /\ (touched <= now)'
        BY <1>3 DEF Expire, IInv, TypeOK
    <2>2. spent \in Nat /\ tokens \in Nat /\ Refill * (lastMs + regress) \in Nat
        BY QuotaAssumption DEF IInv, TypeOK
    <2>3. spent + tokens <= Capacity + Refill * (lastMs + regress)
        BY <1>3 DEF Expire, IInv, AdmissionAccounted
    <2>4. spent + 0 <= Capacity + Refill * (lastMs + regress)
        BY <2>2, <2>3, QuotaAssumption
    <2>5. AdmissionAccounted'
        BY <1>3, <2>4 DEF Expire, AdmissionAccounted
    <2>6. QED
        BY <1>3, <2>1, <2>5 DEF Expire, IInv
<1>4. CASE Tick
    BY <1>4, ExpiryAssumption DEF Tick, IInv, TypeOK, AdmissionAccounted
<1>5. CASE UNCHANGED vars
    BY <1>5 DEF vars, IInv, TypeOK, AdmissionAccounted
<1>6. QED
    BY <1>1, <1>2, <1>3, <1>4, <1>5 DEF Next

-----------------------------------------------------------------------------

\* The bucket's fields keep their types: in particular tokens stay between zero
\* and the burst.
THEOREM TypeCorrect == Spec => []TypeOK
<1>1. IInv => TypeOK
    BY DEF IInv
<1>2. QED
    BY <1>1, InitIInv, NextIInv, PTL DEF Spec

\* Burst, refill and the clock's regressions account for every token admitted.
THEOREM EveryTokenAccounted == Spec => []AdmissionAccounted
<1>1. IInv => AdmissionAccounted
    BY DEF IInv
<1>2. QED
    BY <1>1, InitIInv, NextIInv, PTL DEF Spec

\* With stamps that are never old when they are used (one process, a clock that
\* is never set back) the quota is exact.
THEOREM QuotaExact == Lag = 0 => (Spec => []NoOverAdmission)
<1> DEFINE Steady == IInv /\ regress = 0
<1> SUFFICES ASSUME Lag = 0 PROVE Spec => []NoOverAdmission
    OBVIOUS
<1>1. Init => Steady
    BY InitIInv DEF Init
<1>2. Steady /\ [Next]_vars => Steady'
    <2>1. SUFFICES ASSUME Steady, [Next]_vars PROVE regress' = 0
        BY NextIInv
    <2>2. ASSUME NEW s \in Stamps, NEW left, Store(s, left) PROVE regress' = 0
        <3>1. lastMs <= s /\ s \in Nat /\ lastMs \in Nat
            BY <2>1 DEF Stamps, IInv, TypeOK
        <3>2. Monus(lastMs, s) = 0
            BY <3>1 DEF Monus
        <3>3. QED
            BY <2>1, <2>2, <3>2 DEF Store
    <2>3. QED
        BY <2>1, <2>2 DEF Next, Allow, Refuse, Expire, Tick, vars
<1>3. Steady => NoOverAdmission
    <2>1. SUFFICES ASSUME Steady PROVE NoOverAdmission
        OBVIOUS
    <2>2. /\ lastMs \in Nat /\ now \in Nat /\ spent \in Nat /\ tokens \in Nat
          /\ lastMs <= now
        BY <2>1, QuotaAssumption DEF IInv, TypeOK
    <2>3. PICK d \in Nat : now = lastMs + d
        BY <2>2
    <2>4. Refill * now = Refill * lastMs + Refill * d
        BY <2>2, <2>3, QuotaAssumption, SMT
    <2>5. Refill * lastMs \in Nat /\ Refill * d \in Nat
        BY <2>2, <2>3, QuotaAssumption
    <2>6. spent <= Capacity + Refill * lastMs
        <3>1. lastMs + regress = lastMs
            BY <2>1, <2>2
        <3>2. spent + (IF present THEN tokens ELSE 0) <= Capacity + Refill * lastMs
            BY <2>1, <3>1 DEF IInv, AdmissionAccounted
        <3>3. QED
            BY <2>2, <2>5, <3>2, QuotaAssumption
    <2>7. QED
        BY <2>2, <2>4, <2>5, <2>6, QuotaAssumption DEF NoOverAdmission
<1>4. QED
    BY <1>1, <1>2, <1>3, PTL DEF Spec

-----------------------------------------------------------------------------
(* The answer to a refused caller *)

LEMMA CeilDivExact ==
    ASSUME NEW a \in Nat \ {0}, NEW b \in Nat \ {0}
    PROVE  /\ CeilDiv(a, b) \in Nat \ {0}
           /\ CeilDiv(a, b) * b >= a
           /\ (CeilDiv(a, b) - 1) * b < a
<1> DEFINE x == a + b - 1
           q == x \div b
<1>1. x \in Nat /\ x >= b
    OBVIOUS
<1> HIDE DEF x
<1>2. q \in Nat /\ x % b \in 0..(b - 1) /\ x = b * q + (x % b)
    BY <1>1
<1> HIDE DEF q
<1>3. q # 0
    BY <1>1, <1>2
<1>4. q * b <= x /\ x < q * b + b /\ (q - 1) * b = q * b - b
    BY <1>1, <1>2
<1>5. q * b \in Nat /\ (q - 1) * b \in Nat
    BY <1>2, <1>3
<1>6. q * b >= a /\ (q - 1) * b < a
    BY <1>4, <1>5 DEF x
<1>7. QED
    BY <1>2, <1>3, <1>6 DEF CeilDiv, x, q

\* What a refusal stores and what it tells the caller fit together.
LEMMA RefusalIsExact ==
    ASSUME TypeOK, NEW s \in Nat, Refuse(s)
    PROVE  RetryAfterExact'
<1> USE QuotaAssumption
<1> DEFINE left == Level(s)
           wait == RetryAfter(left)
<1>1. left \in 0..Capacity /\ left < Cost
    BY LevelBounds DEF Refuse
<1>2. /\ present' = TRUE /\ tokens' = left /\ lastMs' = s
      /\ reply' = [allowed |-> FALSE, retryAfter |-> wait]
    BY DEF Refuse, Store
<1> HIDE DEF left
<1>3. /\ wait \in Nat \ {0}
      /\ wait * Refill >= Cost - left
      /\ (wait - 1) * Refill < Cost - left
    <2>1. Cost - left \in Nat \ {0}
        BY <1>1
    <2>2. QED
        BY <2>1, CeilDivExact DEF RetryAfter
<1> HIDE DEF wait
<1>4. wait * Refill \in Nat /\ (wait - 1) * Refill \in Nat
    BY <1>3
<1>5. Monus(s + wait, s) = wait /\ Monus(s + wait - 1, s) = wait - 1
    BY <1>3 DEF Monus
<1>6. AtMost(left + wait * Refill, Capacity) >= Cost
    BY <1>1, <1>3, <1>4 DEF AtMost
<1>7. AtMost(left + (wait - 1) * Refill, Capacity) < Cost
    BY <1>1, <1>3, <1>4 DEF AtMost
<1>8. QED
    BY <1>2, <1>3, <1>5, <1>6, <1>7 DEF RetryAfterExact, Level

\* A refused caller finds its tokens after retry_after_ms and not one tick
\* before, for any quota and cost and whatever the clocks did.
THEOREM RetryAfterIsExact == Spec => []RetryAfterExact
<1>1. Init => RetryAfterExact
    BY DEF Init, RetryAfterExact
<1>2. TypeOK /\ RetryAfterExact /\ [Next]_vars => RetryAfterExact'
    <2> SUFFICES ASSUME TypeOK, RetryAfterExact, [Next]_vars PROVE RetryAfterExact'
        OBVIOUS
    <2>1. ASSUME NEW s \in Stamps, Allow(s) PROVE RetryAfterExact'
        BY <2>1 DEF Allow, RetryAfterExact
    <2>2. ASSUME NEW s \in Stamps, Refuse(s) PROVE RetryAfterExact'
        BY <2>2, RefusalIsExact DEF Stamps
    <2>3. CASE Expire
        BY <2>3 DEF Expire, RetryAfterExact
    <2>4. CASE Tick \/ UNCHANGED vars
        BY <2>4 DEF Tick, vars, RetryAfterExact, Level
    <2>5. QED
        BY <2>1, <2>2, <2>3, <2>4 DEF Next
<1>3. QED
    BY <1>1, <1>2, TypeCorrect, PTL DEF Spec

-----------------------------------------------------------------------------
(* The limiter *)

\* A call under way carries a stamp that is at most Lag old.
StampInv ==
    /\ now \in Nat
    /\ \A c \in Calls : call[c].at # "idle" => call[c].stamp \in Stamps

\* Nothing is loaded before there is a client, and after that the limiter is
\* loading the script or has it, until a load fails or Redis restarts.
LoadInv ==
    /\ call = [c \in Calls |-> call[c]]
    /\ ~client => ~sha /\ ~Loading
    /\ client /\ ~broken => (sha /\ script) \/ (~sha /\ Loading)
    /\ OnlyFirstCallsRaise

LimiterInv == StampInv /\ LoadInv

LEMMA LimiterInitInv == LimiterInit => LimiterInv
  BY DEF LimiterInit, Init, LimiterInv, StampInv, LoadInv, Loading,
         OnlyFirstCallsRaise, Runs, NoCall

LEMMA LoadStep == LimiterInv /\ [LimiterNext]_limiterVars => LoadInv'
<1> SUFFICES ASSUME LimiterInv, [LimiterNext]_limiterVars PROVE LoadInv'
  OBVIOUS
<1> USE DEF LimiterInv, LoadInv, Loading, OnlyFirstCallsRaise, Runs
<1>1. CASE UNCHANGED <<client, sha, script, call, broken>>
  BY <1>1
<1>2. ASSUME NEW c \in Calls, Acquire(c) PROVE LoadInv'
  BY <1>2 DEF Acquire, Send, NoCall
<1>3. ASSUME NEW c \in Calls, Loaded(c) PROVE LoadInv'
  BY <1>3 DEF Loaded, Send
<1>4. ASSUME NEW c \in Calls, LoadFails(c) PROVE LoadInv'
  BY <1>4 DEF LoadFails, Finish, NoCall
<1>5. ASSUME NEW c \in Calls, Consume(c) \/ NoScript(c) PROVE LoadInv'
  BY <1>5 DEF Consume, NoScript, Finish, NoCall
<1>6. CASE LoadedElsewhere
  BY <1>6 DEF LoadedElsewhere
<1>7. CASE RedisRestart
  BY <1>7 DEF RedisRestart
<1>8. QED
  BY <1>1, <1>2, <1>3, <1>4, <1>5, <1>6, <1>7
     DEF LimiterNext, limiterVars, Elsewhere, Pass, Drop

LEMMA StampStep == LimiterInv /\ [LimiterNext]_limiterVars => StampInv'
<1> SUFFICES ASSUME LimiterInv, [LimiterNext]_limiterVars PROVE StampInv'
  OBVIOUS
<1> USE QuotaAssumption DEF LimiterInv, LoadInv, StampInv, Stamps
<1>1. CASE UNCHANGED <<now, call>>
  BY <1>1
<1>2. ASSUME NEW c \in Calls, Acquire(c) PROVE StampInv'
  BY <1>2 DEF Acquire, Send, NoCall, vars
<1>3. ASSUME NEW c \in Calls, Loaded(c) PROVE StampInv'
  BY <1>3 DEF Loaded, Send, vars
<1>4. ASSUME NEW c \in Calls, LoadFails(c) \/ NoScript(c) PROVE StampInv'
  BY <1>4 DEF LoadFails, NoScript, Finish, NoCall, vars
<1>5. ASSUME NEW c \in Calls, Consume(c) PROVE StampInv'
  BY <1>5 DEF Consume, Allow, Refuse, Store, Finish, NoCall
<1>6. CASE Pass
  BY <1>6 DEF Pass, Tick
<1>7. CASE Elsewhere
  BY <1>7 DEF Elsewhere, Allow, Refuse, Store
<1>8. QED
  BY <1>1, <1>2, <1>3, <1>4, <1>5, <1>6, <1>7
     DEF LimiterNext, limiterVars, vars, LoadedElsewhere, RedisRestart, Drop, Expire

LEMMA LimiterInvHolds == LimiterSpec => []LimiterInv
<1>1. LimiterInv /\ [LimiterNext]_limiterVars => LimiterInv'
  BY LoadStep, StampStep DEF LimiterInv
<1>2. QED
  BY <1>1, LimiterInitInv, PTL DEF LimiterSpec

\* _ensure: until a load fails or Redis restarts, the only calls that raise are
\* those sent while the first one was loading, however many meet in the cold start.
THEOREM FirstCallsAloneRaise == LimiterSpec => []OnlyFirstCallsRaise
<1>1. LimiterInv => OnlyFirstCallsRaise
  BY DEF LimiterInv, LoadInv
<1>2. QED
  BY <1>1, LimiterInvHolds, PTL

\* The calls that wait, load and fail in the servers only ever do to the bucket
\* what TokenBucket allows, so that its theorems hold of the limiter.
THEOREM LimiterImplementsBucket == LimiterSpec => Spec
<1>1. LimiterInit => Init
  BY DEF LimiterInit
<1>2. LimiterInv /\ [LimiterNext]_limiterVars => [Next]_vars
  <2> SUFFICES ASSUME LimiterInv, [LimiterNext]_limiterVars PROVE [Next]_vars
    OBVIOUS
  <2>1. ASSUME NEW c \in Calls, Consume(c) PROVE Next
    <3>1. call[c].stamp \in Stamps
      BY <2>1 DEF Consume, Runs, LimiterInv, StampInv
    <3>2. QED
      BY <2>1, <3>1 DEF Consume, Next
  <2>2. CASE Elsewhere
    BY <2>2 DEF Elsewhere, Next
  <2>3. CASE Pass \/ Drop
    BY <2>3 DEF Pass, Drop, Next
  <2>4. QED
    BY <2>1, <2>2, <2>3
       DEF LimiterNext, limiterVars, Acquire, Loaded, LoadFails, NoScript, LoadedElsewhere,
           RedisRestart
<1>3. QED
  BY <1>1, <1>2, LimiterInvHolds, PTL DEF LimiterSpec, Spec

\* The quota of the limiter: what it admits is the burst, the refill and what
\* stamps gone backwards refill twice, through cold starts, failures and restarts.
THEOREM LimiterAccounted == LimiterSpec => []AdmissionAccounted
  BY LimiterImplementsBucket, EveryTokenAccounted, PTL

\* The fields of the limiter's bucket keep their types.
THEOREM LimiterBucketTyped == LimiterSpec => []TypeOK
  BY LimiterImplementsBucket, TypeCorrect, PTL

\* A caller the limiter refused finds its tokens after retry_after_ms and not one
\* tick before, whatever the other calls, the loads and the restarts did to the bucket.
THEOREM LimiterRetryAfterExact == LimiterSpec => []RetryAfterExact
  BY LimiterImplementsBucket, RetryAfterIsExact, PTL
=============================================================================
