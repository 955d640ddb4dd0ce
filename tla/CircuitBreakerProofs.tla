------------------------ MODULE CircuitBreakerProofs ------------------------
(***************************************************************************)
(* Proofs of CircuitBreaker's safety properties, for any set of calls, any *)
(* threshold, window, recovery time and call timeout.                      *)
(***************************************************************************)
EXTENDS CircuitBreaker, TLAPS

\* The deque is in time order and holds no time from the future.
FailuresInOrder ==
    /\ \A i \in 1..Len(failures) : failures[i] <= now
    /\ \A i, j \in 1..Len(failures) : i <= j => failures[i] <= failures[j]

\* Calls in flight are younger than the timeout, and the deque was pruned when
\* each of them was admitted.
CallsAreYoung ==
    \A c \in Calls : InFlight(c) =>
        /\ startedAt[c] <= now
        /\ now <= startedAt[c] + CallTimeout
        /\ \A i \in 1..Len(failures) : startedAt[c] <= failures[i] + Window

\* The inductive invariant.
IInv ==
    /\ TypeOK
    /\ NoLockout
    /\ OpenAdmitsNothing
    /\ FailuresBelowThreshold
    /\ openedAt <= now
    /\ FailuresInOrder
    /\ CallsAreYoung

\* With calls shorter than the recovery time a probe is alone, and only a
\* half-open breaker has one.
ShortCallInv ==
    /\ IInv
    /\ ProbeRunsAlone
    /\ \A c \in Calls : Probing(c) => state = "half_open" /\ probeInFlight
    /\ state = "half_open" => \A c \in Calls : InFlight(c) => Probing(c)

-----------------------------------------------------------------------------

\* Pruning (circuit_breaker.py:93-95) keeps a suffix of the deque, so it keeps
\* what holds of every element and every ordered pair, and every element kept
\* is inside the window because the deque is in time order.
LEMMA PruneKeeps ==
    ASSUME TypeOK, FailuresInOrder, PruneFailures(failures)
    PROVE  /\ failures' \in Seq(Nat)
           /\ Len(failures') <= Len(failures)
           /\ \A i \in 1..Len(failures') :
                 /\ failures'[i] <= now
                 /\ now <= failures'[i] + Window
                 /\ \E j \in 1..Len(failures) : failures'[i] = failures[j]
           /\ \A i, j \in 1..Len(failures') : i <= j => failures'[i] <= failures'[j]
<1>1. PICK k \in 0..Len(failures) :
          /\ k < Len(failures) => ~Expired(failures[k + 1], now)
          /\ failures' = SubSeq(failures, k + 1, Len(failures))
    BY DEF PruneFailures
<1>2. /\ failures' \in Seq(Nat)
      /\ Len(failures') = Len(failures) - k
      /\ \A i \in 1..Len(failures') : failures'[i] = failures[k + i]
    BY <1>1 DEF TypeOK
<1>3. \A i \in 1..Len(failures') : k + i \in 1..Len(failures) /\ k + 1 \in 1..Len(failures)
    BY <1>1, <1>2 DEF TypeOK
<1>4. \A i \in 1..Len(failures') : now <= failures'[i] + Window
    <2>1. SUFFICES ASSUME NEW i \in 1..Len(failures')
                   PROVE  now <= failures'[i] + Window
        OBVIOUS
    <2>2. k + 1 <= k + i /\ k + 1 \in 1..Len(failures) /\ k + i \in 1..Len(failures)
        BY <1>3, <2>1
    <2>3. /\ failures[k + 1] <= failures[k + i]
          /\ failures[k + 1] \in Nat
          /\ failures[k + i] \in Nat
        BY <2>2 DEF FailuresInOrder, TypeOK
    <2>4. now <= failures[k + 1] + Window
        <3>1. k < Len(failures)
            BY <1>1, <2>2 DEF TypeOK
        <3>2. ~Expired(failures[k + 1], now)
            BY <1>1, <3>1
        <3>3. QED
            BY <2>3, <3>2, ConstantsAssumption DEF Expired, TypeOK
    <2>5. now <= failures[k + i] + Window
        BY <2>3, <2>4, ConstantsAssumption DEF TypeOK
    <2>6. QED
        BY <1>2, <2>1, <2>5
<1>5. Len(failures') <= Len(failures)
    BY <1>2 DEF TypeOK
<1>6. \A i \in 1..Len(failures') :
          /\ failures'[i] <= now
          /\ \E j \in 1..Len(failures) : failures'[i] = failures[j]
    BY <1>2, <1>3 DEF FailuresInOrder
<1>7. \A i, j \in 1..Len(failures') : i <= j => failures'[i] <= failures'[j]
    <2>1. SUFFICES ASSUME NEW i \in 1..Len(failures'), NEW j \in 1..Len(failures'), i <= j
                   PROVE  failures'[i] <= failures'[j]
        OBVIOUS
    <2>2. k + i \in 1..Len(failures) /\ k + j \in 1..Len(failures) /\ k + i <= k + j
        BY <1>3, <2>1 DEF TypeOK
    <2>3. QED
        BY <1>2, <2>1, <2>2 DEF FailuresInOrder
<1>8. QED
    BY <1>2, <1>4, <1>5, <1>6, <1>7

\* What the admission of a call leaves true of the calls in flight.
LEMMA BeginKeeps ==
    ASSUME IInv, NEW c \in Calls, NEW branch \in {"normal", "probe"},
           Begin(c, branch), PruneFailures(failures), now' = now
    PROVE  /\ phase' \in [Calls -> Phase] /\ startedAt' \in [Calls -> Nat]
           /\ failures' \in Seq(Nat)
           /\ FailuresBelowThreshold' /\ FailuresInOrder' /\ CallsAreYoung'
           /\ \A d \in Calls : d # c => phase'[d] = phase[d] /\ startedAt'[d] = startedAt[d]
           /\ phase'[c] = branch /\ startedAt'[c] = now /\ ~InFlight(c)
<1> USE ConstantsAssumption
<1>1. /\ failures' \in Seq(Nat)
      /\ Len(failures') <= Len(failures)
      /\ \A i \in 1..Len(failures') :
            /\ failures'[i] <= now
            /\ now <= failures'[i] + Window
            /\ \E j \in 1..Len(failures) : failures'[i] = failures[j]
      /\ \A i, j \in 1..Len(failures') : i <= j => failures'[i] <= failures'[j]
    BY PruneKeeps DEF IInv
<1>2. /\ phase' \in [Calls -> Phase] /\ startedAt' \in [Calls -> Nat]
      /\ \A d \in Calls : d # c => phase'[d] = phase[d] /\ startedAt'[d] = startedAt[d]
      /\ phase'[c] = branch /\ startedAt'[c] = now /\ ~InFlight(c)
    BY DEF IInv, TypeOK, Begin, Phase
<1>3. FailuresBelowThreshold'
    BY <1>1 DEF IInv, TypeOK, FailuresBelowThreshold
<1>4. FailuresInOrder'
    BY <1>1 DEF FailuresInOrder
<1>5. CallsAreYoung'
    <2>1. SUFFICES ASSUME NEW d \in Calls, InFlight(d)'
                   PROVE  /\ startedAt'[d] <= now
                          /\ now <= startedAt'[d] + CallTimeout
                          /\ \A i \in 1..Len(failures') : startedAt'[d] <= failures'[i] + Window
        BY DEF CallsAreYoung, InFlight
    <2>2. CASE d = c
        BY <1>1, <1>2, <2>2 DEF IInv, TypeOK
    <2>3. CASE d # c
        BY <1>1, <1>2, <2>1, <2>3 DEF IInv, CallsAreYoung, InFlight
    <2>4. QED
        BY <2>2, <2>3
<1>6. QED
    BY <1>1, <1>2, <1>3, <1>4, <1>5

\* What the end of a call leaves true of the others.  The flag that End leaves
\* set is some other call's.
LEMMA EndKeeps ==
    ASSUME IInv, NEW c \in Calls, End(c)
    PROVE  /\ now' = now
           /\ phase' \in [Calls -> Phase] /\ startedAt' \in [Calls -> Nat]
           /\ probeInFlight' \in BOOLEAN
           /\ NoLockout'
           /\ InFlight(c)
           /\ \A d \in Calls : InFlight(d)' =>
                 d # c /\ InFlight(d) /\ phase'[d] = phase[d] /\ startedAt'[d] = startedAt[d]
<1>1. /\ now' = now /\ InFlight(c)
      /\ phase' \in [Calls -> Phase] /\ startedAt' \in [Calls -> Nat]
      /\ probeInFlight' \in BOOLEAN
      /\ \A d \in Calls : d # c => phase'[d] = phase[d] /\ startedAt'[d] = startedAt[d]
      /\ phase'[c] = "idle"
    BY DEF End, IInv, TypeOK, Phase
<1>2. NoLockout'
    <2>1. SUFFICES ASSUME probeInFlight' PROVE \E d \in Calls : Probing(d)'
        BY DEF NoLockout
    <2>2. probeInFlight /\ ~Probing(c)
        BY <2>1 DEF End
    <2>3. PICK d \in Calls : Probing(d)
        BY <2>2 DEF IInv, NoLockout
    <2>4. d # c
        BY <2>2, <2>3
    <2>5. QED
        BY <1>1, <2>3, <2>4 DEF Probing
<1>3. QED
    BY <1>1, <1>2 DEF InFlight

LEMMA InitIInv == Init => IInv
<1> SUFFICES ASSUME Init PROVE IInv
    OBVIOUS
<1>1. TypeOK
    <2>1. state \in State /\ probeInFlight \in BOOLEAN
        BY DEF Init, State
    <2>2. now \in Nat /\ openedAt \in Nat /\ trips \in Nat
        BY DEF Init
    <2>3. failures \in Seq(Nat)
        BY DEF Init
    <2>4. phase \in [Calls -> Phase] /\ startedAt \in [Calls -> Nat]
        BY DEF Init, Phase
    <2>5. QED
        BY <2>1, <2>2, <2>3, <2>4 DEF TypeOK
<1>2. NoLockout /\ OpenAdmitsNothing /\ FailuresBelowThreshold /\ openedAt <= now
    BY ConstantsAssumption DEF Init, NoLockout, OpenAdmitsNothing, FailuresBelowThreshold
<1>3. FailuresInOrder /\ CallsAreYoung
    BY DEF Init, FailuresInOrder, CallsAreYoung, InFlight
<1>4. QED
    BY <1>1, <1>2, <1>3 DEF IInv

-----------------------------------------------------------------------------
(* Every step keeps the invariant *)

LEMMA AdmitStep ==
    ASSUME IInv, NEW c \in Calls, Admit(c)
    PROVE  IInv'
<1>1. /\ Begin(c, "normal") /\ PruneFailures(failures)
      /\ now' = now /\ state' = state /\ openedAt' = openedAt
      /\ probeInFlight' = probeInFlight /\ trips' = trips
      /\ state # "open"
    BY DEF Admit, CheckedState, RecoveryElapsed
<1>2. /\ phase' \in [Calls -> Phase] /\ startedAt' \in [Calls -> Nat]
      /\ failures' \in Seq(Nat)
      /\ FailuresBelowThreshold' /\ FailuresInOrder' /\ CallsAreYoung'
      /\ \A d \in Calls : d # c => phase'[d] = phase[d]
      /\ ~InFlight(c)
    BY <1>1, BeginKeeps
<1>3. TypeOK'
    BY <1>1, <1>2 DEF IInv, TypeOK
<1>4. NoLockout'
    BY <1>1, <1>2 DEF IInv, NoLockout, Probing, InFlight
<1>5. OpenAdmitsNothing' /\ (openedAt <= now)'
    BY <1>1 DEF IInv, OpenAdmitsNothing
<1>6. QED
    BY <1>2, <1>3, <1>4, <1>5 DEF IInv

LEMMA AdmitProbeStep ==
    ASSUME IInv, NEW c \in Calls, AdmitProbe(c)
    PROVE  IInv'
<1>1. /\ Begin(c, "probe") /\ PruneFailures(failures)
      /\ now' = now /\ state' = "half_open" /\ openedAt' = openedAt
      /\ probeInFlight' = TRUE /\ trips' = trips
    BY DEF AdmitProbe
<1>2. /\ phase' \in [Calls -> Phase] /\ startedAt' \in [Calls -> Nat]
      /\ failures' \in Seq(Nat)
      /\ FailuresBelowThreshold' /\ FailuresInOrder' /\ CallsAreYoung'
      /\ phase'[c] = "probe"
    BY <1>1, BeginKeeps
<1>3. TypeOK'
    BY <1>1, <1>2 DEF IInv, TypeOK, State
<1>4. NoLockout'
    BY <1>2 DEF NoLockout, Probing
<1>5. OpenAdmitsNothing' /\ (openedAt <= now)'
    BY <1>1 DEF IInv, OpenAdmitsNothing
<1>6. QED
    BY <1>2, <1>3, <1>4, <1>5 DEF IInv

LEMMA RejectStep ==
    ASSUME IInv, Reject
    PROVE  IInv'
<1> USE ConstantsAssumption
<1>1. /\ PruneFailures(failures)
      /\ now' = now /\ state' = state /\ openedAt' = openedAt
      /\ probeInFlight' = probeInFlight /\ trips' = trips
      /\ phase' = phase /\ startedAt' = startedAt
    BY DEF Reject
<1>2. /\ failures' \in Seq(Nat)
      /\ Len(failures') <= Len(failures)
      /\ \A i \in 1..Len(failures') :
            /\ failures'[i] <= now
            /\ \E j \in 1..Len(failures) : failures'[i] = failures[j]
      /\ \A i, j \in 1..Len(failures') : i <= j => failures'[i] <= failures'[j]
    BY <1>1, PruneKeeps DEF IInv
<1>3. TypeOK'
    BY <1>1, <1>2 DEF IInv, TypeOK
<1>4. NoLockout' /\ OpenAdmitsNothing' /\ (openedAt <= now)'
    BY <1>1 DEF IInv, NoLockout, OpenAdmitsNothing, Probing, InFlight
<1>5. FailuresBelowThreshold'
    BY <1>2 DEF IInv, TypeOK, FailuresBelowThreshold
<1>6. FailuresInOrder'
    BY <1>1, <1>2 DEF FailuresInOrder
<1>7. CallsAreYoung'
    BY <1>1, <1>2 DEF IInv, CallsAreYoung, InFlight
<1>8. QED
    BY <1>3, <1>4, <1>5, <1>6, <1>7 DEF IInv

LEMMA SucceedsStep ==
    ASSUME IInv, NEW c \in Calls, CallSucceeds(c)
    PROVE  IInv'
<1> USE ConstantsAssumption
<1>1. End(c) /\ openedAt' = openedAt /\ trips' = trips
    BY DEF CallSucceeds
<1>2. /\ now' = now
      /\ phase' \in [Calls -> Phase] /\ startedAt' \in [Calls -> Nat]
      /\ probeInFlight' \in BOOLEAN
      /\ NoLockout'
      /\ \A d \in Calls : InFlight(d)' => InFlight(d) /\ startedAt'[d] = startedAt[d]
    BY <1>1, EndKeeps
<1>3. \/ state' = "closed" /\ failures' = <<>>
      \/ state' = state /\ failures' = failures
    BY DEF CallSucceeds
<1>4. TypeOK'
    <2>1. CASE state' = "closed" /\ failures' = <<>>
        BY <1>1, <1>2, <2>1 DEF IInv, TypeOK, State
    <2>2. CASE state' = state /\ failures' = failures
        BY <1>1, <1>2, <2>2 DEF IInv, TypeOK
    <2>3. QED
        BY <1>3, <2>1, <2>2
<1>5. OpenAdmitsNothing' /\ (openedAt <= now)'
    BY <1>1, <1>2, <1>3 DEF IInv, OpenAdmitsNothing, InFlight
<1>6. FailuresBelowThreshold' /\ FailuresInOrder' /\ CallsAreYoung'
    <2>1. CASE failures' = <<>>
        BY <1>2, <2>1 DEF IInv, FailuresBelowThreshold, FailuresInOrder, CallsAreYoung, InFlight
    <2>2. CASE failures' = failures
        BY <1>2, <2>2 DEF IInv, FailuresBelowThreshold, FailuresInOrder, CallsAreYoung, InFlight
    <2>3. QED
        BY <1>3, <2>1, <2>2
<1>7. QED
    BY <1>1, <1>2, <1>4, <1>5, <1>6 DEF IInv

LEMMA FailsStep ==
    ASSUME IInv, NEW c \in Calls, CallFails(c)
    PROVE  IInv'
<1> USE ConstantsAssumption
<1>1. End(c)
    BY DEF CallFails
<1>2. /\ now' = now
      /\ phase' \in [Calls -> Phase] /\ startedAt' \in [Calls -> Nat]
      /\ probeInFlight' \in BOOLEAN
      /\ NoLockout'
      /\ \A d \in Calls : InFlight(d)' => InFlight(d) /\ startedAt'[d] = startedAt[d]
    BY <1>1, EndKeeps
<1>3. CASE /\ state' = "open" /\ openedAt' = now
           /\ failures' = <<>> /\ trips' = trips + 1
    <2>1. TypeOK'
        BY <1>2, <1>3 DEF IInv, TypeOK, State
    <2>2. OpenAdmitsNothing' /\ (openedAt <= now)'
        BY <1>2, <1>3 DEF IInv, TypeOK, OpenAdmitsNothing, CallsAreYoung, InFlight
    <2>3. FailuresBelowThreshold' /\ FailuresInOrder' /\ CallsAreYoung'
        BY <1>2, <1>3 DEF IInv, FailuresBelowThreshold, FailuresInOrder, CallsAreYoung, InFlight
    <2>4. QED
        BY <1>2, <2>1, <2>2, <2>3 DEF IInv
<1>4. CASE /\ ~TripsNow /\ failures' = Append(failures, now)
           /\ state' = state /\ openedAt' = openedAt /\ trips' = trips
    <2>1. /\ failures' \in Seq(Nat) /\ Len(failures') = Len(failures) + 1
          /\ \A i \in 1..Len(failures') :
                failures'[i] = IF i <= Len(failures) THEN failures[i] ELSE now
        BY <1>4 DEF IInv, TypeOK
    <2>2. /\ now \in Nat /\ Len(failures) \in Nat /\ FailuresInOrder
          /\ \A i \in 1..Len(failures') : i <= Len(failures) => i \in 1..Len(failures)
        BY <2>1 DEF IInv, TypeOK
    <2>3. TypeOK'
        BY <1>2, <1>4, <2>1 DEF IInv, TypeOK
    <2>4. OpenAdmitsNothing' /\ (openedAt <= now)'
        BY <1>2, <1>4 DEF IInv, OpenAdmitsNothing, InFlight
    <2>5. FailuresBelowThreshold'
        BY <1>4, <2>1 DEF IInv, TypeOK, TripsNow, FailuresBelowThreshold
    <2>6. FailuresInOrder'
        <3>1. \A i \in 1..Len(failures') : failures'[i] <= now
            BY <2>1, <2>2 DEF FailuresInOrder
        <3>2. \A i, j \in 1..Len(failures') : i <= j => failures'[i] <= failures'[j]
            BY <2>1, <2>2 DEF FailuresInOrder
        <3>3. QED
            BY <1>2, <3>1, <3>2 DEF FailuresInOrder
    <2>7. CallsAreYoung'
        <3>1. SUFFICES ASSUME NEW d \in Calls, InFlight(d)'
                       PROVE  /\ startedAt'[d] <= now
                              /\ now <= startedAt'[d] + CallTimeout
                              /\ \A i \in 1..Len(failures') :
                                    startedAt'[d] <= failures'[i] + Window
            BY <1>2 DEF CallsAreYoung, InFlight
        <3>2. /\ startedAt'[d] = startedAt[d] /\ startedAt[d] \in Nat
              /\ startedAt[d] <= now /\ now <= startedAt[d] + CallTimeout
              /\ \A i \in 1..Len(failures) : startedAt[d] <= failures[i] + Window
            BY <1>2, <3>1 DEF IInv, TypeOK, CallsAreYoung
        <3>3. QED
            BY <2>1, <2>2, <3>2
    <2>8. QED
        BY <1>2, <2>3, <2>4, <2>5, <2>6, <2>7 DEF IInv
<1>5. QED
    BY <1>3, <1>4 DEF CallFails

LEMMA UncountedStep ==
    ASSUME IInv, NEW c \in Calls, CallEndsUncounted(c)
    PROVE  IInv'
<1>1. /\ End(c) /\ state' = state /\ openedAt' = openedAt
      /\ failures' = failures /\ trips' = trips
    BY DEF CallEndsUncounted
<1>2. /\ now' = now
      /\ phase' \in [Calls -> Phase] /\ startedAt' \in [Calls -> Nat]
      /\ probeInFlight' \in BOOLEAN
      /\ NoLockout'
      /\ \A d \in Calls : InFlight(d)' => InFlight(d) /\ startedAt'[d] = startedAt[d]
    BY <1>1, EndKeeps
<1>3. TypeOK'
    BY <1>1, <1>2 DEF IInv, TypeOK
<1>4. OpenAdmitsNothing' /\ (openedAt <= now)'
    BY <1>1, <1>2 DEF IInv, OpenAdmitsNothing, InFlight
<1>5. FailuresBelowThreshold' /\ FailuresInOrder' /\ CallsAreYoung'
    BY <1>1, <1>2 DEF IInv, FailuresBelowThreshold, FailuresInOrder, CallsAreYoung, InFlight
<1>6. QED
    BY <1>2, <1>3, <1>4, <1>5 DEF IInv

LEMMA TickStep ==
    ASSUME IInv, Tick
    PROVE  IInv'
<1> USE ConstantsAssumption
<1>1. /\ now' = now + 1 /\ state' = state /\ openedAt' = openedAt
      /\ failures' = failures /\ probeInFlight' = probeInFlight /\ trips' = trips
      /\ phase' = phase /\ startedAt' = startedAt
      /\ \A c \in Calls : InFlight(c) => now < startedAt[c] + CallTimeout
    BY DEF Tick, breaker
<1>2. TypeOK' /\ (openedAt <= now)'
    BY <1>1 DEF IInv, TypeOK
<1>3. NoLockout' /\ OpenAdmitsNothing' /\ FailuresBelowThreshold'
    BY <1>1 DEF IInv, NoLockout, OpenAdmitsNothing, FailuresBelowThreshold, Probing, InFlight
<1>4. FailuresInOrder'
    BY <1>1 DEF IInv, TypeOK, FailuresInOrder
<1>5. CallsAreYoung'
    BY <1>1 DEF IInv, TypeOK, CallsAreYoung, InFlight
<1>6. QED
    BY <1>2, <1>3, <1>4, <1>5 DEF IInv

LEMMA NextIInv == IInv /\ [Next]_vars => IInv'
<1> SUFFICES ASSUME IInv, [Next]_vars PROVE IInv'
    OBVIOUS
<1>1. ASSUME NEW c \in Calls, Admit(c) PROVE IInv'
    BY <1>1, AdmitStep
<1>2. ASSUME NEW c \in Calls, AdmitProbe(c) PROVE IInv'
    BY <1>2, AdmitProbeStep
<1>3. CASE Reject
    BY <1>3, RejectStep
<1>4. ASSUME NEW c \in Calls, CallSucceeds(c) PROVE IInv'
    BY <1>4, SucceedsStep
<1>5. ASSUME NEW c \in Calls, CallFails(c) PROVE IInv'
    BY <1>5, FailsStep
<1>6. ASSUME NEW c \in Calls, CallEndsUncounted(c) PROVE IInv'
    BY <1>6, UncountedStep
<1>7. CASE Tick
    BY <1>7, TickStep
<1>8. CASE UNCHANGED vars
    BY <1>8 DEF vars, breaker, IInv, TypeOK, NoLockout, OpenAdmitsNothing,
                FailuresBelowThreshold, FailuresInOrder, CallsAreYoung, InFlight, Probing
<1>9. QED
    BY <1>1, <1>2, <1>3, <1>4, <1>5, <1>6, <1>7, <1>8 DEF Next

LEMMA Invariance == Spec => []IInv
<1>1. QED
    BY InitIInv, NextIInv, PTL DEF Spec

-----------------------------------------------------------------------------
(* The theorems *)

\* The breaker's fields keep their types whatever the calls do.
THEOREM TypeCorrect == Spec => []TypeOK
<1>1. IInv => TypeOK
    BY DEF IInv
<1>2. QED
    BY <1>1, Invariance, PTL

\* A set _half_open_probe_in_flight always belongs to a probe under way: the
\* finally clause of call() cannot leave the breaker refusing every call.
THEOREM BreakerNeverLocksOut == Spec => []NoLockout
<1>1. IInv => NoLockout
    BY DEF IInv
<1>2. QED
    BY <1>1, Invariance, PTL

\* What runs while the breaker is open was admitted before it opened.
THEOREM OpenBreakerAdmitsNothing == Spec => []OpenAdmitsNothing
<1>1. IInv => OpenAdmitsNothing
    BY DEF IInv
<1>2. QED
    BY <1>1, Invariance, PTL

\* _on_failure opens the breaker as soon as the deque holds a threshold's worth.
THEOREM DequeBelowThreshold == Spec => []FailuresBelowThreshold
<1>1. IInv => FailuresBelowThreshold
    BY DEF IInv
<1>2. QED
    BY <1>1, Invariance, PTL

\* The failures that open a closed breaker are at most a window and one call's
\* duration old, although only call() prunes and _on_failure does not.
THEOREM TripsAreRecent == Spec => TripSpansWindow
<1>1. ASSUME IInv, Next, state = "closed", state' = "open",
             NEW i \in 1..Len(failures)
      PROVE  now <= failures[i] + Window + CallTimeout
    <2>1. PICK c \in Calls : CallFails(c)
        BY <1>1 DEF Next, Admit, AdmitProbe, Reject, CallSucceeds, CallEndsUncounted,
                    Tick, breaker
    <2>2. InFlight(c)
        BY <2>1 DEF CallFails, End
    <2>3. /\ startedAt[c] <= failures[i] + Window
          /\ now <= startedAt[c] + CallTimeout
        BY <1>1, <2>2 DEF IInv, CallsAreYoung
    <2>4. now \in Nat /\ failures[i] \in Nat /\ startedAt[c] \in Nat
        BY <1>1 DEF IInv, TypeOK
    <2>5. QED
        BY <2>3, <2>4, ConstantsAssumption
<1>2. IInv /\ [Next]_vars =>
          [ (state = "closed" /\ state' = "open") =>
              \A i \in 1..Len(failures) : now <= failures[i] + Window + CallTimeout ]_vars
    BY <1>1
<1>3. QED
    BY <1>2, Invariance, PTL DEF Spec, TripSpansWindow

-----------------------------------------------------------------------------
(* Calls shorter than the recovery time *)

\* Nothing outlives the recovery time, so a breaker whose recovery elapsed has
\* no call in flight when it admits its probe.
LEMMA DrainedWhenRecovered ==
    ASSUME IInv, CallTimeout < Recovery, RecoveryElapsed, NEW c \in Calls
    PROVE  ~InFlight(c)
<1> SUFFICES ASSUME InFlight(c) PROVE FALSE
    OBVIOUS
<1>1. /\ startedAt[c] <= openedAt
      /\ now <= startedAt[c] + CallTimeout
    BY DEF IInv, OpenAdmitsNothing, CallsAreYoung, RecoveryElapsed
<1>2. /\ now \in Nat /\ openedAt \in Nat /\ startedAt[c] \in Nat
      /\ now >= openedAt + Recovery
    BY DEF IInv, TypeOK, RecoveryElapsed
<1>3. QED
    BY <1>1, <1>2, ConstantsAssumption

LEMMA ShortCallStep ==
    ASSUME CallTimeout < Recovery, ShortCallInv, [Next]_vars
    PROVE  ShortCallInv'
<1> DEFINE ProbeHolds ==
        /\ ProbeRunsAlone
        /\ \A c \in Calls : Probing(c) => state = "half_open" /\ probeInFlight
        /\ state = "half_open" => \A c \in Calls : InFlight(c) => Probing(c)
<1> SUFFICES ProbeHolds'
    BY NextIInv DEF ShortCallInv
<1> USE DEF ProbeRunsAlone, Probing, InFlight
<1>1. ASSUME NEW c \in Calls, Admit(c) PROVE ProbeHolds'
    <2>1. /\ state = "closed" /\ state' = state /\ phase[c] = "idle"
          /\ phase' = [phase EXCEPT ![c] = "normal"]
        BY <1>1 DEF Admit, Begin, CheckedState
    <2>2. phase \in [Calls -> Phase]
        BY DEF ShortCallInv, IInv, TypeOK
    <2>3. QED
        BY <2>1, <2>2 DEF ShortCallInv, Phase
<1>2. ASSUME NEW c \in Calls, AdmitProbe(c) PROVE ProbeHolds'
    <2>1. /\ state' = "half_open" /\ probeInFlight' = TRUE
          /\ phase' = [phase EXCEPT ![c] = "probe"]
        BY <1>2 DEF AdmitProbe, Begin
    <2>2. phase \in [Calls -> Phase]
        BY DEF ShortCallInv, IInv, TypeOK
    <2>3. \A d \in Calls : phase[d] = "idle"
        <3>1. CASE RecoveryElapsed
            BY <3>1, DrainedWhenRecovered DEF ShortCallInv
        <3>2. CASE ~RecoveryElapsed
            BY <1>2, <3>2 DEF AdmitProbe, CheckedState, CheckedFlag, ShortCallInv
        <3>3. QED
            BY <3>1, <3>2
    <2>4. QED
        BY <2>1, <2>2, <2>3 DEF Phase
<1>3. CASE Reject
    BY <1>3 DEF Reject, ShortCallInv
<1>4. ASSUME NEW c \in Calls, End(c), state' = "half_open" => state = "half_open"
      PROVE  ProbeHolds'
    <2>1. /\ phase[c] # "idle" /\ phase' = [phase EXCEPT ![c] = "idle"]
          /\ probeInFlight' = (probeInFlight /\ phase[c] # "probe")
        BY <1>4 DEF End
    <2>2. phase \in [Calls -> Phase]
        BY DEF ShortCallInv, IInv, TypeOK
    <2>3. \A d \in Calls : phase'[d] # "probe"
        BY <2>1, <2>2 DEF ShortCallInv, Phase
    <2>4. QED
        BY <1>4, <2>1, <2>2, <2>3 DEF ShortCallInv, Phase
<1>5. ASSUME NEW c \in Calls, CallSucceeds(c) PROVE ProbeHolds'
    BY <1>4, <1>5 DEF CallSucceeds
<1>6. ASSUME NEW c \in Calls, CallFails(c) PROVE ProbeHolds'
    BY <1>4, <1>6 DEF CallFails
<1>7. ASSUME NEW c \in Calls, CallEndsUncounted(c) PROVE ProbeHolds'
    BY <1>4, <1>7 DEF CallEndsUncounted
<1>8. CASE Tick
    BY <1>8 DEF Tick, breaker, ShortCallInv
<1>9. CASE UNCHANGED vars
    BY <1>9 DEF vars, breaker, ShortCallInv
<1>10. QED
    BY <1>1, <1>2, <1>3, <1>5, <1>6, <1>7, <1>8, <1>9 DEF Next

\* "one probe is allowed through" holds, and the probe is alone, as long as no
\* call can outlive the recovery time; nothing in the code enforces that.
THEOREM ProbeAlone == CallTimeout < Recovery => (Spec => []ProbeRunsAlone)
<1> SUFFICES ASSUME CallTimeout < Recovery PROVE Spec => []ProbeRunsAlone
    OBVIOUS
<1>1. Init => ShortCallInv
    BY InitIInv DEF Init, ShortCallInv, ProbeRunsAlone, Probing, InFlight
<1>2. ShortCallInv /\ [Next]_vars => ShortCallInv'
    BY ShortCallStep
<1>3. ShortCallInv => ProbeRunsAlone
    BY DEF ShortCallInv
<1>4. QED
    BY <1>1, <1>2, <1>3, PTL DEF Spec

-----------------------------------------------------------------------------
(* The breaker implements what it promises the backend *)

\* The calls in flight: what `running` stands for in Breaker.
Running == {c \in Calls : InFlight(c)}

\* A probe is admitted to an idle backend.
LEMMA ProbeFindsIdle ==
    ASSUME CallTimeout < Recovery, ShortCallInv, NEW c \in Calls, AdmitProbe(c)
    PROVE  \A d \in Calls : ~InFlight(d)
<1>1. CASE RecoveryElapsed
    BY <1>1, DrainedWhenRecovered DEF ShortCallInv
<1>2. CASE ~RecoveryElapsed
    <2>1. state = "half_open" /\ ~probeInFlight
        BY <1>2 DEF AdmitProbe, CheckedState, CheckedFlag
    <2>2. QED
        BY <2>1 DEF ShortCallInv
<1>3. QED
    BY <1>1, <1>2

\* What entering and leaving call() do to the set of calls in flight.
LEMMA BeginRuns ==
    ASSUME TypeOK, NEW c \in Calls, NEW branch \in {"normal", "probe"}, Begin(c, branch)
    PROVE  c \notin Running /\ Running' = Running \cup {c}
BY DEF TypeOK, Begin, Running, InFlight

LEMMA EndStops ==
    ASSUME TypeOK, NEW c \in Calls, End(c)
    PROVE  c \in Running /\ Running' = Running \ {c}
BY DEF TypeOK, End, Running, InFlight

LEMMA StepSimulates ==
    ASSUME CallTimeout < Recovery, ShortCallInv, [Next]_vars
    PROVE  [Abstract!Next]_(Abstract!vars)
<1> USE DEF Running
<1>0. TypeOK
    BY DEF ShortCallInv, IInv
<1>1. ASSUME NEW c \in Calls, Admit(c) PROVE Abstract!Admit(c)
    <2>1. state = "closed" /\ UNCHANGED <<now, state, openedAt>>
        BY <1>1 DEF Admit, CheckedState
    <2>2. c \notin Running /\ Running' = Running \cup {c}
        BY <1>0, <1>1, BeginRuns DEF Admit
    <2>3. QED
        BY <2>1, <2>2 DEF Abstract!Admit
<1>2. ASSUME NEW c \in Calls, AdmitProbe(c) PROVE Abstract!Probe(c)
    <2>1. Running = {}
        BY <1>2, ProbeFindsIdle
    <2>2. Running' = {c}
        BY <1>0, <1>2, <2>1, BeginRuns DEF AdmitProbe
    <2>3. \/ state = "open" /\ now >= openedAt + Recovery
          \/ state = "half_open"
        BY <1>2 DEF AdmitProbe, CheckedState, RecoveryElapsed
    <2>4. state' = "half_open" /\ UNCHANGED <<now, openedAt>>
        BY <1>2 DEF AdmitProbe
    <2>5. QED
        BY <2>1, <2>2, <2>3, <2>4 DEF Abstract!Probe
<1>3. CASE Reject
    BY <1>3 DEF Reject, Abstract!vars, InFlight
<1>4. ASSUME NEW c \in Calls, CallSucceeds(c) PROVE Abstract!Heal(c) \/ Abstract!Leave(c)
    <2>1. c \in Running /\ Running' = Running \ {c} /\ UNCHANGED <<now, openedAt>>
        BY <1>0, <1>4, EndStops DEF CallSucceeds, End
    <2>2. \/ state = "half_open" /\ state' = "closed"
          \/ state' = state
        BY <1>4 DEF CallSucceeds
    <2>3. QED
        BY <2>1, <2>2 DEF Abstract!Heal, Abstract!Leave
<1>5. ASSUME NEW c \in Calls, CallFails(c) PROVE Abstract!Trip(c) \/ Abstract!Leave(c)
    <2>1. c \in Running /\ Running' = Running \ {c} /\ UNCHANGED now
        BY <1>0, <1>5, EndStops DEF CallFails, End
    <2>2. \/ state' = "open" /\ openedAt' = now
          \/ state' = state /\ openedAt' = openedAt
        BY <1>5 DEF CallFails
    <2>3. QED
        BY <2>1, <2>2 DEF Abstract!Trip, Abstract!Leave
<1>6. ASSUME NEW c \in Calls, CallEndsUncounted(c) PROVE Abstract!Leave(c)
    <2>1. c \in Running /\ Running' = Running \ {c} /\ UNCHANGED <<now, state, openedAt>>
        BY <1>0, <1>6, EndStops DEF CallEndsUncounted, End
    <2>2. QED
        BY <2>1 DEF Abstract!Leave
<1>7. CASE Tick
    BY <1>7 DEF Tick, breaker, Abstract!Tick, Abstract!Next, InFlight
<1>8. CASE UNCHANGED vars
    BY <1>8 DEF vars, breaker, Abstract!vars, InFlight
<1>9. QED
    BY <1>1, <1>2, <1>3, <1>4, <1>5, <1>6, <1>7, <1>8 DEF Next, Abstract!Next

\* The breaker implements Breaker, as long as no call can outlive the recovery
\* time: an open breaker lets nothing through, and a half-open one a single
\* call, on an idle backend, whose success alone closes it.
THEOREM BreakerImplemented == CallTimeout < Recovery => (Spec => ImplementsBreaker)
<1> SUFFICES ASSUME CallTimeout < Recovery PROVE Spec => ImplementsBreaker
    OBVIOUS
<1>1. Init => ShortCallInv
    BY InitIInv DEF Init, ShortCallInv, ProbeRunsAlone, Probing, InFlight
<1>2. Init => Abstract!Init
    BY DEF Init, Abstract!Init, InFlight
<1>3. ShortCallInv /\ [Next]_vars => ShortCallInv'
    BY ShortCallStep
<1>4. ShortCallInv /\ [Next]_vars => [Abstract!Next]_(Abstract!vars)
    BY StepSimulates
<1>5. QED
    BY <1>1, <1>2, <1>3, <1>4, PTL DEF Spec, ImplementsBreaker, Abstract!Spec
=============================================================================
