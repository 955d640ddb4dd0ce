--------------------------- MODULE DispatchProofs ---------------------------
(***************************************************************************)
(* Proofs of Dispatch's safety properties, for any set of calls, any       *)
(* number of attempts and any setting of the breaker.                      *)
(***************************************************************************)
EXTENDS Dispatch, TLAPS

\* The types of what Dispatch adds to its breaker.
CallsTyped ==
    /\ tool \in Tool
    /\ approval \in {"none", "pending", "approved", "denied"}
    /\ warm \in BOOLEAN
    /\ at \in [Calls -> At]
    /\ attempts \in [Calls -> 0..MaxAttempts]
    /\ effects \in [Calls -> 0..MaxAttempts]
    /\ landed \in [Calls -> BOOLEAN]
    /\ last \in [Calls -> [outcome : {"none", "result", "error", "cancelled"},
                           audit : {"none", "ok", "error"}]]
    /\ consent \in BOOLEAN

\* What the position of a call says of its counters: the backend applied at most
\* one write per attempt, and none yet for an attempt that has not landed.
Counted(c) ==
    /\ at[c] \in {"idle", "quota", "cache", "missed", "run", "release"} =>
          attempts[c] = 0 /\ ~landed[c]
    /\ at[c] \in {"quota", "cache", "missed", "run"} => effects[c] = 0
    /\ at[c] = "attempt" =>
          /\ effects[c] <= attempts[c]
          /\ ~landed[c] => effects[c] < attempts[c]
    /\ at[c] = "backoff" => effects[c] <= attempts[c] /\ attempts[c] < MaxAttempts

\* A destructive call makes one attempt: it never backs off for a second.
OneAttempt(c) ==
    Destructive => /\ at[c] # "backoff"
                   /\ attempts[c] <= 1
                   /\ effects[c] <= 1

\* An audit record is written, an error one only without a result.
Fits(how) == how.audit # "none" /\ (how.audit = "error" => how.outcome = "error")

\* A dispatch that releases its lock knows its end already.
Told(c) == at[c] = "release" => Fits(last[c])

\* The inductive invariant of the calls.
CallsInv ==
    /\ CallsTyped
    /\ \A c \in Calls : Counted(c) /\ OneAttempt(c) /\ Told(c)
    /\ SlotsMatch

\* The record and the history agree.
ConsentInv == approval = "approved" => consent

IInv == B!TypeOK /\ CallsInv /\ ConsentInv

-----------------------------------------------------------------------------
(* The breaker inside the pipeline *)

\* Every step of the pipeline is one of the breaker or leaves it alone.
LEMMA StepDrives == [Next]_vars => [B!Next]_(B!vars)
<1> USE DEF breakerVars, B!vars, B!breaker, B!Next
<1>1. SUFFICES ASSUME [Next]_vars PROVE [B!Next]_(B!vars)
    OBVIOUS
<1>2. ASSUME NEW c \in Calls,
             Refuse(c) \/ Receive(c) \/ RateLimited(c) \/ Held(c) \/ Pass(c)
      PROVE  UNCHANGED B!vars
    BY <1>2 DEF Refuse, Receive, RateLimited, Held, Pass
<1>3. ASSUME NEW c \in Calls,
             CacheHit(c) \/ CacheMiss(c) \/ Compute(c) \/ Stored(c)
             \/ Released(c) \/ CacheFails(c)
      PROVE  UNCHANGED B!vars
    BY <1>3 DEF CacheHit, CacheMiss, Compute, Stored, Released, CacheFails
<1>4. ASSUME NEW c \in Calls, Enter(c) \/ ShortCircuit(c) PROVE B!Next
    BY <1>4 DEF Enter, ShortCircuit
<1>5. ASSUME NEW c \in Calls, AttemptSucceeds(c) \/ AttemptFails(c) \/ AttemptRejected(c)
      PROVE  B!Next
    BY <1>5 DEF AttemptSucceeds, AttemptFails, AttemptRejected
<1>6. ASSUME NEW c \in Calls, Apply(c) \/ BackOff(c) \/ Retry(c) PROVE UNCHANGED B!vars
    BY <1>6 DEF Apply, BackOff, Retry
<1>7. ASSUME NEW c \in Calls, TimedOut(c) PROVE B!Next
    BY <1>7 DEF TimedOut
<1>8. ASSUME NEW c \in Calls, Cancelled(c) PROVE B!Next \/ UNCHANGED B!vars
    BY <1>8 DEF Cancelled
<1>9. ASSUME \/ \E d \in {"approved", "denied"} : Decide(d)
             \/ ExpireApproval \/ Cool
      PROVE  UNCHANGED B!vars
    BY <1>9 DEF Decide, ExpireApproval, Cool
<1>10. ASSUME Tick PROVE B!Next
    BY <1>10 DEF Tick
<1>11. ASSUME UNCHANGED vars PROVE UNCHANGED B!vars
    BY <1>11 DEF vars
<1>12. QED
    BY <1>1, <1>2, <1>3, <1>4, <1>5, <1>6, <1>7, <1>8, <1>9, <1>10, <1>11 DEF Next

\* Pruning leaves a suffix of the deque.
LEMMA PruneShortens ==
    ASSUME B!TypeOK, B!PruneFailures(failures)
    PROVE  failures' \in Seq(Nat) /\ Len(failures') <= Len(failures)
<1>1. PICK k \in 0..Len(failures) : failures' = SubSeq(failures, k + 1, Len(failures))
    BY DEF B!PruneFailures
<1>2. failures' \in Seq(Nat) /\ Len(failures') = Len(failures) - k
    BY <1>1 DEF B!TypeOK
<1>3. QED
    BY <1>2 DEF B!TypeOK

LEMMA BreakerEndTyped ==
    ASSUME B!TypeOK, NEW c \in Calls, B!End(c)
    PROVE  /\ now' \in Nat /\ probeInFlight' \in BOOLEAN
           /\ phase' \in [Calls -> B!Phase] /\ startedAt' \in [Calls -> Nat]
BY DEF B!TypeOK, B!End, B!Phase

\* The breaker's steps keep its types.
LEMMA BreakerTyped ==
    ASSUME B!TypeOK, [B!Next]_(B!vars)
    PROVE  B!TypeOK'
<1> USE DEF B!TypeOK, B!State, B!Phase
<1>1. ASSUME NEW c \in Calls, B!Admit(c) PROVE B!TypeOK'
    BY <1>1, PruneShortens DEF B!Admit, B!Begin
<1>2. ASSUME NEW c \in Calls, B!AdmitProbe(c) PROVE B!TypeOK'
    BY <1>2, PruneShortens DEF B!AdmitProbe, B!Begin
<1>3. ASSUME B!Reject PROVE B!TypeOK'
    BY <1>3, PruneShortens DEF B!Reject
<1>4. ASSUME NEW c \in Calls, B!CallSucceeds(c) PROVE B!TypeOK'
    <2>1. \/ state' = "closed" /\ failures' = <<>>
          \/ state' = state /\ failures' = failures
        BY <1>4 DEF B!CallSucceeds
    <2>2. B!End(c) /\ openedAt' = openedAt /\ trips' = trips
        BY <1>4 DEF B!CallSucceeds
    <2>3. /\ now' \in Nat /\ probeInFlight' \in BOOLEAN
          /\ phase' \in [Calls -> B!Phase] /\ startedAt' \in [Calls -> Nat]
        BY <2>2, BreakerEndTyped
    <2>4. CASE state' = "closed" /\ failures' = <<>>
        BY <2>2, <2>3, <2>4
    <2>5. CASE state' = state /\ failures' = failures
        BY <2>2, <2>3, <2>5
    <2>6. QED
        BY <2>1, <2>4, <2>5
<1>5. ASSUME NEW c \in Calls, B!CallFails(c) PROVE B!TypeOK'
    <2>1. \/ /\ state' = "open" /\ openedAt' = now
             /\ failures' = <<>> /\ trips' = trips + 1
          \/ /\ failures' = Append(failures, now)
             /\ state' = state /\ openedAt' = openedAt /\ trips' = trips
        BY <1>5 DEF B!CallFails
    <2>2. B!End(c)
        BY <1>5 DEF B!CallFails
    <2>3. /\ now' \in Nat /\ probeInFlight' \in BOOLEAN
          /\ phase' \in [Calls -> B!Phase] /\ startedAt' \in [Calls -> Nat]
        BY <2>2, BreakerEndTyped
    <2>4. CASE /\ state' = "open" /\ openedAt' = now
               /\ failures' = <<>> /\ trips' = trips + 1
        BY <2>3, <2>4
    <2>5. CASE /\ failures' = Append(failures, now)
               /\ state' = state /\ openedAt' = openedAt /\ trips' = trips
        BY <2>3, <2>5
    <2>6. QED
        BY <2>1, <2>4, <2>5
<1>6. ASSUME NEW c \in Calls, B!CallEndsUncounted(c) PROVE B!TypeOK'
    BY <1>6, BreakerEndTyped DEF B!CallEndsUncounted
<1>7. ASSUME B!Tick PROVE B!TypeOK'
    BY <1>7 DEF B!Tick, B!breaker
<1>8. ASSUME UNCHANGED B!vars PROVE B!TypeOK'
    BY <1>8 DEF B!vars, B!breaker
<1>9. QED
    BY <1>1, <1>2, <1>3, <1>4, <1>5, <1>6, <1>7, <1>8 DEF B!Next

-----------------------------------------------------------------------------
(* Every step keeps the invariant of the calls *)

\* What no dispatch touches keeps its type.
Rest == /\ tool' = tool
        /\ approval' \in {"none", "pending", "approved", "denied"}
        /\ warm' \in BOOLEAN /\ consent' \in BOOLEAN

\* A dispatch whose end is settled leaves the breaker, if it was inside.
LEMMA SettleStep ==
    ASSUME B!TypeOK, CallsInv, NEW c \in Calls, NEW where \in {"idle", "release"},
           NEW outcome \in {"result", "error", "cancelled"}, NEW audit \in {"none", "ok", "error"},
           Settle(c, where, outcome, audit), where = "release" => Fits(Ended(outcome, audit)),
           Rest,
           \/ phase' = phase /\ ~Guarded(c)
           \/ phase' = [phase EXCEPT ![c] = "idle"]
    PROVE  CallsInv'
<1> USE AttemptsAssumption
<1>1. CallsTyped'
    BY DEF CallsInv, CallsTyped, Settle, Ended, Rest, At
<1>2. /\ \A d \in Calls : d # c => /\ at'[d] = at[d] /\ attempts'[d] = attempts[d]
                                   /\ landed'[d] = landed[d]
      /\ at'[c] = where /\ attempts'[c] = 0 /\ ~landed'[c] /\ effects' = effects
      /\ tool' = tool
    BY DEF CallsInv, CallsTyped, Settle, Rest
<1>3. \A d \in Calls : Counted(d)' /\ OneAttempt(d)'
    BY <1>2 DEF CallsInv, CallsTyped, Counted, OneAttempt, Destructive
<1>4. \A d \in Calls : Told(d)'
    <2>1. last'[c] = Ended(outcome, audit) /\ \A d \in Calls : d # c => last'[d] = last[d]
        BY DEF CallsInv, CallsTyped, Settle
    <2>2. QED
        BY <1>2, <2>1 DEF CallsInv, Told, Fits
<1>5. SlotsMatch'
    BY <1>2 DEF B!TypeOK, CallsInv, SlotsMatch, Guarded, B!InFlight
<1>6. QED
    BY <1>1, <1>3, <1>4, <1>5 DEF CallsInv

\* A dispatch that returns or raises from where it computes, or from elsewhere.
LEMMA LeaveStep ==
    ASSUME B!TypeOK, CallsInv, NEW c \in Calls,
           NEW outcome \in {"result", "error", "cancelled"}, NEW audit \in {"none", "ok", "error"},
           Leave(c, outcome, audit), Computing(c) => Fits(Ended(outcome, audit)),
           Rest,
           \/ phase' = phase /\ ~Guarded(c)
           \/ phase' = [phase EXCEPT ![c] = "idle"]
    PROVE  CallsInv'
    BY SettleStep DEF Leave, End

\* A dispatch that goes on without an attempt under way.
LEMMA GotoStep ==
    ASSUME B!TypeOK, CallsInv,
           NEW c \in Calls, NEW where \in {"cache", "missed", "run", "backoff", "store", "idle"},
           Goto(c, where), Rest,
           \/ phase' = phase /\ (Guarded(c) <=> where = "backoff")
           \/ phase' = [phase EXCEPT ![c] = "idle"] /\ where = "store",
           where = "backoff" => at[c] = "attempt" /\ MayRetry(c),
           where \in {"cache", "missed", "run"} => at[c] \in {"quota", "cache", "missed"},
           where = "idle" => at[c] = "release"
    PROVE  CallsInv'
<1> USE AttemptsAssumption
<1>1. CallsTyped'
    BY DEF CallsInv, CallsTyped, Goto, Rest, At
<1>2. /\ \A d \in Calls : d # c => at'[d] = at[d]
      /\ at'[c] = where /\ last' = last
      /\ attempts' = attempts /\ landed' = landed /\ effects' = effects /\ tool' = tool
    BY DEF CallsInv, CallsTyped, Goto, Rest
<1>3. \A d \in Calls : Counted(d)' /\ OneAttempt(d)' /\ Told(d)'
    BY <1>2 DEF CallsInv, CallsTyped, Counted, OneAttempt, Told, Destructive, MayRetry
<1>4. SlotsMatch'
    BY <1>2 DEF B!TypeOK, CallsInv, SlotsMatch, Guarded, B!InFlight
<1>5. QED
    BY <1>1, <1>3, <1>4 DEF CallsInv

\* A step that leaves every dispatch where it is.
LEMMA BystanderStep ==
    ASSUME CallsInv, UNCHANGED <<callVars, phase>>, Rest
    PROVE  CallsInv'
<1>1. UNCHANGED <<at, attempts, effects, landed, last, phase, tool>>
    BY DEF callVars, Rest
<1>2. CallsTyped'
    BY <1>1 DEF CallsInv, CallsTyped, Rest
<1>3. \A d \in Calls : Counted(d)' /\ OneAttempt(d)' /\ Told(d)'
    BY <1>1 DEF CallsInv, Counted, OneAttempt, Told, Destructive
<1>4. SlotsMatch'
    BY <1>1 DEF CallsInv, SlotsMatch, Guarded, B!InFlight
<1>5. QED
    BY <1>2, <1>3, <1>4 DEF CallsInv

LEMMA ReceiveStep ==
    ASSUME CallsInv, NEW c \in Calls, Receive(c)
    PROVE  CallsInv'
<1> USE AttemptsAssumption
<1>1. CallsTyped'
    BY DEF CallsInv, CallsTyped, Receive, Ended, At
<1>2. /\ \A d \in Calls : d # c => at'[d] = at[d] /\ effects'[d] = effects[d]
                                   /\ last'[d] = last[d]
      /\ at[c] = "idle" /\ at'[c] = "quota" /\ effects'[c] = 0
      /\ attempts' = attempts /\ landed' = landed /\ tool' = tool /\ phase' = phase
    BY DEF CallsInv, CallsTyped, Receive, breakerVars
<1>3. \A d \in Calls : Counted(d)' /\ OneAttempt(d)'
    BY <1>2 DEF CallsInv, CallsTyped, Counted, OneAttempt, Destructive
<1>4. SlotsMatch'
    BY <1>2 DEF CallsInv, SlotsMatch, Guarded, B!InFlight
<1>5. \A d \in Calls : Told(d)'
    BY <1>2 DEF CallsInv, Told
<1>6. QED
    BY <1>1, <1>3, <1>4, <1>5 DEF CallsInv

LEMMA EnterStep ==
    ASSUME B!TypeOK, CallsInv, NEW c \in Calls, Enter(c)
    PROVE  CallsInv'
<1> USE AttemptsAssumption
<1>1. CallsTyped'
    BY DEF CallsInv, CallsTyped, Enter, At
<1>2. /\ \A d \in Calls : d # c => at'[d] = at[d] /\ attempts'[d] = attempts[d]
      /\ at[c] = "run" /\ at'[c] = "attempt" /\ attempts'[c] = 1
      /\ effects' = effects /\ landed' = landed /\ last' = last /\ tool' = tool
    BY DEF CallsInv, CallsTyped, Enter
<1>3. /\ \A d \in Calls : d # c => phase'[d] = phase[d]
      /\ phase'[c] # "idle"
    BY DEF Enter, B!Admit, B!AdmitProbe, B!Begin, B!TypeOK
<1>4. \A d \in Calls : Counted(d)' /\ OneAttempt(d)'
    BY <1>2 DEF CallsInv, CallsTyped, Counted, OneAttempt, Destructive
<1>5. SlotsMatch'
    BY <1>2, <1>3 DEF CallsInv, SlotsMatch, Guarded, B!InFlight
<1>6. \A d \in Calls : Told(d)'
    BY <1>2 DEF CallsInv, Told
<1>7. QED
    BY <1>1, <1>4, <1>5, <1>6 DEF CallsInv

LEMMA ApplyStep ==
    ASSUME CallsInv, NEW c \in Calls, Apply(c)
    PROVE  CallsInv'
<1>1. /\ at[c] = "attempt" /\ ~landed[c]
      /\ landed' = [landed EXCEPT ![c] = TRUE] /\ effects' = [effects EXCEPT ![c] = @ + 1]
      /\ at' = at /\ attempts' = attempts /\ last' = last /\ phase' = phase
      /\ tool' = tool /\ approval' = approval /\ warm' = warm /\ consent' = consent
    BY DEF Apply, breakerVars
<1>2. /\ effects[c] < attempts[c]
      /\ effects[c] \in 0..MaxAttempts /\ attempts[c] \in 0..MaxAttempts
    BY <1>1 DEF CallsInv, CallsTyped, Counted
<1>3. CallsTyped'
    BY <1>1, <1>2, AttemptsAssumption DEF CallsInv, CallsTyped
<1>4. /\ \A d \in Calls : d # c => effects'[d] = effects[d] /\ landed'[d] = landed[d]
      /\ effects'[c] = effects[c] + 1 /\ landed'[c]
    BY <1>1 DEF CallsInv, CallsTyped
<1>5. \A d \in Calls : Counted(d)' /\ OneAttempt(d)'
    <2>1. SUFFICES ASSUME NEW d \in Calls PROVE Counted(d)' /\ OneAttempt(d)'
        OBVIOUS
    <2>2. Counted(d) /\ OneAttempt(d) /\ OneAttempt(c)
        BY DEF CallsInv
    <2>3. CASE d # c
        BY <1>1, <1>4, <2>2, <2>3 DEF Counted, OneAttempt, Destructive
    <2>4. CASE d = c
        BY <1>1, <1>2, <1>4, <2>2, <2>4, AttemptsAssumption DEF Counted, OneAttempt, Destructive
    <2>5. QED
        BY <2>3, <2>4
<1>6. SlotsMatch'
    BY <1>1 DEF CallsInv, SlotsMatch, Guarded, B!InFlight
<1>7. \A d \in Calls : Told(d)'
    BY <1>1 DEF CallsInv, Told
<1>8. QED
    BY <1>3, <1>5, <1>6, <1>7 DEF CallsInv

LEMMA RetryStep ==
    ASSUME CallsInv, NEW c \in Calls, Retry(c)
    PROVE  CallsInv'
<1>1. /\ at[c] = "backoff" /\ at' = [at EXCEPT ![c] = "attempt"]
      /\ attempts' = [attempts EXCEPT ![c] = @ + 1] /\ landed' = [landed EXCEPT ![c] = FALSE]
      /\ effects' = effects /\ last' = last /\ phase' = phase
      /\ tool' = tool /\ approval' = approval /\ warm' = warm /\ consent' = consent
    BY DEF Retry, breakerVars
<1>2. /\ effects[c] <= attempts[c] /\ attempts[c] < MaxAttempts /\ ~Destructive
      /\ effects[c] \in 0..MaxAttempts /\ attempts[c] \in 0..MaxAttempts
    BY <1>1 DEF CallsInv, CallsTyped, Counted, OneAttempt
<1>3. CallsTyped'
    BY <1>1, <1>2, AttemptsAssumption DEF CallsInv, CallsTyped, At
<1>4. /\ \A d \in Calls : d # c => /\ at'[d] = at[d] /\ attempts'[d] = attempts[d]
                                   /\ landed'[d] = landed[d]
      /\ at'[c] = "attempt" /\ attempts'[c] = attempts[c] + 1 /\ ~landed'[c]
    BY <1>1 DEF CallsInv, CallsTyped
<1>5. \A d \in Calls : Counted(d)' /\ OneAttempt(d)'
    <2>1. SUFFICES ASSUME NEW d \in Calls PROVE Counted(d)' /\ OneAttempt(d)'
        OBVIOUS
    <2>2. Counted(d) /\ OneAttempt(d)
        BY DEF CallsInv
    <2>3. CASE d # c
        BY <1>1, <1>4, <2>2, <2>3 DEF Counted, OneAttempt, Destructive
    <2>4. CASE d = c
        BY <1>1, <1>2, <1>4, <2>4, AttemptsAssumption DEF Counted, OneAttempt, Destructive
    <2>5. QED
        BY <2>3, <2>4
<1>6. SlotsMatch'
    BY <1>1, <1>4 DEF CallsInv, SlotsMatch, Guarded, B!InFlight
<1>7. \A d \in Calls : Told(d)'
    BY <1>1, <1>4 DEF CallsInv, Told
<1>8. QED
    BY <1>3, <1>5, <1>6, <1>7 DEF CallsInv

LEMMA InitIInv == Init => IInv
<1> SUFFICES ASSUME Init PROVE IInv
    OBVIOUS
<1>1. B!TypeOK
    <2>1. state \in B!State /\ probeInFlight \in BOOLEAN
        BY DEF Init, B!Init, B!State
    <2>2. now \in Nat /\ openedAt \in Nat /\ trips \in Nat /\ failures \in Seq(Nat)
        BY DEF Init, B!Init
    <2>3. phase \in [Calls -> B!Phase] /\ startedAt \in [Calls -> Nat]
        BY DEF Init, B!Init, B!Phase
    <2>4. QED
        BY <2>1, <2>2, <2>3 DEF B!TypeOK
<1>2. CallsTyped
    <2>1. /\ tool \in Tool /\ warm \in BOOLEAN /\ consent \in BOOLEAN
          /\ approval \in {"none", "pending", "approved", "denied"}
        BY DEF Init
    <2>2. at \in [Calls -> At] /\ landed \in [Calls -> BOOLEAN]
        BY DEF Init, At
    <2>3. attempts \in [Calls -> 0..MaxAttempts] /\ effects \in [Calls -> 0..MaxAttempts]
        BY AttemptsAssumption DEF Init
    <2>4. last \in [Calls -> [outcome : {"none", "result", "error", "cancelled"},
                             audit : {"none", "ok", "error"}]]
        BY DEF Init, Ended
    <2>5. QED
        BY <2>1, <2>2, <2>3, <2>4 DEF CallsTyped
<1>3. \A c \in Calls : Counted(c) /\ OneAttempt(c) /\ Told(c)
    <2>1. \A c \in Calls : at[c] = "idle" /\ attempts[c] = 0 /\ effects[c] = 0
        BY DEF Init
    <2>2. \A c \in Calls : ~landed[c]
        BY DEF Init
    <2>3. \A c \in Calls : Counted(c)
        BY <2>1, <2>2 DEF Counted
    <2>4. \A c \in Calls : OneAttempt(c)
        BY <2>1 DEF OneAttempt
    <2>5. \A c \in Calls : Told(c)
        BY <2>1 DEF Told
    <2>6. QED
        BY <2>3, <2>4, <2>5
<1>4. SlotsMatch
    BY DEF Init, B!Init, SlotsMatch, Guarded, B!InFlight
<1>5. QED
    BY <1>1, <1>2, <1>3, <1>4 DEF Init, IInv, CallsInv, ConsentInv

LEMMA NextCallsInv ==
    ASSUME B!TypeOK, CallsInv, [Next]_vars
    PROVE  CallsInv'
<1> USE DEF breakerVars
<1>1. /\ approval \in {"none", "pending", "approved", "denied"}
      /\ warm \in BOOLEAN /\ consent \in BOOLEAN
    BY DEF CallsInv, CallsTyped
<1>2. ASSUME NEW c \in Calls, Refuse(c) \/ RateLimited(c) \/ Held(c) PROVE CallsInv'
    BY <1>1, <1>2, LeaveStep DEF Refuse, RateLimited, Held, Rest, Guarded, Computing, Leave
<1>3. ASSUME NEW c \in Calls, Receive(c) PROVE CallsInv'
    BY <1>3, ReceiveStep
<1>4. ASSUME NEW c \in Calls, Pass(c) PROVE CallsInv'
    BY <1>1, <1>4, GotoStep DEF Pass, Rest, Guarded
<1>5. ASSUME \/ \E d \in {"approved", "denied"} : Decide(d)
             \/ ExpireApproval \/ Cool \/ UNCHANGED vars
      PROVE  CallsInv'
    BY <1>1, <1>5, BystanderStep DEF Decide, ExpireApproval, Cool, vars, Rest
<1>6. ASSUME NEW c \in Calls, CacheHit(c) \/ Stored(c) \/ CacheFails(c) PROVE CallsInv'
    <2>1. Fits(Ended("result", "ok")) /\ Fits(Ended("error", "ok"))
        BY DEF Fits, Ended
    <2>2. CASE CacheHit(c) \/ Stored(c)
        BY <1>1, <2>1, <2>2, LeaveStep DEF CacheHit, Stored, Rest, Guarded, Leave
    <2>3. CASE CacheFails(c)
        BY <1>1, <2>1, <2>3, LeaveStep DEF CacheFails, Rest, Guarded
    <2>4. QED
        BY <1>6, <2>2, <2>3
<1>7. ASSUME NEW c \in Calls, CacheMiss(c) \/ Compute(c) \/ Released(c) PROVE CallsInv'
    BY <1>1, <1>7, GotoStep DEF CacheMiss, Compute, Released, Rest, Guarded
<1>8. ASSUME NEW c \in Calls, Enter(c) PROVE CallsInv'
    BY <1>8, EnterStep
<1>9. ASSUME NEW c \in Calls, ShortCircuit(c) PROVE CallsInv'
    <2>1. Fits(Ended("error", "error"))
        BY DEF Fits, Ended
    <2>2. QED
        BY <1>1, <1>9, <2>1, LeaveStep DEF ShortCircuit, B!Reject, Rest, Guarded
<1>10. ASSUME NEW c \in Calls, Apply(c) PROVE CallsInv'
    BY <1>10, ApplyStep
<1>11. ASSUME NEW c \in Calls, AttemptSucceeds(c) PROVE CallsInv'
    <2>1. phase' = [phase EXCEPT ![c] = "idle"] /\ Rest
        BY <1>1, <1>11 DEF AttemptSucceeds, B!CallSucceeds, B!End, Rest
    <2>2. CASE Cacheable
        BY <1>11, <2>1, <2>2, GotoStep DEF AttemptSucceeds
    <2>3. CASE ~Cacheable
        <3>1. Leave(c, "result", "ok") /\ Fits(Ended("result", "ok"))
            BY <1>11, <2>3 DEF AttemptSucceeds, Leave, Fits, Ended
        <3>2. QED
            BY <2>1, <3>1, LeaveStep
    <2>4. QED
        BY <2>2, <2>3
<1>12. ASSUME NEW c \in Calls, AttemptFails(c) \/ AttemptRejected(c) \/ TimedOut(c) PROVE CallsInv'
    <2>1. phase' = [phase EXCEPT ![c] = "idle"] /\ Rest /\ Leave(c, "error", "error")
        BY <1>1, <1>12 DEF AttemptFails, AttemptRejected, TimedOut, Rest,
                           B!CallFails, B!CallEndsUncounted, B!End
    <2>2. Fits(Ended("error", "error"))
        BY DEF Fits, Ended
    <2>3. QED
        BY <2>1, <2>2, LeaveStep
<1>13. ASSUME NEW c \in Calls, BackOff(c) PROVE CallsInv'
    BY <1>1, <1>13, GotoStep DEF BackOff, Rest, Guarded
<1>14. ASSUME NEW c \in Calls, Retry(c) PROVE CallsInv'
    BY <1>14, RetryStep
<1>15. ASSUME NEW c \in Calls, Cancelled(c) PROVE CallsInv'
    <2>1. Rest /\ Leave(c, "cancelled", IF Observed(c) THEN "ok" ELSE "none")
        BY <1>1, <1>15 DEF Cancelled, Rest
    <2>2. \/ phase' = phase /\ ~Guarded(c)
          \/ phase' = [phase EXCEPT ![c] = "idle"]
        BY <1>15 DEF Cancelled, B!CallEndsUncounted, B!End
    <2>3. Computing(c) => Observed(c)
        BY DEF Computing, Guarded, Observed
    <2>4. Fits(Ended("cancelled", "ok"))
        BY DEF Fits, Ended
    <2>5. QED
        BY <2>1, <2>2, <2>3, <2>4, LeaveStep
<1>16. CASE Tick
    BY <1>1, <1>16, BystanderStep DEF Tick, B!Tick, Rest
<1>17. QED
    BY <1>2, <1>3, <1>4, <1>5, <1>6, <1>7, <1>8, <1>9, <1>10, <1>11, <1>12, <1>13,
       <1>14, <1>15, <1>16 DEF Next

LEMMA NextIInv == IInv /\ [Next]_vars => IInv'
<1> SUFFICES ASSUME IInv, [Next]_vars PROVE IInv'
    OBVIOUS
<1>1. B!TypeOK'
    BY StepDrives, BreakerTyped DEF IInv
<1>2. CallsInv'
    BY NextCallsInv DEF IInv
<1>3. ConsentInv'
    <2>1. CASE UNCHANGED <<approval, consent>>
        BY <2>1 DEF IInv, ConsentInv
    <2>2. ASSUME NEW c \in Calls, Held(c) PROVE ConsentInv'
        BY <2>2 DEF Held, IInv, ConsentInv
    <2>3. ASSUME NEW d \in {"approved", "denied"}, Decide(d) PROVE ConsentInv'
        BY <2>3 DEF Decide, ConsentInv
    <2>4. ASSUME ExpireApproval PROVE ConsentInv'
        BY <2>4 DEF ExpireApproval, ConsentInv
    <2>5. QED
        BY <2>1, <2>2, <2>3, <2>4
           DEF Next, vars, Refuse, Receive, RateLimited, Pass, CacheHit, CacheMiss, Compute,
               Stored, Released, CacheFails, Cool, Enter, ShortCircuit, Apply, AttemptSucceeds,
               AttemptFails, AttemptRejected, BackOff, Retry, TimedOut, Cancelled, Tick
<1>4. QED
    BY <1>1, <1>2, <1>3 DEF IInv

LEMMA Invariance == Spec => []IInv
<1>1. QED
    BY InitIInv, NextIInv, PTL DEF Spec

-----------------------------------------------------------------------------
(* The life of a dispatch *)

\* Where a dispatch may go in one step: to and fro before the gates, past them, on
\* behind them, or to its end with an audit record that fits its outcome.
Moved(c) ==
    \/ ~Observed(c) /\ ~Observed(c)'
    \/ Pass(c)
    \/ Observed(c) /\ at'[c] # "idle"
    \/ at'[c] = "idle" /\ Fits(last'[c])

LEMMA Moves ==
    ASSUME CallsInv, [Next]_vars, NEW c \in Calls, at'[c] # at[c]
    PROVE  Moved(c)
<1> USE DEF Moved
<1>1. /\ at \in [Calls -> At]
      /\ last \in [Calls -> [outcome : {"none", "result", "error", "cancelled"},
                             audit : {"none", "ok", "error"}]]
    BY DEF CallsInv, CallsTyped
<1>2. ASSUME NEW d \in Calls,
             NEW outcome \in {"result", "error", "cancelled"}, NEW audit \in {"ok", "error"},
             Leave(d, outcome, audit), audit = "error" => outcome = "error"
      PROVE  Moved(c)
    <2>1. d = c
        BY <1>1, <1>2 DEF Leave, End, Settle
    <2>2. Fits(last'[c])
        BY <1>1, <1>2, <2>1 DEF Leave, End, Settle, Fits, Ended
    <2>3. at'[c] = "idle" \/ (at'[c] = "release" /\ Observed(c))
        BY <1>1, <1>2, <2>1 DEF Leave, End, Settle, Computing, Guarded, Observed
    <2>4. QED
        BY <2>2, <2>3
<1>3. ASSUME NEW d \in Calls, at[d] \in {"idle", "quota"}, End(d, "error", "none")
      PROVE  Moved(c)
    BY <1>1, <1>3 DEF End, Settle, Observed
<1>4. ASSUME NEW d \in Calls,
             Goto(d, "missed") \/ Goto(d, "run") \/ Goto(d, "store") \/ Goto(d, "backoff"),
             at[d] \notin {"idle", "quota"}
      PROVE  Moved(c)
    BY <1>1, <1>4 DEF Goto, Observed
<1>5. ASSUME NEW d \in Calls, Refuse(d) \/ RateLimited(d) \/ Held(d) PROVE Moved(c)
    BY <1>3, <1>5 DEF Refuse, RateLimited, Held
<1>6. ASSUME NEW d \in Calls, Receive(d) PROVE Moved(c)
    BY <1>1, <1>6 DEF Receive, Observed
<1>7. ASSUME NEW d \in Calls, Pass(d) PROVE Moved(c)
    <2>1. d = c
        BY <1>1, <1>7 DEF Pass, Goto
    <2>2. QED
        BY <1>7, <2>1
<1>8. ASSUME NEW d \in Calls, CacheHit(d) \/ Stored(d) \/ CacheFails(d) PROVE Moved(c)
    BY <1>2, <1>8 DEF CacheHit, Stored, CacheFails, Leave
<1>9. ASSUME NEW d \in Calls, CacheMiss(d) \/ Compute(d) \/ BackOff(d) PROVE Moved(c)
    BY <1>4, <1>9 DEF CacheMiss, Compute, BackOff
<1>10. ASSUME NEW d \in Calls, Enter(d) \/ Retry(d) PROVE Moved(c)
    BY <1>1, <1>10 DEF Enter, Retry, Observed
<1>11. ASSUME NEW d \in Calls,
              ShortCircuit(d) \/ AttemptFails(d) \/ AttemptRejected(d) \/ TimedOut(d)
       PROVE  Moved(c)
    BY <1>2, <1>11 DEF ShortCircuit, AttemptFails, AttemptRejected, TimedOut
<1>12. ASSUME NEW d \in Calls, AttemptSucceeds(d) PROVE Moved(c)
    BY <1>2, <1>4, <1>12 DEF AttemptSucceeds, Leave
<1>13. ASSUME NEW d \in Calls, Cancelled(d) PROVE Moved(c)
    <2>1. CASE Observed(d)
        BY <1>2, <1>13, <2>1 DEF Cancelled
    <2>2. CASE ~Observed(d)
        BY <1>1, <1>13, <2>2 DEF Cancelled, Leave, End, Settle, Computing, Guarded, Observed
    <2>3. QED
        BY <2>1, <2>2
<1>14. ASSUME \/ \E d \in {"approved", "denied"} : Decide(d)
              \/ ExpireApproval \/ Cool \/ Tick \/ UNCHANGED vars
              \/ \E d \in Calls : Apply(d)
       PROVE  Moved(c)
    BY <1>14 DEF Decide, ExpireApproval, Cool, Tick, Apply, vars, callVars
<1>15. ASSUME NEW d \in Calls, Released(d) PROVE Moved(c)
    BY <1>1, <1>15 DEF Released, Goto, CallsInv, Told
<1>16. QED
    BY <1>5, <1>6, <1>7, <1>8, <1>9, <1>10, <1>11, <1>12, <1>13, <1>14, <1>15 DEF Next

-----------------------------------------------------------------------------
(* The theorems *)

\* The fields of the pipeline and of its breaker keep their types; in particular
\* no dispatch makes more attempts, or reaches the backend more often, than
\* retry_max_attempts.
THEOREM TypeCorrect == Spec => []TypeOK
<1>1. IInv => TypeOK
    BY DEF IInv, CallsInv, CallsTyped, TypeOK
<1>2. QED
    BY <1>1, Invariance, PTL

\* A destructive call reaches the backend at most once per dispatch: the retry
\* loop never runs it again, and it is counted when the attempt lands.
THEOREM WritesHappenOnce == Spec => []WriteAtMostOnce
<1>1. IInv => WriteAtMostOnce
    BY DEF IInv, CallsInv, OneAttempt, WriteAtMostOnce
<1>2. QED
    BY <1>1, Invariance, PTL

\* A call is in flight in the breaker exactly while its dispatch is inside
\* breaker.call: every error, timeout and cancellation gives the slot back.
THEOREM SlotsAreReturned == Spec => []SlotsMatch
<1>1. IInv => SlotsMatch
    BY DEF IInv, CallsInv
<1>2. QED
    BY <1>1, Invariance, PTL

\* A destructive call passes ApprovalGate.enforce only after an approval that no
\* later denial revoked.
THEOREM ConsentBeforeWrites == Spec => WritesNeedConsent
<1>1. IInv /\ [Next]_vars =>
          [ \A c \in Calls : Destructive /\ ~Observed(c) /\ Observed(c)' => consent ]_vars
    <2>1. SUFFICES ASSUME IInv, [Next]_vars, NEW c \in Calls,
                          Destructive, ~Observed(c), Observed(c)'
                   PROVE  consent
        OBVIOUS
    <2>2. at'[c] # at[c] /\ at'[c] # "idle"
        BY <2>1 DEF Observed
    <2>3. Pass(c)
        BY <2>1, <2>2, Moves DEF Moved, IInv
    <2>4. QED
        BY <2>1, <2>3 DEF Pass, IInv, ConsentInv
<1>2. QED
    BY <1>1, Invariance, PTL DEF Spec, WritesNeedConsent

\* Whatever ends a dispatch that passed the gates, the finally clause of
\* _run_observed leaves an audit record, an error one for an error only.
THEOREM EndsAreAudited == Spec => Audited
<1>1. IInv /\ [Next]_vars =>
          [ \A c \in Calls : Observed(c) /\ at'[c] = "idle" =>
              /\ last'[c].audit # "none"
              /\ last'[c].audit = "error" => last'[c].outcome = "error" ]_vars
    <2>1. SUFFICES ASSUME IInv, [Next]_vars, NEW c \in Calls, Observed(c), at'[c] = "idle"
                   PROVE  /\ last'[c].audit # "none"
                          /\ last'[c].audit = "error" => last'[c].outcome = "error"
        OBVIOUS
    <2>2. Moved(c) /\ at'[c] # at[c]
        BY <2>1, Moves DEF Observed, IInv
    <2>3. ~Pass(c)
        BY <2>1 DEF Pass, Observed
    <2>4. QED
        BY <2>1, <2>2, <2>3 DEF Moved, Fits
<1>2. QED
    BY <1>1, Invariance, PTL DEF Spec, Audited

\* Whatever the retry loop absorbs, the breaker counts a dispatch as a failure
\* once, when its last attempt failed.
THEOREM FailuresCountedOnce == Spec => FailuresAreExhausted
<1>1. ASSUME IInv, [Next]_vars, Len(failures') > Len(failures) \/ trips' > trips
      PROVE  \E c \in Calls : at[c] = "attempt" /\ ~Guarded(c)' /\ ~MayRetry(c)
    <2>1. B!TypeOK /\ at \in [Calls -> At]
        BY <1>1 DEF IInv, CallsInv, CallsTyped
    <2>2. PICK c \in Calls : AttemptFails(c)
        <3>1. ASSUME B!PruneFailures(failures), UNCHANGED trips PROVE FALSE
            BY <1>1, <2>1, <3>1, PruneShortens DEF B!TypeOK
        <3>2. ASSUME UNCHANGED <<failures, trips>> PROVE FALSE
            BY <1>1, <2>1, <3>2 DEF B!TypeOK
        <3>3. ASSUME NEW c \in Calls, AttemptSucceeds(c) PROVE FALSE
            <4>1. UNCHANGED trips /\ (failures' = <<>> \/ UNCHANGED failures)
                BY <3>3 DEF AttemptSucceeds, B!CallSucceeds
            <4>2. QED
                BY <1>1, <2>1, <4>1 DEF B!TypeOK
        <3>4. ASSUME NEW c \in Calls, Enter(c) \/ ShortCircuit(c) PROVE FALSE
            BY <3>1, <3>4 DEF Enter, ShortCircuit, B!Admit, B!AdmitProbe, B!Reject
        <3>5. ASSUME NEW c \in Calls,
                     \/ Apply(c) \/ AttemptRejected(c) \/ BackOff(c) \/ Retry(c)
                     \/ TimedOut(c) \/ Cancelled(c)
              PROVE  FALSE
            BY <3>2, <3>5 DEF Apply, AttemptRejected, BackOff, Retry, TimedOut, Cancelled,
                              B!CallEndsUncounted, breakerVars
        <3>6. QED
            BY <1>1, <3>2, <3>3, <3>4, <3>5
               DEF Next, vars, breakerVars, Refuse, Receive, RateLimited, Held, Pass, Decide,
                   ExpireApproval, CacheHit, CacheMiss, Compute, Stored, Released,
                   CacheFails, Cool, Tick, B!Tick, B!breaker
    <2>3. QED
        BY <2>1, <2>2 DEF AttemptFails, Leave, End, Settle, Guarded
<1>2. IInv /\ [Next]_vars =>
          [ (Len(failures') > Len(failures) \/ trips' > trips) =>
              \E c \in Calls : at[c] = "attempt" /\ ~Guarded(c)' /\ ~MayRetry(c) ]_vars
    BY <1>1
<1>3. QED
    BY <1>2, Invariance, PTL DEF Spec, FailuresAreExhausted

\* The pipeline drives its breaker as CircuitBreaker says, so the theorems of
\* CircuitBreakerProofs hold of the breaker inside the pipeline.
THEOREM BreakerDriven == Spec => DrivesBreaker
<1>1. Init => B!Init
    BY DEF Init
<1>2. QED
    BY <1>1, StepDrives, PTL DEF Spec, DrivesBreaker, B!Spec
=============================================================================
