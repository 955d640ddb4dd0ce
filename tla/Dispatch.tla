------------------------------ MODULE Dispatch ------------------------------
(***************************************************************************)
(* AtlasServer.dispatch (src/atlas_mcp/server.py): concurrent dispatches   *)
(* of one tool, by one tenant and with the same arguments, through the     *)
(* gates, the cache, the circuit breaker, the retry loop and the backend,  *)
(* to the audit record.  The breaker is CircuitBreaker itself; a dispatch  *)
(* drives it from one of its call slots.                                   *)
(*                                                                         *)
(* What runs between two awaits is one action.  The gate of human approval *)
(* never suspends (server.py:70 gives it the in-process store), so it      *)
(* belongs to the answer of the rate limiter.                              *)
(***************************************************************************)
EXTENDS Naturals, Sequences

CONSTANTS
    Calls, Threshold, Recovery, Window, CallTimeout, MaxTime,  \* as in CircuitBreaker
    MaxAttempts  \* retry_max_attempts

ASSUME AttemptsAssumption == MaxAttempts \in Nat \ {0}

VARIABLES
    now, state, openedAt, failures, probeInFlight, trips, phase, startedAt,
    tool,      \* which kind of tool the calls name
    approval,  \* the approval record of the call's (tenant, tool, args_hash)
    warm,      \* whether the cache holds the call's result
    at,        \* per call: the await its dispatch stands at
    attempts,  \* per call: attempts of the retry loop so far
    effects,   \* per call: how often the backend has applied it
    landed,    \* per call: whether the attempt under way has been applied
    last,      \* per call: how its last dispatch ended and what was audited; set
               \* before the lock is released, and overtaken if that fails
    consent    \* history: the last decision a human took was an approval

B == INSTANCE CircuitBreaker

breakerVars == <<now, state, openedAt, failures, probeInFlight, trips, phase, startedAt>>
callVars == <<at, attempts, effects, landed, last>>
vars == <<breakerVars, callVars, tool, approval, warm, consent>>

\* A cacheable read; s3.put_object; http.fetch with a method that writes.
Tool == {"read", "write", "fetch"}
Destructive == tool = "write"
Cacheable == tool = "read"
Writes == tool # "read"

At == {"idle", "quota", "cache", "missed", "run", "attempt", "backoff", "store", "release"}

\* The dispatches that _run_observed is at work on.
Observed(c) == at[c] \notin {"idle", "quota"}
\* The dispatches inside breaker.call.
Guarded(c) == at[c] \in {"attempt", "backoff"}
\* For a cacheable tool, the dispatches in the compute and the set of get_or_compute.
Computing(c) == Guarded(c) \/ at[c] \in {"run", "store"}

Ended(outcome, audit) == [outcome |-> outcome, audit |-> audit]

TypeOK ==
    /\ B!TypeOK
    /\ tool \in Tool
    /\ approval \in {"none", "pending", "approved", "denied"}
    /\ warm \in BOOLEAN
    /\ at \in [Calls -> At]
    /\ attempts \in [Calls -> 0..MaxAttempts]
    /\ effects \in [Calls -> 0..MaxAttempts]
    /\ landed \in [Calls -> BOOLEAN]
    /\ last \in [Calls -> [outcome : {"none", "result", "error", "cancelled"},
                           audit : {"none", "ok", "error"}]]
    /\ consent \in BOOLEAN

Init ==
    /\ B!Init
    /\ tool \in Tool
    /\ approval = "none"
    /\ warm = FALSE
    /\ at = [c \in Calls |-> "idle"]
    /\ attempts = [c \in Calls |-> 0]
    /\ effects = [c \in Calls |-> 0]
    /\ landed = [c \in Calls |-> FALSE]
    /\ last = [c \in Calls |-> Ended("none", "none")]
    /\ consent = FALSE

-----------------------------------------------------------------------------

Goto(c, where) ==
    /\ at' = [at EXCEPT ![c] = where]
    /\ UNCHANGED <<attempts, effects, landed, last>>

Settle(c, where, outcome, audit) ==
    /\ at' = [at EXCEPT ![c] = where]
    /\ attempts' = [attempts EXCEPT ![c] = 0]
    /\ landed' = [landed EXCEPT ![c] = FALSE]
    /\ last' = [last EXCEPT ![c] = Ended(outcome, audit)]
    /\ UNCHANGED effects

\* The dispatch returns or raises.
End(c, outcome, audit) == Settle(c, "idle", outcome, audit)

\* It does; if it computes under the stampede lock, only after the finally clause
\* of get_or_compute has awaited the release.  (It has no lock if it lost patience.)
Leave(c, outcome, audit) ==
    \/ End(c, outcome, audit)
    \/ Cacheable /\ Computing(c) /\ Settle(c, "release", outcome, audit)

(* Gates *)

\* Unknown tool, invalid arguments, missing scope, policy or host denied.
Refuse(c) ==
    /\ at[c] = "idle"
    /\ End(c, "error", "none")
    /\ UNCHANGED <<breakerVars, tool, approval, warm, consent>>

\* The synchronous checks pass and the rate limiter is asked.
Receive(c) ==
    /\ at[c] = "idle"
    /\ at' = [at EXCEPT ![c] = "quota"]
    /\ effects' = [effects EXCEPT ![c] = 0]
    /\ last' = [last EXCEPT ![c] = Ended("none", "none")]
    /\ UNCHANGED <<breakerVars, attempts, landed, tool, approval, warm, consent>>

RateLimited(c) ==
    /\ at[c] = "quota"
    /\ End(c, "error", "none")
    /\ UNCHANGED <<breakerVars, tool, approval, warm, consent>>

\* ApprovalGate.enforce raises; without a record it leaves a pending one.
Held(c) ==
    /\ at[c] = "quota"
    /\ Destructive /\ approval # "approved"
    /\ approval' = IF approval = "none" THEN "pending" ELSE approval
    /\ End(c, "error", "none")
    /\ UNCHANGED <<breakerVars, tool, warm, consent>>

\* Mutant: only a denial stops the call.
MutantPass(c) ==
    /\ at[c] = "quota"
    /\ Destructive => approval # "denied"
    /\ Goto(c, IF Cacheable THEN "cache" ELSE "run")
    /\ UNCHANGED <<breakerVars, tool, approval, warm, consent>>

Pass(c) ==
    /\ at[c] = "quota"
    /\ Destructive => approval = "approved"
    /\ Goto(c, IF Cacheable THEN "cache" ELSE "run")
    /\ UNCHANGED <<breakerVars, tool, approval, warm, consent>>

\* approve() and deny() find a record in any state and replace the state.
Decide(decision) ==
    /\ approval # "none"
    /\ approval' = decision
    /\ consent' = (decision = "approved")
    /\ UNCHANGED <<breakerVars, callVars, tool, warm>>

\* The record reaches APPROVAL_TTL_SECONDS.
ExpireApproval ==
    /\ approval # "none"
    /\ approval' = "none"
    /\ UNCHANGED <<breakerVars, callVars, tool, warm, consent>>

-----------------------------------------------------------------------------
(* Cache: TwoTierCache, seen from one dispatch *)

\* The first read, or a waiter's next one.
CacheHit(c) ==
    /\ at[c] \in {"cache", "missed"}
    /\ warm
    /\ End(c, "result", "ok")
    /\ UNCHANGED <<breakerVars, tool, approval, warm, consent>>

CacheMiss(c) ==
    /\ at[c] = "cache"
    /\ ~warm
    /\ Goto(c, "missed")
    /\ UNCHANGED <<breakerVars, tool, approval, warm, consent>>

\* The lock is acquired, or patience is over: nobody looks at the cache again.
Compute(c) ==
    /\ at[c] = "missed"
    /\ Goto(c, "run")
    /\ UNCHANGED <<breakerVars, tool, approval, warm, consent>>

Stored(c) ==
    /\ at[c] = "store"
    /\ warm' = TRUE
    /\ Leave(c, "result", "ok")
    /\ UNCHANGED <<breakerVars, tool, approval, consent>>

Released(c) ==
    /\ at[c] = "release"
    /\ Goto(c, "idle")
    /\ UNCHANGED <<breakerVars, tool, approval, warm, consent>>

\* Redis raises: no ToolError, so the audit record keeps its initial status.  While
\* the lock is released, that takes the place of the result or ToolError on its way.
CacheFails(c) ==
    /\ at[c] \in {"cache", "missed", "store", "release"}
    /\ Leave(c, "error", "ok")
    /\ UNCHANGED <<breakerVars, tool, approval, warm, consent>>

\* The entry expires or is invalidated.
Cool ==
    /\ warm
    /\ warm' = FALSE
    /\ UNCHANGED <<breakerVars, callVars, tool, approval, consent>>

-----------------------------------------------------------------------------
(* Breaker, retry loop and backend *)

\* Mutant: the breaker is asked for its state and not given the call to check.
MutantEnter(c) ==
    /\ at[c] = "run"
    /\ state # "open"
    /\ B!Begin(c, "normal")
    /\ at' = [at EXCEPT ![c] = "attempt"]
    /\ attempts' = [attempts EXCEPT ![c] = 1]
    /\ UNCHANGED <<now, state, openedAt, failures, probeInFlight, trips>>
    /\ UNCHANGED <<effects, landed, last, tool, approval, warm, consent>>

Enter(c) ==
    /\ at[c] = "run"
    /\ B!Admit(c) \/ B!AdmitProbe(c)
    /\ at' = [at EXCEPT ![c] = "attempt"]
    /\ attempts' = [attempts EXCEPT ![c] = 1]
    /\ UNCHANGED <<effects, landed, last, tool, approval, warm, consent>>

ShortCircuit(c) ==
    /\ at[c] = "run"
    /\ B!Reject
    /\ Leave(c, "error", "error")
    /\ UNCHANGED <<tool, approval, warm, consent>>

\* The backend applies the write under way.  (If it does so only after the
\* attempt was given up, nobody can tell.)
Apply(c) ==
    /\ at[c] = "attempt"
    /\ Writes /\ ~landed[c]
    /\ landed' = [landed EXCEPT ![c] = TRUE]
    /\ effects' = [effects EXCEPT ![c] = @ + 1]
    /\ UNCHANGED <<breakerVars, at, attempts, last, tool, approval, warm, consent>>

AttemptSucceeds(c) ==
    /\ at[c] = "attempt"
    /\ Writes => landed[c]
    /\ B!CallSucceeds(c)
    /\ IF Cacheable THEN Goto(c, "store") ELSE End(c, "result", "ok")
    /\ UNCHANGED <<tool, approval, warm, consent>>

\* Mutant: one attempt too many.
MutantLastRetry(c) == ~Destructive /\ attempts[c] <= MaxAttempts

\* Mutant: destructive tools are retried as well.
MutantMayRetry(c) == attempts[c] < MaxAttempts

MayRetry(c) == ~Destructive /\ attempts[c] < MaxAttempts

\* A retryable error the retry loop absorbs: the breaker does not see it.
BackOff(c) ==
    /\ at[c] = "attempt"
    /\ MayRetry(c)
    /\ Goto(c, "backoff")
    /\ UNCHANGED <<breakerVars, tool, approval, warm, consent>>

Retry(c) ==
    /\ at[c] = "backoff"
    /\ at' = [at EXCEPT ![c] = "attempt"]
    /\ attempts' = [attempts EXCEPT ![c] = @ + 1]
    /\ landed' = [landed EXCEPT ![c] = FALSE]
    /\ UNCHANGED <<breakerVars, effects, last, tool, approval, warm, consent>>

\* Mutant: the breaker is inside the retry loop and sees every attempt.
MutantAttemptFails(c) ==
    /\ at[c] = "attempt"
    /\ B!CallFails(c)
    /\ Leave(c, "error", "error")
    /\ UNCHANGED <<tool, approval, warm, consent>>

\* A retryable error that leaves the loop and is counted.
AttemptFails(c) ==
    /\ at[c] = "attempt"
    /\ ~MayRetry(c)
    /\ B!CallFails(c)
    /\ Leave(c, "error", "error")
    /\ UNCHANGED <<tool, approval, warm, consent>>

\* A deterministic error, or an exception made one by normalise_exception.
AttemptRejected(c) ==
    /\ at[c] = "attempt"
    /\ B!CallEndsUncounted(c)
    /\ Leave(c, "error", "error")
    /\ UNCHANGED <<tool, approval, warm, consent>>

\* Mutant: the breaker's call goes on after the timeout.
MutantTimedOut(c) ==
    /\ Guarded(c)
    /\ now >= startedAt[c] + CallTimeout
    /\ Leave(c, "error", "error")
    /\ UNCHANGED <<breakerVars, tool, approval, warm, consent>>

\* The ATBA timeout cancels the breaker's call and becomes a ToolError.
TimedOut(c) ==
    /\ Guarded(c)
    /\ now >= startedAt[c] + CallTimeout
    /\ B!CallEndsUncounted(c)
    /\ Leave(c, "error", "error")
    /\ UNCHANGED <<tool, approval, warm, consent>>

-----------------------------------------------------------------------------

\* Mutant: a cancelled dispatch is not audited, as if there were no finally.
MutantCancelled(c) ==
    /\ at[c] # "idle"
    /\ IF Guarded(c) THEN B!CallEndsUncounted(c) ELSE UNCHANGED breakerVars
    /\ Leave(c, "cancelled", "none")
    /\ UNCHANGED <<tool, approval, warm, consent>>

\* The client cancels: CancelledError passes every handler, and the audit
\* record of the finally clause keeps its initial status.
Cancelled(c) ==
    /\ at[c] # "idle"
    /\ IF Guarded(c) THEN B!CallEndsUncounted(c) ELSE UNCHANGED breakerVars
    /\ Leave(c, "cancelled", IF Observed(c) THEN "ok" ELSE "none")
    /\ UNCHANGED <<tool, approval, warm, consent>>

Tick ==
    /\ B!Tick
    /\ UNCHANGED <<callVars, tool, approval, warm, consent>>

Next ==
    \/ \E c \in Calls : Refuse(c) \/ Receive(c) \/ RateLimited(c) \/ Held(c) \/ Pass(c)
    \/ \E d \in {"approved", "denied"} : Decide(d)
    \/ ExpireApproval
    \/ \E c \in Calls : CacheHit(c) \/ CacheMiss(c) \/ Compute(c) \/ Stored(c)
    \/ \E c \in Calls : Released(c) \/ CacheFails(c)
    \/ Cool
    \/ \E c \in Calls : Enter(c) \/ ShortCircuit(c)
    \/ \E c \in Calls : Apply(c) \/ AttemptSucceeds(c) \/ AttemptFails(c) \/ AttemptRejected(c)
    \/ \E c \in Calls : BackOff(c) \/ Retry(c) \/ TimedOut(c) \/ Cancelled(c)
    \/ Tick

Spec == Init /\ [][Next]_vars

-----------------------------------------------------------------------------
(* Properties *)

\* A destructive call reaches the backend at most once per dispatch, whatever
\* errors, timeouts and cancellations it meets.
WriteAtMostOnce == \A c \in Calls : Destructive => effects[c] <= 1

\* "retry only wraps idempotent (non-destructive) tools so a transient blip
\* self-heals without duplicating a write" (server.py:203-205), for every tool
\* that writes: http.fetch is not marked destructive whatever its method.
NoDuplicateWrite == \A c \in Calls : effects[c] <= 1

\* A destructive call goes past the gate only on a human's approval that no
\* later denial revoked, however decisions, retries and the expiry and renewal
\* of the record interleave.
WritesNeedConsent ==
    [][ \A c \in Calls : Destructive /\ ~Observed(c) /\ Observed(c)' => consent ]_vars

\* The breaker and the dispatches agree on what is in flight: no timeout,
\* cancellation or error leaves a call behind in the breaker, or takes it out
\* while its dispatch goes on.
SlotsMatch == \A c \in Calls : B!InFlight(c) <=> Guarded(c)

\* One dispatch is one failure to the breaker, and only after its last attempt.
FailuresAreExhausted ==
    [][ (Len(failures') > Len(failures) \/ trips' > trips) =>
          \E c \in Calls : at[c] = "attempt" /\ ~Guarded(c)' /\ ~MayRetry(c) ]_vars

\* Every dispatch that went past the gates leaves an audit record when it ends,
\* an error one only if it did not return a result.
Audited ==
    [][ \A c \in Calls : Observed(c) /\ at'[c] = "idle" =>
          /\ last'[c].audit # "none"
          /\ last'[c].audit = "error" => last'[c].outcome = "error" ]_vars

\* The pipeline drives its breaker only as CircuitBreaker says it is driven, so
\* what is checked and proved of CircuitBreaker holds in the pipeline.
DrivesBreaker == B!Spec
=============================================================================
