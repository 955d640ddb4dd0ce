--------------------------- MODULE CircuitBreaker ---------------------------
(***************************************************************************)
(* One CircuitBreaker of src/atlas_mcp/reliability/circuit_breaker.py, as  *)
(* the concurrent tool calls of one replica use it.                        *)
(*                                                                         *)
(* The asyncio lock is never held across an await, so what runs between    *)
(* two awaits is one action: the entry of call() up to `await fn(...)`,    *)
(* and what follows that await.  Between the two the call is in flight and *)
(* every other call may enter or end.                                      *)
(***************************************************************************)
EXTENDS Naturals, Sequences

CONSTANTS
    Calls,        \* call slots; a slot is reused once its call has ended
    Threshold,    \* failure_threshold
    Recovery,     \* recovery_seconds
    Window,       \* window_seconds
    CallTimeout,  \* the ATBA timeout that cancels a call still in flight
    MaxTime       \* bound of the model: the clock stops here

ASSUME ConstantsAssumption ==
    /\ Threshold \in Nat \ {0}
    /\ Recovery \in Nat
    /\ Window \in Nat
    /\ CallTimeout \in Nat
    /\ MaxTime \in Nat

VARIABLES
    now,            \* time.monotonic()
    state,          \* _state
    openedAt,       \* _opened_at
    failures,       \* _failures, times of counted failures, oldest first
    probeInFlight,  \* _half_open_probe_in_flight
    trips,          \* trips
    phase,          \* per slot: no call, or the branch of call() it awaits fn in
    startedAt       \* per slot: when the call in flight was admitted

breaker == <<state, openedAt, failures, probeInFlight, trips>>
vars == <<now, breaker, phase, startedAt>>

State == {"closed", "open", "half_open"}
Phase == {"idle", "normal", "probe"}

InFlight(c) == phase[c] # "idle"
Probing(c) == phase[c] = "probe"

TypeOK ==
    /\ now \in Nat
    /\ state \in State
    /\ openedAt \in Nat
    /\ failures \in Seq(Nat)
    /\ probeInFlight \in BOOLEAN
    /\ trips \in Nat
    /\ phase \in [Calls -> Phase]
    /\ startedAt \in [Calls -> Nat]

Init ==
    /\ now = 0
    /\ state = "closed"
    /\ openedAt = 0
    /\ failures = <<>>
    /\ probeInFlight = FALSE
    /\ trips = 0
    /\ phase = [c \in Calls |-> "idle"]
    /\ startedAt = [c \in Calls |-> 0]

-----------------------------------------------------------------------------
(* Entering call() *)

\* The open breaker has waited recovery_seconds.
RecoveryElapsed == state = "open" /\ now >= openedAt + Recovery

Expired(time, t) == time + Window < t

\* Mutant: failures are never dropped.
MutantPruneFailures(fs) == failures' = fs

\* The failures still to be counted: the deque without the prefix that fell out
\* of the window.
PruneFailures(fs) ==
    \E k \in 0..Len(fs) :
        /\ \A i \in 1..k : Expired(fs[i], now)
        /\ k < Len(fs) => ~Expired(fs[k + 1], now)
        /\ failures' = SubSeq(fs, k + 1, Len(fs))

\* State and flag as _check_transitions leaves them.
CheckedState == IF RecoveryElapsed THEN "half_open" ELSE state
CheckedFlag == probeInFlight /\ ~RecoveryElapsed

Begin(c, branch) ==
    /\ ~InFlight(c)
    /\ phase' = [phase EXCEPT ![c] = branch]
    /\ startedAt' = [startedAt EXCEPT ![c] = now]

\* Mutant: the OPEN check is missing, only half-open calls are told apart.
MutantAdmit(c) ==
    /\ CheckedState # "half_open"
    /\ PruneFailures(failures)
    /\ Begin(c, "normal")
    /\ UNCHANGED <<now, state, openedAt, probeInFlight, trips>>

Admit(c) ==
    /\ CheckedState = "closed"
    /\ PruneFailures(failures)
    /\ Begin(c, "normal")
    /\ UNCHANGED <<now, state, openedAt, probeInFlight, trips>>

\* Mutant: the flag is set but not tested.
MutantAdmitProbe(c) ==
    /\ CheckedState = "half_open"
    /\ PruneFailures(failures)
    /\ Begin(c, "probe")
    /\ state' = "half_open"
    /\ probeInFlight' = TRUE
    /\ UNCHANGED <<now, openedAt, trips>>

AdmitProbe(c) ==
    /\ CheckedState = "half_open"
    /\ ~CheckedFlag
    /\ PruneFailures(failures)
    /\ Begin(c, "probe")
    /\ state' = "half_open"
    /\ probeInFlight' = TRUE
    /\ UNCHANGED <<now, openedAt, trips>>

\* CircuitOpenError: no probe is due, or one is already under way.
Reject ==
    /\ \/ CheckedState = "open"
       \/ CheckedState = "half_open" /\ CheckedFlag
    /\ PruneFailures(failures)
    /\ UNCHANGED <<now, state, openedAt, probeInFlight, trips, phase, startedAt>>

-----------------------------------------------------------------------------
(* After `await fn(...)` *)

\* Mutant: no finally clause, the flag survives the probe.
MutantEnd(c) ==
    /\ InFlight(c)
    /\ phase' = [phase EXCEPT ![c] = "idle"]
    /\ startedAt' = [startedAt EXCEPT ![c] = 0]
    /\ UNCHANGED <<now, probeInFlight>>

\* The call leaves call(); a probe runs the finally clause.
End(c) ==
    /\ InFlight(c)
    /\ phase' = [phase EXCEPT ![c] = "idle"]
    /\ startedAt' = [startedAt EXCEPT ![c] = 0]
    /\ probeInFlight' = (probeInFlight /\ ~Probing(c))
    /\ UNCHANGED now

\* Mutant: every success reaches _on_success, and it does not look at the state.
MutantCallSucceeds(c) ==
    /\ End(c)
    /\ state' = "closed"
    /\ failures' = <<>>
    /\ UNCHANGED <<openedAt, trips>>

\* Only a probe's success reaches _on_success.
CallSucceeds(c) ==
    /\ End(c)
    /\ IF Probing(c) /\ state = "half_open"
       THEN state' = "closed" /\ failures' = <<>>
       ELSE UNCHANGED <<state, failures>>
    /\ UNCHANGED <<openedAt, trips>>

\* Mutant: the threshold is compared before the new failure is appended.
MutantTripsNow == state = "half_open" \/ Len(failures) >= Threshold

\* _on_failure with a retryable UpstreamError, in whatever state it finds.
TripsNow == state = "half_open" \/ Len(failures) + 1 >= Threshold

\* Mutant: the enum's name is stored instead of its value.
MutantCallFails(c) ==
    /\ End(c)
    /\ IF TripsNow
       THEN state' = "OPEN" /\ openedAt' = now /\ failures' = <<>> /\ trips' = trips + 1
       ELSE failures' = Append(failures, now) /\ UNCHANGED <<state, openedAt, trips>>

CallFails(c) ==
    /\ End(c)
    /\ \/ /\ TripsNow
          /\ state' = "open"
          /\ openedAt' = now
          /\ failures' = <<>>
          /\ trips' = trips + 1
       \/ /\ ~TripsNow
          /\ failures' = Append(failures, now)
          /\ UNCHANGED <<state, openedAt, trips>>

\* An error the breaker does not count (not retryable, or no UpstreamError), or
\* the CancelledError of a timeout or of a client that left.
CallEndsUncounted(c) ==
    /\ End(c)
    /\ UNCHANGED <<state, openedAt, failures, trips>>

-----------------------------------------------------------------------------

\* Time passes; no call outlives its ATBA timeout.
Tick ==
    /\ now < MaxTime
    /\ \A c \in Calls : InFlight(c) => now < startedAt[c] + CallTimeout
    /\ now' = now + 1
    /\ UNCHANGED <<breaker, phase, startedAt>>

Next ==
    \/ \E c \in Calls : Admit(c)
    \/ \E c \in Calls : AdmitProbe(c)
    \/ Reject
    \/ \E c \in Calls : CallSucceeds(c)
    \/ \E c \in Calls : CallFails(c)
    \/ \E c \in Calls : CallEndsUncounted(c)
    \/ Tick

Spec == Init /\ [][Next]_vars

-----------------------------------------------------------------------------
(* Properties *)

\* The flag that keeps other calls out of a half-open breaker always has a
\* probe behind it that will clear it, however that probe ends (failure,
\* success, timeout): the finally clause never leaves the breaker locked.
NoLockout == probeInFlight => \E c \in Calls : Probing(c)

\* While the breaker is open, whatever is still in flight was admitted before
\* it (last) opened: a tripped backend gets no new work for recovery_seconds.
OpenAdmitsNothing ==
    state = "open" =>
        \A c \in Calls : InFlight(c) => startedAt[c] <= openedAt

\* Counting failures stops at the trip: the deque never holds a threshold's
\* worth of failures that did not open the breaker.
FailuresBelowThreshold == Len(failures) < Threshold

\* _on_failure does not prune, so the failures that open a closed breaker may
\* be older than the window, but never by more than one call's duration.
TripSpansWindow ==
    [][ (state = "closed" /\ state' = "open") =>
          \A i \in 1..Len(failures) : now <= failures[i] + Window + CallTimeout ]_vars

\* A probe has the backend to itself, when calls are shorter than the recovery
\* time: neither a second probe nor a call from before the trip runs beside it.
ProbeRunsAlone ==
    \A c, d \in Calls : Probing(c) /\ InFlight(d) => c = d

\* What the backend sees, when calls are shorter than the recovery time: the
\* deque, the flag and the pruning implement Breaker.
Abstract == INSTANCE Breaker WITH running <- {c \in Calls : InFlight(c)}
ImplementsBreaker == Abstract!Spec

\* "one probe is allowed through" (circuit_breaker.py:8), for any CallTimeout.
SingleProbe == \A c, d \in Calls : Probing(c) /\ Probing(d) => c = d
=============================================================================
