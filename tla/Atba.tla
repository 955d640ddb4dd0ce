-------------------------------- MODULE Atba --------------------------------
(***************************************************************************)
(* The adaptive timeout budget of one tool: ATBA.call_with_budget with the *)
(* latencies and the turn's budget it allocates from (src/atlas_mcp/       *)
(* reliability/atba.py).                                                   *)
(*                                                                         *)
(* The server never begins a turn itself: without one a call gets the      *)
(* target its latencies give, and an embedder that calls begin() gets the  *)
(* budget.  Calls of both kinds share the latencies.                       *)
(*                                                                         *)
(* A call is one step at its start, where the timeout is allocated, and    *)
(* one at its end.  Timers are exact: time does not pass over the end of a *)
(* call.  Fractions of a tick are rounded down.                            *)
(***************************************************************************)
EXTENDS Integers, Sequences, SequencesExt

CONSTANTS
    Calls,          \* calls the tool may have at once
    Latencies,      \* what a call of the backend may take
    Window,         \* window, the samples kept
    MinSamples,     \* samples below which the default stands for the p95
    Percentile,     \* 95
    DefaultP95,     \* default_s
    MinTimeout,     \* MIN_CALL_TIMEOUT_S
    TotalBudget,    \* total_budget_s
    ExpectedCalls,  \* EXPECTED_CALLS_PER_TURN
    MaxTurnCalls,   \* bound of the model: calls of a turn
    MaxIdle         \* bound of the model: time of a turn without a call of it

\* SAFETY_FACTOR, as <<numerator, denominator>>.
SafetyFactor == <<3, 2>>

ASSUME AtbaAssumption ==
    /\ Latencies \subseteq Nat
    /\ Window \in Nat \ {0} /\ MinSamples \in 1..Window
    /\ Percentile \in 1..99
    /\ DefaultP95 \in Nat /\ MinTimeout \in Nat \ {0, 1}
    /\ ExpectedCalls \in Nat \ {0}
    /\ TotalBudget \in Nat /\ TotalBudget >= ExpectedCalls * MinTimeout
    /\ MaxTurnCalls \in Nat /\ MaxIdle \in Nat

VARIABLES
    samples,  \* the tool's rolling durations, oldest first
    turn,     \* the budget context, or NoTurn
    call,     \* per call: Idle, or what it was given and how far it is
    last      \* how the last call ended

vars == <<samples, turn, call, last>>

\* idle: history, the time of the turn in which none of its calls ran.
NoTurn == [age |-> -1, callsMade |-> 0, idle |-> 0]

\* since: the turn's age when the call began, -1 for a call outside of a turn.
Idle == [running |-> FALSE, since |-> 0, age |-> 0, timeout |-> 0, latency |-> 0]

Init ==
    /\ samples = <<>>
    /\ turn = NoTurn
    /\ call = [c \in Calls |-> Idle]
    /\ last = "none"

-----------------------------------------------------------------------------
(* The timeout of a call *)

Larger(a, b) == IF a > b THEN a ELSE b
Smaller(a, b) == IF a < b THEN a ELSE b

\* The sample at index int(len * 0.95), from 0, of the sorted ones: the least
\* with more than index samples that do not exceed it.
P95 ==
    IF Len(samples) < MinSamples THEN DefaultP95
    ELSE LET index == Smaller((Len(samples) * Percentile) \div 100, Len(samples) - 1)
             UpTo(d) == {i \in 1..Len(samples) : samples[i] <= d}
         IN  Min({d \in ToSet(samples) : Cardinality(UpTo(d)) > index})

Target == (P95 * SafetyFactor[1]) \div SafetyFactor[2]

Remaining == Larger(0, TotalBudget - turn.age)

\* Mutant: the call to be made is no longer among those left.
MutantFairShare == Remaining \div Larger(1, ExpectedCalls - turn.callsMade - 1)

\* Mutant: shares of the total.
MutantTotalShare == TotalBudget \div Larger(1, ExpectedCalls - turn.callsMade)

FairShare == Remaining \div Larger(1, ExpectedCalls - turn.callsMade)

TimeoutFor ==
    IF turn = NoTurn THEN Larger(MinTimeout, Target)
    ELSE Larger(MinTimeout, Smaller(Target, FairShare))

-----------------------------------------------------------------------------
(* Steps *)

InTurn(c) == call[c].running /\ call[c].since >= 0

\* begin().  Its turns follow one another; the calls of another turn running
\* at the same time are calls outside of this one.
Begin ==
    /\ turn = NoTurn
    /\ turn' = [age |-> 0, callsMade |-> 0, idle |-> 0]
    /\ UNCHANGED <<samples, call, last>>

\* The context the turn ran in ends, with its calls.
EndTurn ==
    /\ turn # NoTurn
    /\ \A c \in Calls : ~InTurn(c)
    /\ turn' = NoTurn
    /\ UNCHANGED <<samples, call, last>>

Running(latency) == [running |-> TRUE, since |-> turn.age, age |-> 0,
                     timeout |-> TimeoutFor, latency |-> latency]

Start(c) ==
    /\ ~call[c].running
    /\ turn.callsMade < MaxTurnCalls
    /\ \E latency \in Latencies : call' = [call EXCEPT ![c] = Running(latency)]
    /\ turn' = IF turn = NoTurn THEN turn ELSE [turn EXCEPT !.callsMade = @ + 1]
    /\ UNCHANGED <<samples, last>>

\* A deque of Window entries drops the oldest.
Recorded(duration) ==
    LET all == Append(samples, duration)
    IN  IF Len(all) > Window THEN Tail(all) ELSE all

\* Mutant: only answers are samples.
MutantEnd(c, outcome) ==
    /\ samples' = IF outcome = "answered" THEN Recorded(call[c].age) ELSE samples
    /\ call' = [call EXCEPT ![c] = Idle]
    /\ last' = outcome
    /\ UNCHANGED turn

\* The finally clause: every call leaves its duration, however it ended.
\* (spent_s grows too, and nothing reads it.)
End(c, outcome) ==
    /\ samples' = Recorded(call[c].age)
    /\ call' = [call EXCEPT ![c] = Idle]
    /\ last' = outcome
    /\ UNCHANGED turn

Answer(c) ==
    /\ call[c].running /\ call[c].age = call[c].latency
    /\ End(c, "answered")

\* It raises, is refused by the open breaker, or its client goes away.
Fail(c) ==
    /\ call[c].running
    /\ End(c, "failed")

\* wait_for gives up: TimeoutError_.
TimeOut(c) ==
    /\ call[c].running /\ call[c].age = call[c].timeout
    /\ End(c, "timeout")

\* Time passes for the turn and its calls.
Tick ==
    /\ \E c \in Calls : call[c].running \/ turn # NoTurn
    /\ \A c \in Calls : call[c].running =>
          call[c].age < Smaller(call[c].timeout, call[c].latency)
    /\ call' = [c \in Calls |-> IF call[c].running THEN [call[c] EXCEPT !.age = @ + 1]
                                ELSE call[c]]
    /\ IF turn = NoTurn THEN UNCHANGED turn
       ELSE LET idle == IF \E c \in Calls : InTurn(c) THEN 0 ELSE 1
            IN  /\ turn.idle + idle <= MaxIdle
                /\ turn' = [turn EXCEPT !.age = @ + 1, !.idle = @ + idle]
    /\ UNCHANGED <<samples, last>>

Next ==
    \/ Begin \/ EndTurn
    \/ \E c \in Calls : Start(c) \/ Answer(c) \/ Fail(c) \/ TimeOut(c)
    \/ Tick

\* The event loop runs its timers and the agents keep calling; nobody is
\* obliged to begin a turn, to end one, or to fail.
Fairness ==
    /\ WF_vars(Tick)
    /\ \A c \in Calls : WF_vars(Start(c)) /\ WF_vars(Answer(c) \/ TimeOut(c))

Spec == Init /\ [][Next]_vars /\ Fairness

-----------------------------------------------------------------------------
(* Properties *)

\* No call of a turn runs past the turn's budget by more than the smallest
\* timeout, however many calls the turn makes, and at whatever time.
TurnWithinBudget ==
    \A c \in Calls : InTurn(c) =>
        turn.age <= Larger(TotalBudget, call[c].since + MinTimeout)

\* The calls of a turn do not eat each other's share: the first k of the
\* expected calls use at most k / ExpectedCalls of the budget, together with
\* the time in which the turn called nothing.
SharesKept ==
    (turn # NoTurn /\ turn.callsMade <= ExpectedCalls) =>
        ExpectedCalls * (turn.age - turn.idle) <= TotalBudget * turn.callsMade

\* A backend that turns slower than the timeouts is not cut off for good:
\* what its cut calls took raises the timeouts until calls are answered again.
\* That needs calls that do not end early and have no budget, because failures
\* (the open breaker's too) and a turn's small shares are samples as well.
AnswersResume ==
    <>[](turn = NoTurn /\ last # "failed") => []<>(last = "answered")
=============================================================================
