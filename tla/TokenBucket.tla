---------------------------- MODULE TokenBucket ----------------------------
(***************************************************************************)
(* The token bucket of one (tenant, tool) pair: RateLimiter.acquire and    *)
(* the consume step of its backends (src/atlas_mcp/ratelimit/limiter.py),  *)
(* which is atomic in both of them (no await in InMemoryTokenBucket, one   *)
(* Lua script in RedisTokenBucket).                                        *)
(*                                                                         *)
(* now_ms is not read in that step.  acquire() reads time.time() on the    *)
(* replica that serves the call and ships it to the backend, so a call     *)
(* carries a stamp that other replicas' clocks, a clock set back or the    *)
(* way to Redis make up to Lag ticks old when the step runs.               *)
(*                                                                         *)
(* Tokens are integers in a unit that makes Refill and Cost whole.         *)
(***************************************************************************)
EXTENDS Naturals

CONSTANTS
    Capacity,    \* Quota.capacity, the burst
    Refill,      \* refill_per_s, per tick
    Cost,        \* cost of a call
    IdleExpiry,  \* EXPIRE of the Redis key
    Lag,         \* how old a stamp may be when it is used; 0: one process, steady clock
    MaxTime,     \* bound of the model: the clock stops here
    MaxRegress   \* bound of the model: ticks by which stamps go backwards, in all

ASSUME QuotaAssumption ==
    /\ Capacity \in Nat
    /\ Refill \in Nat \ {0}
    /\ Cost \in 1..Capacity
    /\ Lag \in Nat
    /\ MaxTime \in Nat
    /\ MaxRegress \in Nat

\* A bucket left alone until Redis drops its key would have been full anyway.
\* The quotas of the repository refill in at most 60 seconds; EXPIRE is 3600.
ASSUME ExpiryAssumption ==
    /\ IdleExpiry \in Nat
    /\ IdleExpiry > Lag
    /\ Refill * (IdleExpiry - Lag) >= Capacity

VARIABLES
    now,      \* true time
    present,  \* whether the backend has the bucket
    tokens,   \* its tokens
    lastMs,   \* its last_ms
    touched,  \* true time of the last consume, from which EXPIRE counts
    reply,    \* the last (allowed, retry_after_ms)
    spent,    \* history: tokens consumed since the start
    regress   \* history: ticks by which stamps went backwards, in all

vars == <<now, present, tokens, lastMs, touched, reply, spent, regress>>

TypeOK ==
    /\ now \in Nat
    /\ present \in BOOLEAN
    /\ tokens \in 0..Capacity
    /\ lastMs \in Nat
    /\ touched \in Nat
    /\ reply \in [allowed : BOOLEAN, retryAfter : Nat]
    /\ spent \in Nat
    /\ regress \in Nat

Init ==
    /\ now = 0
    /\ present = FALSE
    /\ tokens = 0
    /\ lastMs = 0
    /\ touched = 0
    /\ reply = [allowed |-> TRUE, retryAfter |-> 0]
    /\ spent = 0
    /\ regress = 0

-----------------------------------------------------------------------------

Monus(a, b) == IF a > b THEN a - b ELSE 0
AtMost(a, bound) == IF a > bound THEN bound ELSE a
CeilDiv(a, b) == (a + b - 1) \div b

\* Mutant: the refill is not capped at the burst.
MutantLevel(stamp) ==
    IF present THEN tokens + Monus(stamp, lastMs) * Refill ELSE Capacity

\* Tokens at a stamp: a full bucket when there is none, else refilled since last_ms.
Level(stamp) ==
    IF present THEN AtMost(tokens + Monus(stamp, lastMs) * Refill, Capacity) ELSE Capacity

\* Mutant: rounded down.
MutantRetryAfter(level) == (Cost - level) \div Refill

RetryAfter(level) == CeilDiv(Cost - level, Refill)

\* Mutant: the refill is credited and last_ms left as it was.
MutantStore(stamp, left) ==
    /\ present' = TRUE
    /\ tokens' = left
    /\ lastMs' = IF present THEN lastMs ELSE stamp
    /\ touched' = now
    /\ UNCHANGED <<now, regress>>

\* Both outcomes store the stamp as last_ms, older than the stored one or not.
Store(stamp, left) ==
    /\ present' = TRUE
    /\ tokens' = left
    /\ lastMs' = stamp
    /\ touched' = now
    /\ regress' = regress + Monus(lastMs, stamp)
    /\ regress' <= MaxRegress
    /\ UNCHANGED now

Allow(stamp) ==
    /\ Level(stamp) >= Cost
    /\ Store(stamp, Level(stamp) - Cost)
    /\ reply' = [allowed |-> TRUE, retryAfter |-> 0]
    /\ spent' = spent + Cost

\* RateLimitError with the time after which a token will be there.
Refuse(stamp) ==
    /\ Level(stamp) < Cost
    /\ Store(stamp, Level(stamp))
    /\ reply' = [allowed |-> FALSE, retryAfter |-> RetryAfter(Level(stamp))]
    /\ UNCHANGED spent

\* Redis drops the key of an idle bucket.  (InMemoryTokenBucket never does.)
Expire ==
    /\ present
    /\ now >= touched + IdleExpiry
    /\ present' = FALSE
    /\ UNCHANGED <<now, tokens, lastMs, touched, reply, spent, regress>>

Tick ==
    /\ now < MaxTime
    /\ now' = now + 1
    /\ UNCHANGED <<present, tokens, lastMs, touched, reply, spent, regress>>

Stamps == {s \in 0..now : now <= s + Lag}

Next ==
    \/ \E s \in Stamps : Allow(s)
    \/ \E s \in Stamps : Refuse(s)
    \/ Expire
    \/ Tick

Spec == Init /\ [][Next]_vars

-----------------------------------------------------------------------------
(* Properties *)

\* Everything ever admitted and what is left in the bucket come from the burst,
\* the refill since the start and what stamps that went backwards refill twice.
\* Neither the cap nor the expiry of idle buckets adds to it.
AdmissionAccounted ==
    spent + (IF present THEN tokens ELSE 0)
        <= Capacity + Refill * (lastMs + regress)

\* A refused caller that comes back after retry_after_ms, and not before, finds
\* its tokens, if nobody else consumed in between.
RetryAfterExact ==
    (present /\ ~reply.allowed) =>
        /\ Level(lastMs + reply.retryAfter) >= Cost
        /\ reply.retryAfter > 0
        /\ Level(lastMs + reply.retryAfter - 1) < Cost

\* The quota itself: never more than the burst and the refill up to now.
\* "An atomic Lua script makes check-and-consume race-free across horizontally
\* scaled replicas" (limiter.py:10-11).
NoOverAdmission == spent <= Capacity + Refill * now
=============================================================================
