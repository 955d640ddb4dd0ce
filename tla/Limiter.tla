------------------------------ MODULE Limiter ------------------------------
(***************************************************************************)
(* RateLimiter.acquire over a RedisTokenBucket (src/atlas_mcp/ratelimit/   *)
(* limiter.py) in one server: the calls of a pair on their way through     *)
(* _ensure and EVALSHA, each with the stamp it took when it began, over    *)
(* the bucket of TokenBucket.                                              *)
(*                                                                         *)
(* Redis keeps its scripts in memory only: a restart that brings the keys  *)
(* back from disk does not bring back the script.  Nothing in src/ calls   *)
(* disconnect().                                                           *)
(***************************************************************************)
EXTENDS TokenBucket

CONSTANT Calls  \* calls of the pair under way at once

VARIABLES
    client,  \* _redis is set
    sha,     \* _sha is set
    script,  \* Redis has the script
    call,    \* per call: where it awaits, its stamp, the sha it was sent with; and
             \* as history, whether it was sent while the first call was loading
    broken   \* history: a load failed, or Redis restarted

limiterVars == <<vars, client, sha, script, call, broken>>

NoCall == [at |-> "idle", stamp |-> 0, sha |-> FALSE, cold |-> FALSE]

LimiterInit ==
    /\ Init
    /\ client = FALSE
    /\ sha = FALSE
    /\ script = FALSE
    /\ call = [c \in Calls |-> NoCall]
    /\ broken = FALSE

-----------------------------------------------------------------------------

\* _ensure returns the client, and the call is sent with the sha of that moment.
Send(c, stamp, with, early) ==
    call' = [call EXCEPT ![c] =
                [at |-> "evalsha", stamp |-> stamp, sha |-> with, cold |-> early]]

Loading == \E c \in Calls : call[c].at = "loading"

Finish(c) == call' = [call EXCEPT ![c] = NoCall]

\* The first call sets the client before it awaits the load.
Acquire(c) ==
    /\ call[c].at = "idle"
    /\ client' = TRUE
    /\ IF client
       THEN Send(c, now, sha, Loading)
       ELSE call' = [call EXCEPT ![c] =
                        [at |-> "loading", stamp |-> now, sha |-> FALSE, cold |-> FALSE]]
    /\ UNCHANGED <<vars, sha, script, broken>>

\* Mutant: the sha goes to the call that loaded it and to no other.
MutantLoaded(c) ==
    /\ call[c].at = "loading"
    /\ script' = TRUE
    /\ Send(c, call[c].stamp, TRUE, FALSE)
    /\ UNCHANGED <<vars, client, sha, broken>>

Loaded(c) ==
    /\ call[c].at = "loading"
    /\ script' = TRUE
    /\ sha' = TRUE
    /\ Send(c, call[c].stamp, TRUE, FALSE)
    /\ UNCHANGED <<vars, client, broken>>

\* Redis does not answer, or the call is cancelled: the client stays.
LoadFails(c) ==
    /\ call[c].at = "loading"
    /\ Finish(c)
    /\ broken' = TRUE
    /\ UNCHANGED <<vars, client, sha, script>>

Runs(c) == call[c].at = "evalsha" /\ call[c].sha /\ script

Consume(c) ==
    /\ Runs(c)
    /\ Allow(call[c].stamp) \/ Refuse(call[c].stamp)
    /\ Finish(c)
    /\ UNCHANGED <<client, sha, script, broken>>

\* Without a sha, or with one that Redis does not know: it raises, and consumes nothing.
NoScript(c) ==
    /\ call[c].at = "evalsha" /\ ~Runs(c)
    /\ Finish(c)
    /\ UNCHANGED <<vars, client, sha, script, broken>>

\* Another replica's calls of the pair, and its first call of all.
Elsewhere ==
    /\ script
    /\ \E stamp \in Stamps : Allow(stamp) \/ Refuse(stamp)
    /\ UNCHANGED <<client, sha, script, call, broken>>

LoadedElsewhere ==
    /\ script' = TRUE
    /\ UNCHANGED <<vars, client, sha, call, broken>>

RedisRestart ==
    /\ script' = FALSE
    /\ broken' = TRUE
    /\ UNCHANGED <<vars, client, sha, call>>

\* No call is under way for longer than Lag.
Pass ==
    /\ \A c \in Calls : call[c].at # "idle" => now < call[c].stamp + Lag
    /\ Tick
    /\ UNCHANGED <<client, sha, script, call, broken>>

Drop == Expire /\ UNCHANGED <<client, sha, script, call, broken>>

LimiterNext ==
    \/ \E c \in Calls :
          Acquire(c) \/ Loaded(c) \/ LoadFails(c) \/ Consume(c) \/ NoScript(c)
    \/ Elsewhere \/ LoadedElsewhere
    \/ RedisRestart
    \/ Pass
    \/ Drop

LimiterSpec == LimiterInit /\ [][LimiterNext]_limiterVars

-----------------------------------------------------------------------------
(* Properties *)

\* _ensure sets _redis before it awaits the load, and nothing loads again.  So
\* the calls that meet the first one's load raise instead of consuming; but they
\* are the only ones, however their answers and the load's overtake each other,
\* until a load fails or Redis restarts.  (After those two every call raises.)
OnlyFirstCallsRaise ==
    ~broken => \A c \in Calls : call[c].at = "evalsha" /\ ~Runs(c) => call[c].cold
=============================================================================
