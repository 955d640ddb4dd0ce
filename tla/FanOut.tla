------------------------------- MODULE FanOut -------------------------------
(***************************************************************************)
(* One execution of a tool that fans out over others: customer.build_      *)
(* context (tools/workflow/customer_context.py), which takes what it gets, *)
(* or hybrid_search (tools/composed/hybrid_search.py), which needs every   *)
(* part and which the retry loop runs again when one is missing.           *)
(*                                                                         *)
(* Parts are asyncio tasks under asyncio.gather: with return_exceptions it *)
(* waits for all of them, without it the first failure is raised and the   *)
(* other parts run on.  That a part ends and that gather notices are one   *)
(* step; a part that was told to cancel ends in a step of its own.         *)
(***************************************************************************)
EXTENDS Naturals, Sequences, SequencesExt

CONSTANTS
    Docs,         \* document ids
    MaxHits,      \* bound of the model: answers of the two searches
    TopK,         \* top_k
    RrfK,         \* rrf_k
    MaxAttempts   \* retry_max_attempts

ASSUME ConstantsAssumption ==
    /\ TopK \in Nat \ {0} /\ RrfK \in Nat \ {0} /\ MaxAttempts \in Nat \ {0}
    /\ MaxHits \in 0..(2 * TopK)

VARIABLES
    tool,      \* the tool executed
    asked,     \* the optional sections asked for (the include_ flags)
    at,        \* the await the execution stands at
    attempt,   \* the attempt of the retry loop
    task,      \* per attempt and part: the state of its task
    hits,      \* this attempt's Elasticsearch hits
    matches,   \* this attempt's vector matches
    context,   \* the customer context returned
    results    \* the fused results returned

call == <<tool, asked>>
vars == <<call, at, attempt, task, hits, matches, context, results>>

Optional == {"orders", "tickets", "docs"}
Part == {"profile", "search", "embed"} \cup Optional
Parts == IF tool = "customer" THEN {"profile"} \cup asked ELSE {"search", "embed"}

Ending == {"returned", "raised", "cancelled"}
At == {"gather", "cancelling", "vector", "backoff"} \cup Ending

\* The tasks of an attempt that has just made them.
Spawned == [p \in Part |-> IF p \in Parts THEN "running" ELSE "none"]
NoTask == [p \in Part |-> "none"]
NoContext == [sections |-> {}, errors |-> {}]

\* An index pattern may hit one id in several indices; point ids are unique.
Hits == BoundedSeq(Docs, MaxHits)
Matches == {m \in Hits : \A i, j \in 1..Len(m) : m[i] = m[j] => i = j}

TypeOK ==
    /\ tool \in {"customer", "hybrid"}
    /\ asked \subseteq Optional
    /\ at \in At
    /\ attempt \in 1..MaxAttempts
    /\ task \in [1..MaxAttempts ->
                    [Part -> {"none", "running", "ok", "failed", "cancelling", "cancelled"}]]
    /\ hits \in Seq(Docs)
    /\ matches \in Seq(Docs)
    /\ context \in [sections : SUBSET Part, errors : SUBSET Part]
    /\ results \in Seq(Docs)

Init ==
    /\ tool \in {"customer", "hybrid"}
    /\ asked \in IF tool = "customer" THEN SUBSET Optional ELSE {{}}
    /\ at = "gather"
    /\ attempt = 1
    /\ task = [a \in 1..MaxAttempts |-> IF a = 1 THEN Spawned ELSE NoTask]
    /\ hits = <<>>
    /\ matches = <<>>
    /\ context = NoContext
    /\ results = <<>>

-----------------------------------------------------------------------------
(* Reciprocal rank fusion *)

\* A dict comprehension over the hits: the last one of an id counts.
Rank(list, d) ==
    CHOOSE i \in 1..Len(list) : list[i] = d /\ \A j \in (i + 1)..Len(list) : list[j] # d

\* Mutant: a document missing from a list counts as found at its head.
MutantShare(list, d) ==
    IF \E i \in 1..Len(list) : list[i] = d THEN <<1, RrfK + Rank(list, d)>> ELSE <<1, RrfK>>

\* Fractions, as <<numerator, denominator>>.
Share(list, d) ==
    IF \E i \in 1..Len(list) : list[i] = d THEN <<1, RrfK + Rank(list, d)>> ELSE <<0, 1>>
Sum2(p, q) == <<p[1] * q[2] + q[1] * p[2], p[2] * q[2]>>
Above(p, q) == p[1] * q[2] > q[1] * p[2]

Score(lexical, dense, d) == Sum2(Share(lexical, d), Share(dense, d))

\* The best TopK of all documents found; equal scores come in any order.
Fusions(lexical, dense) ==
    LET found == ToSet(lexical) \cup ToSet(dense)
        sorted == {r \in SetToSeqs(found) :
                      \A i, j \in 1..Len(r) :
                          i < j => ~Above(Score(lexical, dense, r[j]), Score(lexical, dense, r[i]))}
    IN  {SubSeq(r, 1, TopK) : r \in {s \in sorted : Len(s) >= TopK}}
            \cup {s \in sorted : Len(s) < TopK}

-----------------------------------------------------------------------------
(* The end of an execution *)

\* Mutant: one attempt too many.
MutantFail ==
    /\ \/ at' = "backoff" /\ attempt <= MaxAttempts
       \/ at' = "raised"
    /\ UNCHANGED <<context, results>>

\* The attempt raises: an error that is retried, or one that is not.
Fail ==
    /\ \/ at' = "backoff" /\ attempt < MaxAttempts
       \/ at' = "raised"
    /\ UNCHANGED <<context, results>>

Suspended(where) == at' = where /\ UNCHANGED <<context, results>>

AllEnded(states) == \A p \in Parts : states[p] \notin {"running", "cancelling"}

\* Every outcome is either a section or an entry of partial_errors.
ReturnContext(states) ==
    /\ at' = "returned"
    /\ context' = [sections |-> {p \in Parts : states[p] = "ok"},
                   errors |-> {p \in Parts : states[p] # "ok"}]
    /\ UNCHANGED results

\* Mutant: no return_exceptions.
MutantGatherAll(states) ==
    IF \E p \in Parts : states[p] = "failed" THEN at' = "raised" /\ UNCHANGED <<context, results>>
    ELSE IF ~AllEnded(states) THEN Suspended(at)
    ELSE IF at = "cancelling" THEN Suspended("cancelled")
    ELSE ReturnContext(states)

\* Mutant: a cancelled gather does not wait for its tasks.
HastyGatherAll(states) ==
    IF at = "cancelling" THEN Suspended("cancelled")
    ELSE IF ~AllEnded(states) THEN Suspended(at)
    ELSE ReturnContext(states)

\* gather(..., return_exceptions=True)
GatherAll(states) ==
    IF ~AllEnded(states) THEN Suspended(at)
    ELSE IF at = "cancelling" THEN Suspended("cancelled")
    ELSE ReturnContext(states)

\* gather(...): the first task to fail or to be cancelled decides.
GatherFirst(states, outcome) ==
    \/ outcome = "ok" /\ Suspended(IF AllEnded(states) THEN "vector" ELSE at)
    \/ outcome = "failed" /\ Fail
    \/ outcome = "cancelled" /\ Suspended("cancelled")

Awaited(a) == a = attempt /\ at \in {"gather", "cancelling"}

-----------------------------------------------------------------------------
(* Steps *)

\* A part ends, awaited or not.
PartEnds(a, p, outcome) ==
    /\ task[a][p] = IF outcome = "cancelled" THEN "cancelling" ELSE "running"
    /\ task' = [task EXCEPT ![a][p] = outcome]
    /\ IF ~Awaited(a) THEN UNCHANGED <<at, context, results>>
       ELSE IF tool = "customer" THEN GatherAll(task'[a])
       ELSE GatherFirst(task'[a], outcome)
    /\ UNCHANGED <<call, attempt, matches>>

PartAnswers(a, p) ==
    /\ PartEnds(a, p, "ok")
    /\ IF p = "search" /\ Awaited(a) THEN hits' \in Hits ELSE UNCHANGED hits

PartFails(a, p) == PartEnds(a, p, "failed") /\ UNCHANGED hits
PartCancelled(a, p) == PartEnds(a, p, "cancelled") /\ UNCHANGED hits

\* Both parts of hybrid_search are there; the vector search is awaited itself.
VectorAnswers ==
    /\ at = "vector"
    /\ at' = "returned"
    /\ matches' \in Matches
    /\ results' \in Fusions(hits, matches')
    /\ UNCHANGED <<call, attempt, task, hits, context>>

VectorFails ==
    /\ at = "vector"
    /\ Fail
    /\ UNCHANGED <<call, attempt, task, hits, matches>>

\* The retry loop runs the tool again; nothing ends what the last attempt left.
Retry ==
    /\ at = "backoff"
    /\ attempt' = attempt + 1
    /\ task' = [task EXCEPT ![attempt + 1] = Spawned]
    /\ hits' = <<>>
    /\ Suspended("gather")
    /\ UNCHANGED <<call, matches>>

\* Mutant: the parts are not told.
MutantCancel ==
    /\ at \in {"gather", "vector", "backoff"}
    /\ Suspended("cancelled")
    /\ UNCHANGED <<call, attempt, task, hits, matches>>

\* The ATBA timeout or the client cancels, and a gather passes it on.
Cancel ==
    /\ at \in {"gather", "vector", "backoff"}
    /\ Suspended(IF at = "gather" THEN "cancelling" ELSE "cancelled")
    /\ task' = [task EXCEPT ![attempt] =
                   [p \in Part |-> IF at = "gather" /\ @[p] = "running" THEN "cancelling" ELSE @[p]]]
    /\ UNCHANGED <<call, attempt, hits, matches>>

Next ==
    \/ \E a \in 1..MaxAttempts, p \in Part :
          PartAnswers(a, p) \/ PartFails(a, p) \/ PartCancelled(a, p)
    \/ VectorAnswers \/ VectorFails
    \/ Retry
    \/ Cancel

Spec == Init /\ [][Next]_vars

-----------------------------------------------------------------------------
(* Properties *)

\* "a partial context is more useful to the agent than a hard failure"
\* (customer_context.py:8-9): no failure of a part fails the tool, and every
\* section asked for is in the context or among its partial_errors.
PartialContext ==
    tool = "customer" =>
        /\ at # "raised"
        /\ at = "returned" =>
              /\ context.sections \cup context.errors = Parts
              /\ context.errors = {p \in Parts : task[attempt][p] = "failed"}

\* customer.build_context leaves no query running behind it, also when it is
\* cancelled in the middle.
ContextLeavesNothing ==
    (tool = "customer" /\ at \in Ending) =>
        \A p \in Part : task[attempt][p] \notin {"running", "cancelling"}

\* hybrid_search does leave a part running, but only where the other part has
\* failed: a result and a cancellation leave none of their own attempt.
StragglersHaveFailedSibling ==
    \A a \in 1..MaxAttempts, p \in Part :
        (task[a][p] = "running" /\ ~Awaited(a)) =>
            \E q \in Part \ {p} : task[a][q] = "failed"

\* d is found wherever e is, and before it.
Dominates(d, e) ==
    /\ \A i, j \in 1..Len(hits) : hits[i] = d /\ hits[j] = d => i = j
    /\ \A list \in {hits, matches} : \A i \in 1..Len(list) :
          list[i] = e => \E j \in 1..(i - 1) : list[j] = d

\* The fused ranking never contradicts both of its sources, and lists no
\* document twice.
FusionKeepsOrder ==
    \A i, j \in 1..Len(results) :
        /\ results[i] = results[j] => i = j
        /\ \A d \in Docs :
              Dominates(d, results[i]) => \E k \in 1..(i - 1) : results[k] = d
=============================================================================
