------------------------------ MODULE Copilot ------------------------------
(***************************************************************************)
(* One SupportCopilot.answer (src/atlas_mcp/agents/orchestrator.py): plan, *)
(* retrieval loop, draft, critic, at most one revision.                    *)
(*                                                                         *)
(* The model is not trusted, so each of its answers is any answer at all.  *)
(* Every step is one await: a completion, or a request to the MCP server.  *)
(* Findings are counted by where they come from; drafts are numbered.      *)
(***************************************************************************)
EXTENDS Naturals

CONSTANTS
    MaxIterations,  \* max_retriever_iterations
    MaxReported     \* bound of the model: findings a `done` answer may list

ASSUME BoundsAssumption == MaxIterations \in Nat \ {0} /\ MaxReported \in Nat

VARIABLES
    at,          \* the await the run stands at
    iteration,   \* the retriever's i; iterations_used
    observed,    \* findings made of tool results
    reported,    \* findings listed by a `done` answer
    exceeded,    \* exceeded_budget
    draft,       \* number of the current draft, 0 before the first
    judged,      \* number of the draft the critic judged last
    verdict,     \* whether it approved
    toolCalls,   \* run.tool_calls
    completions, \* history: completions paid for, up to one over the budget
    response     \* what answer() returned

run == <<iteration, observed, reported, exceeded, draft, judged, verdict, toolCalls>>
vars == <<at, run, completions, response>>

\* Completions of a run: the plan, one per iteration, two drafts, two verdicts.
Budget == 1 + MaxIterations + 4

At == {"plan", "specs", "decide", "tool", "draft", "judge", "done", "raised"}
Pending == [draft |-> 0, approved |-> FALSE, exceeded |-> FALSE, toolCalls |-> 0]

TypeOK ==
    /\ at \in At
    /\ iteration \in 0..MaxIterations
    /\ observed \in 0..MaxIterations
    /\ reported \in 0..MaxReported
    /\ exceeded \in BOOLEAN
    /\ draft \in 0..2
    /\ judged \in 0..2
    /\ verdict \in BOOLEAN
    /\ toolCalls \in 0..MaxIterations
    /\ completions \in 0..(Budget + 1)
    /\ response \in [draft : 0..2, approved : BOOLEAN, exceeded : BOOLEAN,
                     toolCalls : 0..MaxIterations]

Init ==
    /\ at = "plan"
    /\ iteration = 0
    /\ observed = 0
    /\ reported = 0
    /\ exceeded = FALSE
    /\ draft = 0
    /\ judged = 0
    /\ verdict = FALSE
    /\ toolCalls = 0
    /\ completions = 0
    /\ response = Pending

-----------------------------------------------------------------------------

Goto(where) == at' = where /\ UNCHANGED response
Complete == completions' = IF completions > Budget THEN completions ELSE completions + 1

\* _short_circuit: a fresh RetrievalResult and an approving Verdict.
ShortCircuit ==
    /\ at' = "done"
    /\ response' = [draft |-> 0, approved |-> TRUE, exceeded |-> FALSE, toolCalls |-> toolCalls]

\* Planned: the customer id is there, or not needed.
Plan ==
    /\ at = "plan"
    /\ Complete
    /\ Goto("specs")
    /\ UNCHANGED run

CustomerIdMissing ==
    /\ at = "plan"
    /\ Complete
    /\ ShortCircuit
    /\ UNCHANGED run

-----------------------------------------------------------------------------
(* The retrieval loop *)

\* Leaving the loop with the findings it has then.
Retrieved(found) == IF found = 0 THEN ShortCircuit ELSE Goto("draft")

\* Mutant: off by one.
MutantNextIteration ==
    IF iteration <= MaxIterations
    THEN /\ iteration' = iteration + 1
         /\ Goto("decide")
         /\ UNCHANGED exceeded
    ELSE /\ exceeded' = TRUE
         /\ Retrieved(observed')
         /\ UNCHANGED iteration

\* The loop's head: another iteration, or the `else` of the for.
NextIteration ==
    IF iteration < MaxIterations
    THEN /\ iteration' = iteration + 1
         /\ Goto("decide")
         /\ UNCHANGED exceeded
    ELSE /\ exceeded' = TRUE
         /\ Retrieved(observed')
         /\ UNCHANGED iteration

FetchSpecs ==
    /\ at = "specs"
    /\ UNCHANGED observed
    /\ NextIteration
    /\ UNCHANGED <<reported, draft, judged, verdict, toolCalls, completions>>

\* {"done": true, "findings": [...]}
Done(n) ==
    /\ at = "decide"
    /\ Complete
    /\ reported' = n
    /\ Retrieved(observed + n)
    /\ UNCHANGED <<iteration, observed, exceeded, draft, judged, verdict, toolCalls>>

\* Neither a tool nor done, or a tool outside the allow-list: told so, no call.
Misguided ==
    /\ at = "decide"
    /\ Complete
    /\ UNCHANGED observed
    /\ NextIteration
    /\ UNCHANGED <<reported, draft, judged, verdict, toolCalls>>

CallTool ==
    /\ at = "decide"
    /\ Complete
    /\ toolCalls' = toolCalls + 1
    /\ Goto("tool")
    /\ UNCHANGED <<iteration, observed, reported, exceeded, draft, judged, verdict>>

\* Mutant: only a successful call is a finding.
MutantToolAnswers ==
    /\ at = "tool"
    /\ observed' \in {observed, observed + 1}
    /\ NextIteration
    /\ UNCHANGED <<reported, draft, judged, verdict, toolCalls, completions>>

\* A result or a structured error: a finding either way.
ToolAnswers ==
    /\ at = "tool"
    /\ observed' = observed + 1
    /\ NextIteration
    /\ UNCHANGED <<reported, draft, judged, verdict, toolCalls, completions>>

-----------------------------------------------------------------------------
(* Draft and critique *)

Synthesize ==
    /\ at = "draft"
    /\ Complete
    /\ draft' = draft + 1
    /\ Goto("judge")
    /\ UNCHANGED <<iteration, observed, reported, exceeded, judged, verdict, toolCalls>>

Respond(approved) ==
    /\ at' = "done"
    /\ response' = [draft |-> draft, approved |-> approved,
                    exceeded |-> exceeded, toolCalls |-> toolCalls]

\* Mutant: the revised draft is returned without a second judgement.
MutantJudge(approves) ==
    /\ at = "judge"
    /\ Complete
    /\ judged' = draft
    /\ verdict' = approves
    /\ IF approves THEN Respond(TRUE) /\ UNCHANGED draft
       ELSE /\ draft' = 2
            /\ at' = "done"
            /\ response' = [draft |-> 2, approved |-> TRUE,
                            exceeded |-> exceeded, toolCalls |-> toolCalls]
    /\ UNCHANGED <<iteration, observed, reported, exceeded, toolCalls>>

\* Mutant: revise until the critic approves.
EndlessJudge(approves) ==
    /\ at = "judge"
    /\ Complete
    /\ judged' = draft
    /\ verdict' = approves
    /\ IF approves THEN Respond(TRUE) /\ UNCHANGED draft
       ELSE Goto("draft") /\ draft' = draft - 1
    /\ UNCHANGED <<iteration, observed, reported, exceeded, toolCalls>>

\* The first draft gets a revision if the critic wants one; the second does not.
Judge(approves) ==
    /\ at = "judge"
    /\ Complete
    /\ judged' = draft
    /\ verdict' = approves
    /\ IF approves \/ draft = 2 THEN Respond(approves) ELSE Goto("draft")
    /\ UNCHANGED <<iteration, observed, reported, exceeded, draft, toolCalls>>

\* A request fails, or an answer holds no JSON object: answer() raises.
Raise ==
    /\ at \notin {"done", "raised"}
    /\ \/ UNCHANGED completions
       \/ at \notin {"specs", "tool"} /\ Complete
    /\ Goto("raised")
    /\ UNCHANGED run

Next ==
    \/ Plan \/ CustomerIdMissing
    \/ FetchSpecs
    \/ \E n \in 0..MaxReported : Done(n)
    \/ Misguided \/ CallTool \/ ToolAnswers
    \/ Synthesize
    \/ \E approves \in BOOLEAN : Judge(approves)
    \/ Raise

\* Every completion and every request is answered or times out (60 s, 30 s).
Spec == Init /\ [][Next]_vars /\ WF_vars(Next)

-----------------------------------------------------------------------------
(* Properties *)

Returned == at = "done"

\* "Bounded latency" (orchestrator.py:13): whatever the model answers, a run costs at most the plan,
\* one completion per iteration, two drafts and two verdicts.
CompletionBudget == completions <= Budget

\* A draft comes back with the critic's verdict on that very draft, and an
\* unapproved one only after a revision.
VerdictIsOfDraft ==
    (Returned /\ response.draft # 0) =>
        /\ judged = response.draft
        /\ response.approved = verdict
        /\ ~response.approved => response.draft = 2

\* "Short-circuit paths (missing customer id, zero findings) must complete
\* without calling MCP tools" (docs/success-metrics.md:81-82): a call, failed or
\* not, always leaves a finding to answer with.
ShortCircuitCallsNoTool == (Returned /\ response.draft = 0) => response.toolCalls = 0

\* Every run ends, in a response or an exception.
AnswerEnds == <>(at \in {"done", "raised"})
=============================================================================
