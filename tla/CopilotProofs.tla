--------------------------- MODULE CopilotProofs ---------------------------
(* Theorems about Copilot, for any number of iterations. *)
EXTENDS Copilot, TLAPS

\* Where the run stands bounds what it has paid for so far.
Paid ==
    /\ at = "plan" => completions = 0 /\ iteration = 0
    /\ at = "specs" => completions <= 1 /\ iteration = 0
    /\ at = "decide" => completions <= iteration /\ iteration >= 1
    /\ at = "tool" => completions <= 1 + iteration /\ iteration >= 1
    /\ at = "draft" => completions <= 1 + MaxIterations + 2 * draft /\ draft <= 1
    /\ at = "judge" => completions <= MaxIterations + 2 * draft /\ draft >= 1
    /\ at \in {"plan", "specs", "decide", "tool"} => draft = 0
    /\ completions <= Budget

\* Every call of a tool is a finding, or is about to be one.
CallsObserved ==
    /\ toolCalls = IF at = "tool" THEN observed + 1 ELSE observed
    /\ observed <= iteration
    /\ at \in {"decide", "tool"} => observed < iteration

\* The inductive invariant; a run that raised during a call has one finding less.
IInv ==
    /\ TypeOK
    /\ Paid
    /\ at # "raised" => CallsObserved
    /\ VerdictIsOfDraft
    /\ ShortCircuitCallsNoTool

LEMMA InitIInv == Init => IInv
<1> SUFFICES ASSUME Init PROVE IInv
    OBVIOUS
<1> USE BoundsAssumption DEF Init
<1>1. TypeOK
    <2>1. Pending \in [draft : 0..2, approved : BOOLEAN, exceeded : BOOLEAN,
                      toolCalls : 0..MaxIterations]
        BY DEF Pending
    <2>2. exceeded \in BOOLEAN /\ verdict \in BOOLEAN
        BY Zenon
    <2>3. QED
        BY <2>1, <2>2 DEF TypeOK, At, Budget
<1>2. Paid
    BY DEF Paid, Budget
<1>3. CallsObserved
    BY DEF CallsObserved
<1>4. VerdictIsOfDraft /\ ShortCircuitCallsNoTool
    BY DEF VerdictIsOfDraft, ShortCircuitCallsNoTool, Returned
<1>5. QED
    BY <1>1, <1>2, <1>3, <1>4 DEF IInv

\* A completion costs at most one, and nothing over the budget.
LEMMA CompleteCosts ==
    ASSUME TypeOK, Complete
    PROVE  completions' \in Nat /\ completions' <= completions + 1 /\ completions' \in 0..(Budget + 1)
BY BoundsAssumption DEF TypeOK, Complete, Budget

\* What the head of the loop and its exit do, after o' findings were observed.
LEMMA LoopHead ==
    ASSUME IInv, at \in {"specs", "decide", "tool"}, NextIteration,
           observed' \in Nat, observed' <= iteration, observed' = toolCalls,
           completions' \in 0..(Budget + 1), completions' <= 1 + iteration,
           UNCHANGED <<reported, draft, judged, verdict, toolCalls>>
    PROVE  IInv'
<1> USE BoundsAssumption
<1> USE DEF IInv, TypeOK, Paid, Budget
<1>1. CASE iteration < MaxIterations
    <2>1. /\ iteration' = iteration + 1 /\ at' = "decide"
          /\ UNCHANGED <<exceeded, response>>
        BY <1>1 DEF NextIteration, Goto
    <2>2. TypeOK'
        BY <1>1, <2>1 DEF At
    <2>3. Paid'
        BY <1>1, <2>1
    <2>4. CallsObserved'
        BY <1>1, <2>1 DEF CallsObserved
    <2>5. VerdictIsOfDraft' /\ ShortCircuitCallsNoTool'
        BY <2>1 DEF VerdictIsOfDraft, ShortCircuitCallsNoTool, Returned
    <2>6. QED
        BY <2>1, <2>2, <2>3, <2>4, <2>5
<1>2. CASE ~(iteration < MaxIterations)
    <2>1. iteration' = iteration /\ exceeded' = TRUE /\ Retrieved(observed')
        BY <1>2 DEF NextIteration
    <2>2. CASE observed' = 0
        <3>1. /\ at' = "done"
              /\ response' = [draft |-> 0, approved |-> TRUE, exceeded |-> FALSE,
                              toolCalls |-> toolCalls]
            BY <2>1, <2>2 DEF Retrieved, ShortCircuit
        <3>2. TypeOK'
            BY <1>2, <2>1, <3>1 DEF At
        <3>3. Paid'
            BY <1>2, <2>1, <3>1
        <3>4. CallsObserved'
            BY <2>1, <3>1 DEF CallsObserved
        <3>5. VerdictIsOfDraft' /\ ShortCircuitCallsNoTool'
            BY <2>2, <3>1 DEF VerdictIsOfDraft, ShortCircuitCallsNoTool, Returned
        <3>6. QED
            BY <3>2, <3>3, <3>4, <3>5
    <2>3. CASE observed' # 0
        <3>1. at' = "draft" /\ UNCHANGED response
            BY <2>1, <2>3 DEF Retrieved, Goto
        <3>2. TypeOK'
            BY <1>2, <2>1, <3>1 DEF At
        <3>3. Paid'
            BY <1>2, <2>1, <3>1
        <3>4. CallsObserved'
            BY <2>1, <3>1 DEF CallsObserved
        <3>5. VerdictIsOfDraft' /\ ShortCircuitCallsNoTool'
            BY <3>1 DEF VerdictIsOfDraft, ShortCircuitCallsNoTool, Returned
        <3>6. QED
            BY <3>2, <3>3, <3>4, <3>5
    <2>4. QED
        BY <2>2, <2>3
<1>3. QED
    BY <1>1, <1>2

LEMMA NextIInv == IInv /\ [Next]_vars => IInv'
<1> SUFFICES ASSUME IInv, [Next]_vars PROVE IInv'
    OBVIOUS
<1> USE BoundsAssumption
<1> USE DEF Returned
<1>0. TypeOK /\ Paid
    BY DEF IInv
<1>1. CASE Plan
    <2>1. completions' = 1
        BY <1>0, <1>1 DEF Plan, Paid, Complete, Budget
    <2>2. QED
        BY <1>1, <2>1 DEF Plan, Goto, run, IInv, TypeOK, At, Budget, Paid, CallsObserved,
           VerdictIsOfDraft, ShortCircuitCallsNoTool
<1>2. CASE CustomerIdMissing
    <2>1. completions' = 1
        BY <1>0, <1>2 DEF CustomerIdMissing, Paid, Complete, Budget
    <2>2. toolCalls = 0
        BY <1>2 DEF CustomerIdMissing, IInv, TypeOK, Paid, CallsObserved
    <2>3. QED
        BY <1>2, <2>1, <2>2 DEF CustomerIdMissing, ShortCircuit, run, IInv, TypeOK, At, Budget,
           Paid, CallsObserved, VerdictIsOfDraft, ShortCircuitCallsNoTool
<1>3. CASE FetchSpecs
    <2>1. /\ at = "specs" /\ NextIteration
          /\ UNCHANGED <<observed, reported, draft, judged, verdict, toolCalls, completions>>
        BY <1>3 DEF FetchSpecs
    <2>2. iteration = 0 /\ observed = 0 /\ toolCalls = 0
        BY <2>1 DEF IInv, TypeOK, Paid, CallsObserved
    <2>3. completions \in 0..(Budget + 1) /\ completions <= 1
        BY <2>1, <1>0 DEF TypeOK, Paid
    <2>4. QED
        BY <2>1, <2>2, <2>3, LoopHead
<1>4. ASSUME NEW n \in 0..MaxReported, Done(n) PROVE IInv'
    <2>1. /\ at = "decide" /\ Complete /\ reported' = n /\ Retrieved(observed + n)
          /\ UNCHANGED <<iteration, observed, exceeded, draft, judged, verdict, toolCalls>>
        BY <1>4 DEF Done
    <2>2. completions' \in 0..(Budget + 1) /\ completions' <= 1 + iteration
        BY <2>1, <1>0, CompleteCosts DEF TypeOK, Paid
    <2>3. toolCalls = observed /\ observed < iteration
        BY <2>1 DEF IInv, CallsObserved
    <2>4. CASE observed + n = 0
        <3>1. /\ at' = "done"
              /\ response' = [draft |-> 0, approved |-> TRUE, exceeded |-> FALSE,
                              toolCalls |-> toolCalls]
            BY <2>1, <2>4 DEF Retrieved, ShortCircuit
        <3>2. toolCalls = 0
            BY <2>3, <2>4, <1>0, <1>4 DEF TypeOK
        <3>3. QED
            BY <2>1, <2>2, <2>3, <3>1, <3>2 DEF IInv, TypeOK, At, Budget, Paid, CallsObserved,
               VerdictIsOfDraft, ShortCircuitCallsNoTool
    <2>5. CASE observed + n # 0
        <3>1. at' = "draft" /\ UNCHANGED response
            BY <2>1, <2>5 DEF Retrieved, Goto
        <3>2. QED
            BY <2>1, <2>2, <2>3, <3>1 DEF IInv, TypeOK, At, Budget, Paid, CallsObserved,
               VerdictIsOfDraft, ShortCircuitCallsNoTool
    <2>6. QED
        BY <2>4, <2>5
<1>5. CASE Misguided
    <2>1. /\ at = "decide" /\ Complete /\ NextIteration
          /\ UNCHANGED <<observed, reported, draft, judged, verdict, toolCalls>>
        BY <1>5 DEF Misguided
    <2>2. completions' \in 0..(Budget + 1) /\ completions' <= 1 + iteration
        BY <2>1, <1>0, CompleteCosts DEF TypeOK, Paid
    <2>3. observed' \in Nat /\ observed' <= iteration /\ observed' = toolCalls
        BY <2>1 DEF IInv, TypeOK, CallsObserved
    <2>4. QED
        BY <2>1, <2>2, <2>3, LoopHead
<1>6. CASE CallTool
    <2>1. at = "decide" /\ Complete /\ at' = "tool" /\ toolCalls' = toolCalls + 1
        BY <1>6 DEF CallTool, Goto
    <2>2. completions' \in 0..(Budget + 1) /\ completions' <= 1 + iteration
        BY <2>1, <1>0, CompleteCosts DEF TypeOK, Paid
    <2>3. toolCalls = observed /\ observed < iteration
        BY <2>1 DEF IInv, CallsObserved
    <2>4. QED
        BY <1>6, <2>1, <2>2, <2>3 DEF CallTool, Goto, IInv, TypeOK, At, Budget, Paid,
           CallsObserved, VerdictIsOfDraft, ShortCircuitCallsNoTool
<1>7. CASE ToolAnswers
    <2>1. /\ at = "tool" /\ NextIteration /\ observed' = observed + 1
          /\ UNCHANGED <<reported, draft, judged, verdict, toolCalls, completions>>
        BY <1>7 DEF ToolAnswers
    <2>2. completions \in 0..(Budget + 1) /\ completions <= 1 + iteration
        BY <2>1, <1>0 DEF TypeOK, Paid
    <2>3. observed' \in Nat /\ observed' <= iteration /\ observed' = toolCalls
        BY <2>1 DEF IInv, TypeOK, CallsObserved
    <2>4. QED
        BY <2>1, <2>2, <2>3, LoopHead
<1>8. CASE Synthesize
    <2>1. at = "draft" /\ Complete /\ at' = "judge" /\ draft' = draft + 1
        BY <1>8 DEF Synthesize, Goto
    <2>2. completions' \in 0..(Budget + 1) /\ completions' <= completions + 1
        BY <2>1, <1>0, CompleteCosts
    <2>3. QED
        BY <1>8, <2>1, <2>2 DEF Synthesize, Goto, IInv, TypeOK, At, Budget, Paid, CallsObserved,
           VerdictIsOfDraft, ShortCircuitCallsNoTool
<1>9. ASSUME NEW approves \in BOOLEAN, Judge(approves) PROVE IInv'
    <2>1. /\ at = "judge" /\ Complete /\ judged' = draft /\ verdict' = approves
          /\ UNCHANGED <<iteration, observed, reported, exceeded, draft, toolCalls>>
        BY <1>9 DEF Judge
    <2>2. completions' \in 0..(Budget + 1) /\ completions' <= completions + 1
        BY <2>1, <1>0, CompleteCosts
    <2>3. CASE approves \/ draft = 2
        <3>1. /\ at' = "done"
              /\ response' = [draft |-> draft, approved |-> approves,
                              exceeded |-> exceeded, toolCalls |-> toolCalls]
            BY <1>9, <2>3 DEF Judge, Respond
        <3>2. QED
            BY <1>9, <2>1, <2>2, <2>3, <3>1 DEF IInv, TypeOK, At, Budget, Paid, CallsObserved,
               VerdictIsOfDraft, ShortCircuitCallsNoTool
    <2>4. CASE ~(approves \/ draft = 2)
        <3>1. at' = "draft" /\ UNCHANGED response
            BY <1>9, <2>4 DEF Judge, Goto
        <3>2. draft = 1
            BY <1>0, <2>1, <2>4 DEF TypeOK, Paid
        <3>3. QED
            BY <1>9, <2>1, <2>2, <3>1, <3>2 DEF IInv, TypeOK, At, Budget, Paid, CallsObserved,
               VerdictIsOfDraft, ShortCircuitCallsNoTool
    <2>5. QED
        BY <2>3, <2>4
<1>10. CASE Raise
    <2>1. at \notin {"done", "raised"} /\ at' = "raised" /\ UNCHANGED response /\ UNCHANGED run
        BY <1>10 DEF Raise, Goto
    <2>2. completions' \in 0..Budget
        <3>1. CASE UNCHANGED completions
            BY <3>1, <1>0 DEF TypeOK, Paid, Budget
        <3>2. CASE at \notin {"specs", "tool"} /\ Complete
            <4>1. completions' \in Nat /\ completions' <= completions + 1
                BY <3>2, <1>0, CompleteCosts
            <4>2. completions + 1 <= Budget
                BY <3>2, <2>1, <1>0 DEF TypeOK, At, Paid, Budget
            <4>3. QED
                BY <4>1, <4>2, <1>0 DEF TypeOK, Budget
        <3>3. QED
            BY <1>10, <3>1, <3>2 DEF Raise
    <2>3. QED
        BY <2>1, <2>2 DEF run, IInv, TypeOK, At, Budget, Paid, VerdictIsOfDraft,
           ShortCircuitCallsNoTool
<1>11. CASE UNCHANGED vars
    BY <1>11 DEF vars, run, IInv, TypeOK, Paid, CallsObserved, VerdictIsOfDraft,
       ShortCircuitCallsNoTool
<1>12. QED
    BY <1>1, <1>2, <1>3, <1>4, <1>5, <1>6, <1>7, <1>8, <1>9, <1>10, <1>11 DEF Next

LEMMA Invariance == Spec => []IInv
<1>1. QED
    BY InitIInv, NextIInv, PTL DEF Spec

\* The variables of a run keep their types, whatever the model answers.
THEOREM TypeCorrect == Spec => []TypeOK
<1>1. IInv => TypeOK
    BY DEF IInv
<1>2. QED
    BY <1>1, Invariance, PTL

\* A run never pays for more completions than its budget (orchestrator.py:13).
THEOREM BudgetHolds == Spec => []CompletionBudget
<1>1. IInv => CompletionBudget
    BY DEF IInv, Paid, CompletionBudget
<1>2. QED
    BY <1>1, Invariance, PTL

\* The verdict answered is the critic's, on the draft answered (orchestrator.py:135-165).
THEOREM VerdictOfDraft == Spec => []VerdictIsOfDraft
<1>1. IInv => VerdictIsOfDraft
    BY DEF IInv
<1>2. QED
    BY <1>1, Invariance, PTL

\* A short-circuited run has called no tool (orchestrator.py:103-131).
THEOREM ShortCircuitsAreFree == Spec => []ShortCircuitCallsNoTool
<1>1. IInv => ShortCircuitCallsNoTool
    BY DEF IInv
<1>2. QED
    BY <1>1, Invariance, PTL
=============================================================================
