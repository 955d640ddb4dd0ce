--------------------------- MODULE FanOutProofs ---------------------------
(* Theorems about FanOut, for any documents, answers and number of attempts: *)
(* first the tasks, then the fused ranking.                                  *)
EXTENDS FanOut, FiniteSetTheorems, SequenceTheorems, WellFoundedInduction, TLAPS

TaskState == {"none", "running", "ok", "failed", "cancelling", "cancelled"}

Under == {"running", "cancelling"}

\* Of every attempt, only the parts of this tool are ever tasks.
CallTyped ==
    /\ tool \in {"customer", "hybrid"}
    /\ asked \subseteq Optional
    /\ at \in At
    /\ attempt \in 1..MaxAttempts
    /\ at = "backoff" => attempt < MaxAttempts
    /\ task \in [1..MaxAttempts -> [Part -> TaskState]]
    /\ \A a \in 1..MaxAttempts, p \in Part \ Parts : task[a][p] = "none"

\* What gather awaits: no task is cancelled before gather is, and once it is
\* every task has been told.
Awaiting ==
    \A p \in Parts :
        /\ at = "gather" => task[attempt][p] \in {"running", "ok", "failed"}
        /\ at = "cancelling" => task[attempt][p] # "running"

\* A customer context is gathered once, and ends when its last part has.
CustomerInv ==
    tool = "customer" =>
        /\ at \in {"gather", "cancelling", "returned", "cancelled"}
        /\ at \in Ending => AllEnded(task[attempt])
        /\ at = "returned" =>
              /\ \A p \in Parts : task[attempt][p] \in {"ok", "failed"}
              /\ context = [sections |-> {p \in Parts : task[attempt][p] = "ok"},
                            errors |-> {p \in Parts : task[attempt][p] # "ok"}]

TasksInv == CallTyped /\ Awaiting /\ CustomerInv /\ StragglersHaveFailedSibling

LEMMA PartsAreParts == asked \subseteq Optional => Parts \subseteq Part
  BY DEF Parts, Part

-----------------------------------------------------------------------------
(* The tasks *)

LEMMA TasksInit == Init => TasksInv
<1> SUFFICES ASSUME Init PROVE TasksInv
  OBVIOUS
<1> USE ConstantsAssumption
<1>1. /\ tool \in {"customer", "hybrid"} /\ asked \subseteq Optional
      /\ at = "gather" /\ attempt = 1 /\ 1 \in 1..MaxAttempts
      /\ task = [a \in 1..MaxAttempts |-> IF a = 1 THEN Spawned ELSE NoTask]
  BY DEF Init
<1>2. /\ Spawned \in [Part -> TaskState] /\ NoTask \in [Part -> TaskState]
      /\ \A p \in Part : NoTask[p] = "none" /\ (p \notin Parts => Spawned[p] = "none")
      /\ \A p \in Parts : Spawned[p] = "running"
  BY <1>1, PartsAreParts DEF Spawned, NoTask, TaskState
<1>3. /\ task[1] = Spawned
      /\ \A a \in 1..MaxAttempts : task[a] = Spawned \/ task[a] = NoTask
      /\ \A a \in 1..MaxAttempts : a # 1 => task[a] = NoTask
  BY <1>1
<1>4. CallTyped
  BY <1>1, <1>2, <1>3 DEF CallTyped, At
<1>5. Awaiting /\ CustomerInv
  BY <1>1, <1>2, <1>3 DEF Awaiting, CustomerInv, Ending
<1>6. StragglersHaveFailedSibling
  BY <1>1, <1>2, <1>3 DEF StragglersHaveFailedSibling, Awaited
<1>7. QED
  BY <1>4, <1>5, <1>6 DEF TasksInv

\* The task that ends is the only one that changes.
LEMMA PartEffect ==
  ASSUME CallTyped, NEW a \in 1..MaxAttempts, NEW p \in Part,
         NEW outcome \in {"ok", "failed", "cancelled"}, PartEnds(a, p, outcome)
  PROVE  /\ p \in Parts /\ Parts \subseteq Part /\ Parts' = Parts
         /\ task[a][p] = IF outcome = "cancelled" THEN "cancelling" ELSE "running"
         /\ task' \in [1..MaxAttempts -> [Part -> TaskState]]
         /\ task'[a][p] = outcome
         /\ \A q \in Part : q # p => task'[a][q] = task[a][q]
         /\ \A b \in 1..MaxAttempts : b # a => task'[b] = task[b]
<1>1. /\ tool' = tool /\ asked' = asked
      /\ task[a][p] = IF outcome = "cancelled" THEN "cancelling" ELSE "running"
      /\ task' = [task EXCEPT ![a][p] = outcome]
  BY DEF PartEnds, call
<1>2. Parts \subseteq Part /\ Parts' = Parts
  BY <1>1, PartsAreParts DEF CallTyped, Parts
<1>3. p \in Parts
  BY <1>1 DEF CallTyped
<1>4. /\ task' \in [1..MaxAttempts -> [Part -> TaskState]]
      /\ task'[a][p] = outcome
      /\ \A q \in Part : q # p => task'[a][q] = task[a][q]
      /\ \A b \in 1..MaxAttempts : b # a => task'[b] = task[b]
  BY <1>1 DEF CallTyped, TaskState
<1>5. QED
  BY <1>1, <1>2, <1>3, <1>4

\* A part of an attempt that nobody awaits ends: its siblings stay as they are.
LEMMA StrayEnds ==
  ASSUME TasksInv, NEW a \in 1..MaxAttempts, NEW p \in Part,
         NEW outcome \in {"ok", "failed", "cancelled"}, PartEnds(a, p, outcome), ~Awaited(a)
  PROVE  TasksInv'
<1>1. /\ p \in Parts /\ Parts \subseteq Part /\ Parts' = Parts
      /\ task[a][p] \in Under
      /\ task' \in [1..MaxAttempts -> [Part -> TaskState]]
      /\ task'[a][p] = outcome
      /\ \A q \in Part : q # p => task'[a][q] = task[a][q]
      /\ \A b \in 1..MaxAttempts : b # a => task'[b] = task[b]
  BY PartEffect DEF TasksInv, Under
<1>2. UNCHANGED <<tool, asked, at, attempt, context>>
  BY DEF PartEnds, call
<1>3. CallTyped'
  BY <1>1, <1>2 DEF TasksInv, CallTyped
<1>4. attempt \in 1..MaxAttempts /\ (a = attempt => at \notin {"gather", "cancelling"})
  BY DEF TasksInv, CallTyped, Awaited
<1>5. Awaiting'
  BY <1>1, <1>2, <1>4 DEF TasksInv, Awaiting
<1>6. CustomerInv'
  <2>1. SUFFICES ASSUME tool = "customer" PROVE CustomerInv'
    BY <1>2 DEF CustomerInv
  <2>2. a # attempt
    BY <1>1, <1>4, <2>1 DEF TasksInv, CustomerInv, AllEnded, Ending, Under
  <2>3. task'[attempt] = task[attempt]
    BY <1>1, <1>4, <2>2
  <2>4. QED
    BY <1>1, <1>2, <2>3 DEF TasksInv, CustomerInv, AllEnded
<1>7. StragglersHaveFailedSibling'
  <2>1. SUFFICES ASSUME NEW b \in 1..MaxAttempts, NEW q \in Part,
                        task'[b][q] = "running", ~Awaited(b)'
                 PROVE  \E r \in Part \ {q} : task'[b][r] = "failed"
    BY DEF StragglersHaveFailedSibling
  <2>2. ~Awaited(b) /\ task[b][q] = "running"
    BY <1>1, <1>2, <2>1 DEF Awaited
  <2>3. PICK r \in Part \ {q} : task[b][r] = "failed"
    BY <2>2 DEF TasksInv, StragglersHaveFailedSibling
  <2>4. task'[b][r] = "failed"
    BY <1>1, <2>3 DEF Under
  <2>5. QED
    BY <2>3, <2>4
<1>8. QED
  BY <1>3, <1>5, <1>6, <1>7 DEF TasksInv

\* A section of the customer context ends, and with the last one the gather.
LEMMA SectionEnds ==
  ASSUME TasksInv, NEW p \in Part, NEW outcome \in {"ok", "failed", "cancelled"},
         PartEnds(attempt, p, outcome), Awaited(attempt), tool = "customer"
  PROVE  TasksInv'
<1>1. attempt \in 1..MaxAttempts /\ at \in {"gather", "cancelling"}
  BY DEF TasksInv, CallTyped, Awaited
<1>2. /\ p \in Parts /\ Parts \subseteq Part /\ Parts' = Parts
      /\ task[attempt][p] = IF outcome = "cancelled" THEN "cancelling" ELSE "running"
      /\ task' \in [1..MaxAttempts -> [Part -> TaskState]]
      /\ task'[attempt][p] = outcome
      /\ \A q \in Part : q # p => task'[attempt][q] = task[attempt][q]
      /\ \A b \in 1..MaxAttempts : b # attempt => task'[b] = task[b]
  BY <1>1, PartEffect DEF TasksInv
<1>3. UNCHANGED <<tool, asked, attempt>> /\ GatherAll(task'[attempt])
  BY DEF PartEnds, call
<1>4. \A q \in Parts : /\ at = "gather" => task'[attempt][q] \in {"running", "ok", "failed"}
                       /\ at = "cancelling" => task'[attempt][q] # "running"
  BY <1>2 DEF TasksInv, Awaiting
<1>5. \A q \in Part \ Parts : task'[attempt][q] = "none"
  BY <1>1, <1>2 DEF TasksInv, CallTyped
<1>6. ASSUME at' \in At, at' # "backoff" PROVE CallTyped'
  BY <1>1, <1>2, <1>3, <1>6 DEF TasksInv, CallTyped
<1>7. ASSUME at' \in {"gather", "cancelling"} \/ AllEnded(task'[attempt])
      PROVE  StragglersHaveFailedSibling'
  <2>1. SUFFICES ASSUME NEW b \in 1..MaxAttempts, NEW q \in Part,
                        task'[b][q] = "running", ~Awaited(b)'
                 PROVE  \E r \in Part \ {q} : task'[b][r] = "failed"
    BY DEF StragglersHaveFailedSibling
  <2>2. b # attempt
    BY <1>3, <1>5, <1>7, <2>1 DEF Awaited, AllEnded
  <2>3. task'[b] = task[b] /\ ~Awaited(b)
    BY <1>2, <2>2 DEF Awaited
  <2>4. QED
    BY <2>1, <2>3 DEF TasksInv, StragglersHaveFailedSibling
<1>8. CASE ~AllEnded(task'[attempt])
  <2>1. at' = at
    BY <1>3, <1>8 DEF GatherAll, Suspended
  <2>2. QED
    BY <1>1, <1>2, <1>3, <1>4, <1>6, <1>7, <2>1 DEF TasksInv, Awaiting, CustomerInv, At, Ending
<1>9. CASE AllEnded(task'[attempt]) /\ at = "cancelling"
  <2>1. at' = "cancelled"
    BY <1>3, <1>9 DEF GatherAll, Suspended
  <2>2. AllEnded(task[attempt])'
    BY <1>2, <1>3, <1>9 DEF AllEnded
  <2>3. QED
    BY <1>6, <1>7, <1>9, <2>1, <2>2 DEF TasksInv, Awaiting, CustomerInv, At, Ending
<1>10. CASE AllEnded(task'[attempt]) /\ at = "gather"
  <2>1. /\ at' = "returned"
        /\ context' = [sections |-> {q \in Parts : task'[attempt][q] = "ok"},
                       errors |-> {q \in Parts : task'[attempt][q] # "ok"}]
    BY <1>3, <1>10 DEF GatherAll, ReturnContext
  <2>2. AllEnded(task[attempt])'
    BY <1>2, <1>3, <1>10 DEF AllEnded
  <2>3. \A q \in Parts : task'[attempt][q] \in {"ok", "failed"}
    BY <1>4, <1>10 DEF AllEnded
  <2>4. QED
    BY <1>2, <1>3, <1>6, <1>7, <1>10, <2>1, <2>2, <2>3
       DEF TasksInv, Awaiting, CustomerInv, At, Ending
<1>11. QED
  BY <1>1, <1>8, <1>9, <1>10

\* A part of hybrid_search ends: the first failure leaves the other part where
\* it is, and is the sibling of which the property speaks.
LEMMA HalfEnds ==
  ASSUME TasksInv, NEW p \in Part, NEW outcome \in {"ok", "failed", "cancelled"},
         PartEnds(attempt, p, outcome), Awaited(attempt), tool # "customer"
  PROVE  TasksInv'
<1>1. attempt \in 1..MaxAttempts /\ at \in {"gather", "cancelling"}
  BY DEF TasksInv, CallTyped, Awaited
<1>2. /\ p \in Parts /\ Parts \subseteq Part /\ Parts' = Parts
      /\ task[attempt][p] = IF outcome = "cancelled" THEN "cancelling" ELSE "running"
      /\ task' \in [1..MaxAttempts -> [Part -> TaskState]]
      /\ task'[attempt][p] = outcome
      /\ \A q \in Part : q # p => task'[attempt][q] = task[attempt][q]
      /\ \A b \in 1..MaxAttempts : b # attempt => task'[b] = task[b]
  BY <1>1, PartEffect DEF TasksInv
<1>3. UNCHANGED <<tool, asked, attempt>> /\ GatherFirst(task'[attempt], outcome)
  BY DEF PartEnds, call
<1>4. \A q \in Part \ Parts : task'[attempt][q] = "none"
  BY <1>1, <1>2 DEF TasksInv, CallTyped
<1>5. ASSUME at' \in At, at' = "backoff" => attempt < MaxAttempts PROVE CallTyped'
  BY <1>1, <1>2, <1>3, <1>5 DEF TasksInv, CallTyped
<1>6. CustomerInv'
  BY <1>3 DEF CustomerInv
<1>7. ASSUME \/ at' \in {"gather", "cancelling"}
             \/ \A q \in Parts : q # p => task'[attempt][q] # "running"
             \/ outcome = "failed"
      PROVE  StragglersHaveFailedSibling'
  <2>1. SUFFICES ASSUME NEW b \in 1..MaxAttempts, NEW q \in Part,
                        task'[b][q] = "running", ~Awaited(b)'
                 PROVE  \E r \in Part \ {q} : task'[b][r] = "failed"
    BY DEF StragglersHaveFailedSibling
  <2>2. CASE b # attempt
    <3>1. task'[b] = task[b] /\ ~Awaited(b)
      BY <1>2, <2>2 DEF Awaited
    <3>2. QED
      BY <2>1, <3>1 DEF TasksInv, StragglersHaveFailedSibling
  <2>3. CASE b = attempt
    <3>1. q # p /\ q \in Parts
      BY <1>2, <1>4, <2>1, <2>3
    <3>2. outcome = "failed"
      BY <1>3, <1>7, <2>1, <2>3, <3>1 DEF Awaited
    <3>3. QED
      BY <1>2, <2>3, <3>1, <3>2
  <2>4. QED
    BY <2>2, <2>3
<1>8. CASE outcome = "ok"
  <2>1. at = "gather"
    BY <1>1, <1>2, <1>8 DEF TasksInv, Awaiting
  <2>2. at' = IF AllEnded(task'[attempt]) THEN "vector" ELSE "gather"
    BY <1>3, <1>8, <2>1 DEF GatherFirst, Suspended
  <2>3. Awaiting'
    BY <1>2, <1>3, <1>8, <2>1, <2>2 DEF TasksInv, Awaiting
  <2>4. at' = "gather" \/ \A q \in Parts : q # p => task'[attempt][q] # "running"
    BY <2>2 DEF AllEnded
  <2>5. QED
    BY <1>5, <1>6, <1>7, <2>2, <2>3, <2>4 DEF TasksInv, At
<1>9. CASE outcome = "failed"
  <2>1. at' \in {"backoff", "raised"} /\ (at' = "backoff" => attempt < MaxAttempts)
    BY <1>3, <1>9 DEF GatherFirst, Fail
  <2>2. QED
    BY <1>5, <1>6, <1>7, <1>9, <2>1 DEF TasksInv, Awaiting, At, Ending
<1>10. CASE outcome = "cancelled"
  <2>1. at = "cancelling"
    BY <1>1, <1>2, <1>10 DEF TasksInv, Awaiting
  <2>2. at' = "cancelled"
    BY <1>3, <1>10 DEF GatherFirst, Suspended
  <2>3. \A q \in Parts : q # p => task'[attempt][q] # "running"
    BY <1>2, <2>1 DEF TasksInv, Awaiting
  <2>4. QED
    BY <1>5, <1>6, <1>7, <2>2, <2>3 DEF TasksInv, Awaiting, At, Ending
<1>11. QED
  BY <1>8, <1>9, <1>10

\* After the gather, between two attempts or at the end no task is awaited.
LEMMA AwaitElsewhere ==
  ASSUME TasksInv, at \notin {"gather", "cancelling"}, at' \notin {"gather", "cancelling"},
         at' \in At, at' = "backoff" => attempt < MaxAttempts, tool # "customer",
         UNCHANGED <<tool, asked, attempt, task>>
  PROVE  TasksInv'
<1>1. CallTyped'
  BY DEF TasksInv, CallTyped, Parts
<1>2. StragglersHaveFailedSibling'
  BY DEF TasksInv, StragglersHaveFailedSibling, Awaited
<1>3. QED
  BY <1>1, <1>2 DEF TasksInv, Awaiting, CustomerInv

LEMMA RetryTasks == TasksInv /\ Retry => TasksInv'
<1> SUFFICES ASSUME TasksInv, Retry PROVE TasksInv'
  OBVIOUS
<1>1. /\ at = "backoff" /\ attempt \in 1..MaxAttempts /\ attempt < MaxAttempts
      /\ at' = "gather" /\ attempt' = attempt + 1 /\ UNCHANGED <<tool, asked>>
      /\ task' = [task EXCEPT ![attempt + 1] = Spawned]
  BY DEF TasksInv, CallTyped, Retry, Suspended, call
<1>2. attempt' \in 1..MaxAttempts /\ Parts' = Parts /\ Parts \subseteq Part
  BY <1>1, ConstantsAssumption, PartsAreParts DEF TasksInv, CallTyped, Parts
<1>3. /\ Spawned \in [Part -> TaskState]
      /\ \A p \in Part \ Parts : Spawned[p] = "none"
      /\ \A p \in Parts : Spawned[p] = "running"
  BY <1>2 DEF Spawned, TaskState
<1>4. /\ task' \in [1..MaxAttempts -> [Part -> TaskState]]
      /\ task'[attempt'] = Spawned
      /\ \A a \in 1..MaxAttempts : a # attempt' => task'[a] = task[a]
  BY <1>1, <1>2, <1>3 DEF TasksInv, CallTyped
<1>5. CallTyped'
  BY <1>1, <1>2, <1>3, <1>4 DEF TasksInv, CallTyped, At
<1>6. Awaiting'
  BY <1>1, <1>2, <1>3, <1>4 DEF Awaiting
<1>7. CustomerInv'
  BY <1>1 DEF TasksInv, CustomerInv
<1>8. StragglersHaveFailedSibling'
  BY <1>1, <1>4 DEF TasksInv, StragglersHaveFailedSibling, Awaited
<1>9. QED
  BY <1>5, <1>6, <1>7, <1>8 DEF TasksInv

LEMMA CancelTasks == TasksInv /\ Cancel => TasksInv'
<1> SUFFICES ASSUME TasksInv, Cancel PROVE TasksInv'
  OBVIOUS
<1> DEFINE told == [p \in Part |-> IF at = "gather" /\ task[attempt][p] = "running"
                                  THEN "cancelling" ELSE task[attempt][p]]
<1>1. /\ at \in {"gather", "vector", "backoff"}
      /\ at' = IF at = "gather" THEN "cancelling" ELSE "cancelled"
      /\ task' = [task EXCEPT ![attempt] = told]
      /\ attempt \in 1..MaxAttempts /\ UNCHANGED <<tool, asked, attempt>>
  BY DEF TasksInv, CallTyped, Cancel, Suspended, call
<1>2. task[attempt] \in [Part -> TaskState] /\ Parts' = Parts /\ Parts \subseteq Part
  BY <1>1, PartsAreParts DEF TasksInv, CallTyped, Parts
<1>3. /\ told \in [Part -> TaskState]
      /\ \A p \in Part : told[p] \in {"running", "none", "failed"} => told[p] = task[attempt][p]
      /\ \A p \in Part : task[attempt][p] \in {"none", "failed"} => told[p] = task[attempt][p]
      /\ \A p \in Part : told[p] = "running" => at # "gather"
  BY <1>2 DEF TaskState
<1> HIDE DEF told
<1>4. /\ task' \in [1..MaxAttempts -> [Part -> TaskState]] /\ task'[attempt] = told
      /\ \A a \in 1..MaxAttempts : a # attempt => task'[a] = task[a]
  BY <1>1, <1>3 DEF TasksInv, CallTyped
<1>5. CallTyped'
  BY <1>1, <1>2, <1>3, <1>4 DEF TasksInv, CallTyped, At, Ending
<1>6. Awaiting'
  BY <1>1, <1>2, <1>3, <1>4 DEF Awaiting
<1>7. CustomerInv'
  BY <1>1 DEF TasksInv, CustomerInv, Ending
<1>8. StragglersHaveFailedSibling'
  <2>1. SUFFICES ASSUME NEW a \in 1..MaxAttempts, NEW p \in Part,
                        task'[a][p] = "running", ~Awaited(a)'
                 PROVE  \E q \in Part \ {p} : task'[a][q] = "failed"
    BY DEF StragglersHaveFailedSibling
  <2>2. task[a][p] = "running" /\ ~Awaited(a)
    BY <1>1, <1>3, <1>4, <2>1 DEF Awaited
  <2>3. PICK q \in Part \ {p} : task[a][q] = "failed"
    BY <2>2 DEF TasksInv, StragglersHaveFailedSibling
  <2>4. task'[a][q] = "failed"
    BY <1>3, <1>4, <2>3
  <2>5. QED
    BY <2>3, <2>4
<1>9. QED
  BY <1>5, <1>6, <1>7, <1>8 DEF TasksInv

LEMMA TasksStep == TasksInv /\ [Next]_vars => TasksInv'
<1> SUFFICES ASSUME TasksInv, [Next]_vars PROVE TasksInv'
  OBVIOUS
<1>1. ASSUME NEW a \in 1..MaxAttempts, NEW p \in Part,
             NEW outcome \in {"ok", "failed", "cancelled"}, PartEnds(a, p, outcome)
      PROVE  TasksInv'
  <2>1. CASE ~Awaited(a)
    BY <1>1, <2>1, StrayEnds
  <2>2. CASE Awaited(a)
    <3>1. a = attempt
      BY <2>2 DEF Awaited
    <3>2. QED
      BY <1>1, <2>2, <3>1, SectionEnds, HalfEnds
  <2>3. QED
    BY <2>1, <2>2
<1>2. CASE \E a \in 1..MaxAttempts, p \in Part :
              PartAnswers(a, p) \/ PartFails(a, p) \/ PartCancelled(a, p)
  BY <1>1, <1>2 DEF PartAnswers, PartFails, PartCancelled
<1>3. CASE VectorAnswers
  BY <1>3, AwaitElsewhere DEF VectorAnswers, call, TasksInv, CustomerInv, At, Ending
<1>4. CASE VectorFails
  BY <1>4, AwaitElsewhere DEF VectorFails, Fail, call, TasksInv, CustomerInv, At, Ending
<1>5. CASE Retry
  BY <1>5, RetryTasks
<1>6. CASE Cancel
  BY <1>6, CancelTasks
<1>7. CASE UNCHANGED vars
  BY <1>7 DEF vars, call, TasksInv, CallTyped, Parts, Awaiting, CustomerInv, AllEnded,
              StragglersHaveFailedSibling, Awaited
<1>8. QED
  BY <1>2, <1>3, <1>4, <1>5, <1>6, <1>7 DEF Next

LEMMA TasksHold == Spec => []TasksInv
  BY TasksInit, TasksStep, PTL DEF Spec

\* build_customer_context: no failure of a part fails the tool, and every
\* section asked for is in the context or among its partial errors.
THEOREM ContextIsPartial == Spec => []PartialContext
<1>1. TasksInv => PartialContext
  BY DEF TasksInv, CustomerInv, PartialContext, Ending
<1>2. QED
  BY <1>1, TasksHold, PTL

\* build_customer_context: no query runs on behind it, cancelled or not.
THEOREM ContextIsTidy == Spec => []ContextLeavesNothing
<1>1. TasksInv => ContextLeavesNothing
  BY DEF TasksInv, CallTyped, CustomerInv, AllEnded, ContextLeavesNothing
<1>2. QED
  BY <1>1, TasksHold, PTL

\* hybrid_search: a part runs on unawaited only where its sibling failed, in
\* whichever attempt, however the retries and the cancellation fall.
THEOREM StragglersAreSiblings == Spec => []StragglersHaveFailedSibling
<1>1. TasksInv => StragglersHaveFailedSibling
  BY DEF TasksInv
<1>2. QED
  BY <1>1, TasksHold, PTL

-----------------------------------------------------------------------------
(* Positions in a list *)

\* The induction that the lemmas about lists rest on: WFMin for < on Nat.
LEMMA LeastElement ==
  ASSUME NEW T \in SUBSET Nat, T # {}
  PROVE  \E x \in T : \A y \in T : x <= y
<1> DEFINE R == OpToRel(<, Nat)
<1>1. IsWellFoundedOn(R, Nat)
  BY NatLessThanWellFounded
<1>2. PICK x \in T : \A y \in T : <<y, x>> \notin R
  <2> HIDE DEF R
  <2>1. QED
    BY <1>1, WFMin
<1>3. \A y \in T : ~(y < x)
  BY <1>2 DEF OpToRel
<1>4. QED
  BY <1>3

LEMMA LastElement ==
  ASSUME NEW n \in Nat, NEW P \in SUBSET (1..n), P # {}
  PROVE  \E i \in P : \A j \in P : j <= i
<1> DEFINE Bounds == {k \in Nat : \A j \in P : j <= k}
<1>1. n \in Bounds
  OBVIOUS
<1>2. PICK k \in Bounds : \A m \in Bounds : k <= m
  BY <1>1, LeastElement
<1>3. k \in P
  <2>1. SUFFICES ASSUME k \notin P PROVE FALSE
    OBVIOUS
  <2>2. \A j \in P : j <= k - 1
    BY <1>2, <2>1
  <2>3. k - 1 \in Nat
    <3>1. PICK j \in P : TRUE
      OBVIOUS
    <3>2. j \in 1..n /\ j <= k - 1 /\ k \in Nat
      BY <1>2, <2>2
    <3>3. QED
      BY <3>2
  <2>4. k - 1 \in Bounds
    BY <2>2, <2>3
  <2>5. QED
    BY <1>2, <2>4
<1>4. QED
  BY <1>2, <1>3

LEMMA HitsAreLists ==
  ASSUME NEW list \in Hits
  PROVE  /\ list \in Seq(Docs) /\ Len(list) \in Nat
         /\ \A i \in 1..Len(list) : list[i] \in Docs
         /\ ToSet(list) = {list[i] : i \in 1..Len(list)}
<1>1. PICK m \in 0..MaxHits : list \in [1..m -> Docs]
  BY DEF Hits, BoundedSeq, SeqOf
<1>2. list \in Seq(Docs) /\ Len(list) = m
  BY <1>1, ConstantsAssumption
<1>3. QED
  BY <1>1, <1>2, ConstantsAssumption DEF ToSet

\* The rank of a document is its last position.
LEMMA RankIsLast ==
  ASSUME NEW list \in Hits, NEW d, NEW k \in 1..Len(list), list[k] = d
  PROVE  /\ Rank(list, d) \in 1..Len(list)
         /\ list[Rank(list, d)] = d
         /\ k <= Rank(list, d)
<1> DEFINE P == {i \in 1..Len(list) : list[i] = d}
<1>1. Len(list) \in Nat
  BY HitsAreLists
<1>2. PICK i \in P : \A j \in P : j <= i
  <2>1. P \in SUBSET (1..Len(list)) /\ P # {}
    OBVIOUS
  <2>2. QED
    BY <1>1, <2>1, LastElement
<1>3. \A j \in (i + 1)..Len(list) : list[j] # d
  BY <1>1, <1>2
<1> DEFINE r == Rank(list, d)
<1>4. r \in 1..Len(list) /\ list[r] = d /\ \A j \in (r + 1)..Len(list) : list[j] # d
  BY <1>2, <1>3 DEF Rank
<1> HIDE DEF r
<1>5. k <= r
  BY <1>1, <1>4
<1>6. QED
  BY <1>4, <1>5 DEF r

-----------------------------------------------------------------------------
(* Scores *)

\* A fraction that is at least as large in one list and larger in the other.
LEMMA SumsCompare ==
  ASSUME NEW a \in Nat, NEW b \in Nat \ {0}, NEW c \in Nat, NEW d \in Nat \ {0},
         NEW a2 \in Nat, NEW b2 \in Nat \ {0}, NEW c2 \in Nat, NEW d2 \in Nat \ {0},
         a * d >= c * b, a2 * d2 >= c2 * b2,
         a * d > c * b \/ a2 * d2 > c2 * b2
  PROVE  Above(Sum2(<<a, b>>, <<a2, b2>>), Sum2(<<c, d>>, <<c2, d2>>))
<1> DEFINE u == b2 * d2
           v == b * d
           x == a * d
           y == c * b
           x2 == a2 * d2
           y2 == c2 * b2
<1>1. u \in Nat \ {0} /\ v \in Nat \ {0}
  OBVIOUS
<1>2. x \in Nat /\ y \in Nat /\ x2 \in Nat /\ y2 \in Nat
  OBVIOUS
<1>3. (a * b2 + a2 * b) * (d * d2) = x * u + x2 * v
  OBVIOUS
<1>4. (c * d2 + c2 * d) * (b * b2) = y * u + y2 * v
  OBVIOUS
<1>5. x >= y /\ x2 >= y2 /\ (x > y \/ x2 > y2)
  OBVIOUS
<1> HIDE DEF u, v, x, y, x2, y2
<1>6. x * u + x2 * v > y * u + y2 * v
  <2>1. x * u >= y * u /\ x2 * v >= y2 * v
    BY <1>1, <1>2, <1>5
  <2>2. x > y => x * u > y * u
    BY <1>1, <1>2
  <2>3. x2 > y2 => x2 * v > y2 * v
    BY <1>1, <1>2
  <2>4. x * u \in Nat /\ y * u \in Nat /\ x2 * v \in Nat /\ y2 * v \in Nat
    BY <1>1, <1>2
  <2>5. QED
    BY <1>5, <2>1, <2>2, <2>3, <2>4
<1>7. QED
  BY <1>3, <1>4, <1>6 DEF Above, Sum2

Found(list, d) == \E i \in 1..Len(list) : list[i] = d

LEMMA ShareType ==
  ASSUME NEW list \in Hits, NEW d
  PROVE  \E a \in Nat, b \in Nat \ {0} : Share(list, d) = <<a, b>>
<1>1. CASE Found(list, d)
  <2>1. Rank(list, d) \in 1..Len(list) /\ Len(list) \in Nat
    BY <1>1, RankIsLast, HitsAreLists DEF Found
  <2>2. RrfK + Rank(list, d) \in Nat \ {0}
    BY <2>1, ConstantsAssumption
  <2>3. Share(list, d) = <<1, RrfK + Rank(list, d)>>
    BY <1>1 DEF Share, Found
  <2>4. QED
    BY <2>2, <2>3
<1>2. CASE ~Found(list, d)
  <2>1. Share(list, d) = <<0, 1>>
    BY <1>2 DEF Share, Found
  <2>2. QED
    BY <2>1
<1>3. QED
  BY <1>1, <1>2

\* Found at a smaller rank, or where the other is not: a larger share.
LEMMA SharesCompare ==
  ASSUME NEW list \in Hits, NEW d, NEW e,
         Found(list, e) => Found(list, d) /\ Rank(list, d) < Rank(list, e),
         NEW a \in Nat, NEW b \in Nat \ {0}, Share(list, d) = <<a, b>>,
         NEW c \in Nat, NEW f \in Nat \ {0}, Share(list, e) = <<c, f>>
  PROVE  a * f >= c * b /\ (Found(list, e) => a * f > c * b)
<1>1. CASE Found(list, e)
  <2>1. /\ Rank(list, d) \in 1..Len(list) /\ Rank(list, e) \in 1..Len(list)
        /\ Len(list) \in Nat
    BY <1>1, RankIsLast, HitsAreLists DEF Found
  <2>2. /\ Share(list, d) = <<1, RrfK + Rank(list, d)>>
        /\ Share(list, e) = <<1, RrfK + Rank(list, e)>>
    BY <1>1 DEF Share, Found
  <2>3. a = 1 /\ c = 1 /\ b = RrfK + Rank(list, d) /\ f = RrfK + Rank(list, e)
    BY <2>2
  <2>4. b < f
    BY <1>1, <2>1, <2>3, ConstantsAssumption
  <2>5. QED
    BY <2>3, <2>4
<1>2. CASE ~Found(list, e)
  <2>1. c = 0
    BY <1>2 DEF Share, Found
  <2>2. QED
    BY <1>2, <2>1
<1>3. QED
  BY <1>1, <1>2

\* A document that is before another wherever that one is has the larger score.
LEMMA DominatingScore ==
  ASSUME hits \in Hits, matches \in Matches, NEW d, NEW e, Dominates(d, e),
         Found(hits, e) \/ Found(matches, e)
  PROVE  d # e /\ Above(Score(hits, matches, d), Score(hits, matches, e))
<1>1. matches \in Hits /\ \A i, j \in 1..Len(matches) : matches[i] = matches[j] => i = j
  BY DEF Matches
<1>2. ASSUME NEW list \in {hits, matches}, Found(list, e)
      PROVE  Found(list, d) /\ Rank(list, d) < Rank(list, e) /\ d # e
  <2>1. list \in Hits /\ Len(list) \in Nat
    BY <1>1, HitsAreLists
  <2>2. Rank(list, e) \in 1..Len(list) /\ list[Rank(list, e)] = e
    BY <1>2, <2>1, RankIsLast DEF Found
  <2>3. PICK j \in 1..(Rank(list, e) - 1) : list[j] = d
    BY <2>2 DEF Dominates
  <2>4. j \in 1..Len(list) /\ j < Rank(list, e)
    BY <2>1, <2>2, <2>3
  <2>5. Rank(list, d) \in 1..Len(list) /\ list[Rank(list, d)] = d
    BY <2>1, <2>3, <2>4, RankIsLast
  <2>6. Rank(list, d) = j
    BY <1>1, <2>3, <2>4, <2>5 DEF Dominates
  <2>7. j # Rank(list, e)
    BY <2>2, <2>4
  <2>8. QED
    BY <2>3, <2>4, <2>6, <2>7 DEF Found
<1>3. PICK a \in Nat, b \in Nat \ {0} : Share(hits, d) = <<a, b>>
  BY ShareType
<1>4. PICK c \in Nat, f \in Nat \ {0} : Share(hits, e) = <<c, f>>
  BY ShareType
<1>5. PICK a2 \in Nat, b2 \in Nat \ {0} : Share(matches, d) = <<a2, b2>>
  BY <1>1, ShareType
<1>6. PICK c2 \in Nat, f2 \in Nat \ {0} : Share(matches, e) = <<c2, f2>>
  BY <1>1, ShareType
<1>7. a * f >= c * b /\ (Found(hits, e) => a * f > c * b)
  BY <1>2, <1>3, <1>4, SharesCompare
<1>8. a2 * f2 >= c2 * b2 /\ (Found(matches, e) => a2 * f2 > c2 * b2)
  BY <1>1, <1>2, <1>5, <1>6, SharesCompare
<1>9. Above(Sum2(<<a, b>>, <<a2, b2>>), Sum2(<<c, f>>, <<c2, f2>>))
  BY <1>7, <1>8, SumsCompare
<1>10. QED
  BY <1>2, <1>3, <1>4, <1>5, <1>6, <1>9 DEF Score

-----------------------------------------------------------------------------
(* The ranking *)

\* An order of a finite set lists all of it.
LEMMA OrdersAreComplete ==
  ASSUME NEW S, IsFiniteSet(S), NEW r \in SetToSeqs(S)
  PROVE  /\ Cardinality(S) \in Nat /\ Len(r) = Cardinality(S) /\ r \in Seq(S)
         /\ \A i \in 1..Len(r) : r[i] \in S
         /\ \A i, j \in 1..Len(r) : r[i] = r[j] => i = j
         /\ \A x \in S : \E i \in 1..Len(r) : r[i] = x
<1> DEFINE n == Cardinality(S)
<1>1. n \in Nat
  BY FS_CardinalityType
<1>2. r \in [1..n -> S] /\ \A i, j \in 1..n : i # j => r[i] # r[j]
  BY DEF SetToSeqs
<1>3. r \in Injection(1..n, S)
  BY <1>2 DEF Injection, IsInjective
<1>4. IsFiniteSet(1..n) /\ Cardinality(1..n) = n
  BY <1>1, FS_Interval
<1>5. r \in Surjection(1..n, S)
  BY <1>3, <1>4, FS_Injection
<1>6. \A x \in S : \E i \in 1..n : r[i] = x
  BY <1>5 DEF Surjection
<1>7. Len(r) = n /\ r \in Seq(S)
  BY <1>1, <1>2
<1>8. QED
  BY <1>1, <1>2, <1>6, <1>7

LEMMA FoundIsFinite ==
  ASSUME NEW list \in Hits
  PROVE  IsFiniteSet(ToSet(list)) /\ ToSet(list) \subseteq Docs
<1>1. Len(list) \in Nat /\ ToSet(list) = {list[i] : i \in 1..Len(list)}
      /\ \A i \in 1..Len(list) : list[i] \in Docs
  BY HitsAreLists
<1>2. [i \in 1..Len(list) |-> list[i]] \in Surjection(1..Len(list), ToSet(list))
  BY <1>1 DEF Surjection
<1>3. IsFiniteSet(1..Len(list))
  BY <1>1, FS_Interval
<1>4. IsFiniteSet(ToSet(list))
  BY <1>2, <1>3, FS_Surjection
<1>5. QED
  BY <1>1, <1>4

\* A fused list is the head of an order of all documents found, best first.
LEMMA FusionsAreHeads ==
  ASSUME hits \in Hits, matches \in Matches, NEW list \in Fusions(hits, matches)
  PROVE  \E r \in SetToSeqs(ToSet(hits) \cup ToSet(matches)) :
            /\ \A i, j \in 1..Len(r) :
                  i < j => ~Above(Score(hits, matches, r[j]), Score(hits, matches, r[i]))
            /\ Len(list) \in 0..Len(r) /\ list \in Seq(Docs)
            /\ \A i \in 1..Len(list) : list[i] = r[i]
<1> DEFINE found == ToSet(hits) \cup ToSet(matches)
           Sorted(r) == \A i, j \in 1..Len(r) :
                 i < j => ~Above(Score(hits, matches, r[j]), Score(hits, matches, r[i]))
           sorted == {r \in SetToSeqs(found) : Sorted(r)}
<1>1. \/ \E r \in {s \in sorted : Len(s) >= TopK} : list = SubSeq(r, 1, TopK)
      \/ list \in sorted
  BY DEF Fusions
<1>2. IsFiniteSet(found) /\ found \subseteq Docs
  BY FoundIsFinite, FS_Union DEF Matches
<1> HIDE DEF found
<1>3. \A r \in sorted : /\ r \in SetToSeqs(found) /\ Len(r) \in Nat /\ r \in Seq(found)
                       /\ \A i \in 1..Len(r) : r[i] \in found
  BY <1>2, OrdersAreComplete
<1>4. CASE list \in sorted
  <2>1. list \in Seq(Docs)
    BY <1>2, <1>3, <1>4
  <2>2. QED
    BY <1>3, <1>4, <2>1 DEF found
<1>5. ASSUME NEW r \in {s \in sorted : Len(s) >= TopK}, list = SubSeq(r, 1, TopK)
      PROVE  /\ Len(list) \in 0..Len(r) /\ list \in Seq(Docs)
             /\ \A i \in 1..Len(list) : list[i] = r[i]
  <2>1. TopK \in Nat \ {0} /\ Len(r) \in Nat /\ TopK <= Len(r)
    BY <1>3, <1>5, ConstantsAssumption
  <2>2. \A i \in 1..TopK : r[i] \in Docs
    BY <1>2, <1>3, <1>5, <2>1
  <2>3. /\ SubSeq(r, 1, TopK) \in Seq(Docs)
        /\ Len(SubSeq(r, 1, TopK)) = TopK
        /\ \A i \in 1..TopK : SubSeq(r, 1, TopK)[i] = r[i]
    BY <2>1, <2>2
  <2>4. QED
    BY <1>5, <2>1, <2>3
<1>6. QED
  BY <1>1, <1>3, <1>4, <1>5 DEF found

LEMMA FusionOrder ==
  ASSUME hits \in Hits, matches \in Matches, results \in Fusions(hits, matches)
  PROVE  FusionKeepsOrder
<1> DEFINE found == ToSet(hits) \cup ToSet(matches)
<1>1. PICK r \in SetToSeqs(found) :
          /\ \A i, j \in 1..Len(r) :
                i < j => ~Above(Score(hits, matches, r[j]), Score(hits, matches, r[i]))
          /\ Len(results) \in 0..Len(r)
          /\ \A i \in 1..Len(results) : results[i] = r[i]
  BY FusionsAreHeads
<1>2. matches \in Hits /\ IsFiniteSet(found)
  BY FoundIsFinite, FS_Union DEF Matches
<1>3. \A d : d \in found <=> Found(hits, d) \/ Found(matches, d)
  BY <1>2, HitsAreLists DEF Found
<1> HIDE DEF found
<1>4. /\ Len(r) \in Nat
      /\ \A i \in 1..Len(r) : r[i] \in found
      /\ \A i, j \in 1..Len(r) : r[i] = r[j] => i = j
      /\ \A x \in found : \E i \in 1..Len(r) : r[i] = x
  BY <1>2, OrdersAreComplete
<1>5. ASSUME NEW i \in 1..Len(results), NEW d \in Docs, Dominates(d, results[i])
      PROVE  \E k \in 1..(i - 1) : results[k] = d
  <2>1. i \in 1..Len(r) /\ results[i] = r[i] /\ r[i] \in found
    BY <1>1, <1>4
  <2>2. d # r[i] /\ Above(Score(hits, matches, d), Score(hits, matches, r[i]))
    BY <1>3, <1>5, <2>1, DominatingScore
  <2>3. d \in found
    <3>1. PICK list \in {hits, matches} : Found(list, r[i])
      BY <1>3, <2>1
    <3>2. PICK m \in 1..Len(list) : list[m] = r[i]
      BY <3>1 DEF Found
    <3>3. PICK n \in 1..(m - 1) : list[n] = d
      BY <1>5, <2>1, <3>2 DEF Dominates
    <3>4. Len(list) \in Nat
      BY <1>2, HitsAreLists
    <3>5. Found(list, d)
      BY <3>2, <3>3, <3>4 DEF Found
    <3>6. QED
      BY <1>3, <3>5
  <2>4. PICK k \in 1..Len(r) : r[k] = d
    BY <1>4, <2>3
  <2>5. k # i /\ ~(i < k)
    BY <1>1, <2>1, <2>2, <2>4
  <2>6. k \in 1..(i - 1) /\ k \in 1..Len(results)
    BY <1>1, <1>4, <2>1, <2>4, <2>5
  <2>7. QED
    BY <1>1, <2>4, <2>6
<1>6. ASSUME NEW i \in 1..Len(results), NEW j \in 1..Len(results), results[i] = results[j]
      PROVE  i = j
  <2>1. i \in 1..Len(r) /\ j \in 1..Len(r) /\ r[i] = r[j]
    BY <1>1, <1>4, <1>6
  <2>2. QED
    BY <1>4, <2>1
<1>7. QED
  BY <1>5, <1>6 DEF FusionKeepsOrder

-----------------------------------------------------------------------------
(* What is returned *)

\* The answers are lists of documents, and what is returned is a fusion of them.
ListsInv ==
    /\ hits \in Hits
    /\ matches \in Hits
    /\ results # <<>> => /\ at = "returned"
                        /\ matches \in Matches
                        /\ results \in Fusions(hits, matches)
    /\ context \in [sections : SUBSET Part, errors : SUBSET Part]

LEMMA EmptyIsHits == <<>> \in Hits
<1>1. <<>> \in [1..0 -> Docs]
  OBVIOUS
<1>2. 0 \in 0..MaxHits
  BY ConstantsAssumption
<1>3. QED
  BY <1>1, <1>2 DEF Hits, BoundedSeq, SeqOf

LEMMA ListsStep == CallTyped /\ ListsInv /\ [Next]_vars => ListsInv'
<1> SUFFICES ASSUME CallTyped, ListsInv, [Next]_vars PROVE ListsInv'
  OBVIOUS
<1> USE DEF ListsInv
<1>1. Parts \subseteq Part
  BY PartsAreParts DEF CallTyped
<1>2. ASSUME NEW a \in 1..MaxAttempts, NEW p \in Part,
             NEW outcome \in {"ok", "failed", "cancelled"}, PartEnds(a, p, outcome)
      PROVE  /\ UNCHANGED <<matches, results>>
             /\ context' \in [sections : SUBSET Part, errors : SUBSET Part]
             /\ Awaited(a) \/ UNCHANGED at
  BY <1>1, <1>2 DEF PartEnds, GatherAll, GatherFirst, ReturnContext, Suspended, Fail
<1>3. ASSUME NEW a \in 1..MaxAttempts, NEW p \in Part,
             PartAnswers(a, p) \/ PartFails(a, p) \/ PartCancelled(a, p)
      PROVE  ListsInv'
  <2>1. /\ UNCHANGED <<matches, results>>
        /\ context' \in [sections : SUBSET Part, errors : SUBSET Part]
        /\ Awaited(a) \/ UNCHANGED at
    BY <1>2, <1>3 DEF PartAnswers, PartFails, PartCancelled
  <2>2. hits' \in Hits /\ (Awaited(a) \/ UNCHANGED hits)
    BY <1>3 DEF PartAnswers, PartFails, PartCancelled
  <2>3. Awaited(a) => results = <<>>
    BY DEF Awaited
  <2>4. QED
    BY <2>1, <2>2, <2>3
<1>4. CASE VectorAnswers
  BY <1>4 DEF VectorAnswers, Matches
<1>5. CASE VectorFails
  BY <1>5 DEF VectorFails, Fail
<1>6. CASE Retry
  BY <1>6, EmptyIsHits DEF Retry, Suspended
<1>7. CASE Cancel
  BY <1>7 DEF Cancel, Suspended
<1>8. CASE UNCHANGED vars
  BY <1>8 DEF vars
<1>9. QED
  BY <1>3, <1>4, <1>5, <1>6, <1>7, <1>8 DEF Next

LEMMA ListsHold == Spec => []ListsInv
<1>1. Init => ListsInv
  BY EmptyIsHits DEF Init, ListsInv, NoContext
<1>2. TasksInv => CallTyped
  BY DEF TasksInv
<1>3. QED
  BY <1>1, <1>2, ListsStep, TasksHold, PTL DEF Spec

\* hybrid_search: the fused ranking never contradicts both of its sources and
\* repeats nothing, for lists of any length and any top_k and rrf_k.
THEOREM FusionIsOrdered == Spec => []FusionKeepsOrder
<1>1. ListsInv => FusionKeepsOrder
  <2> SUFFICES ASSUME ListsInv PROVE FusionKeepsOrder
    OBVIOUS
  <2>1. CASE results = <<>>
    BY <2>1 DEF FusionKeepsOrder
  <2>2. CASE results # <<>>
    BY <2>2, FusionOrder DEF ListsInv
  <2>3. QED
    BY <2>1, <2>2
<1>2. QED
  BY <1>1, ListsHold, PTL

\* The execution stays within its attempts, tasks, lists and sections.
THEOREM TypeCorrect == Spec => []TypeOK
<1>1. CallTyped /\ ListsInv => TypeOK
  <2> SUFFICES ASSUME CallTyped, ListsInv PROVE TypeOK
    OBVIOUS
  <2>1. hits \in Seq(Docs) /\ matches \in Seq(Docs)
    BY HitsAreLists DEF ListsInv
  <2>2. results \in Seq(Docs)
    <3>1. CASE results = <<>>
      BY <3>1
    <3>2. CASE results # <<>>
      <4>1. hits \in Hits /\ matches \in Matches /\ results \in Fusions(hits, matches)
        BY <3>2 DEF ListsInv
      <4>2. QED
        BY <4>1, FusionsAreHeads
    <3>3. QED
      BY <3>1, <3>2
  <2>3. QED
    BY <2>1, <2>2 DEF TypeOK, CallTyped, TaskState, ListsInv
<1>2. TasksInv => CallTyped
  BY DEF TasksInv
<1>3. QED
  BY <1>1, <1>2, ListsHold, TasksHold, PTL

=============================================================================
