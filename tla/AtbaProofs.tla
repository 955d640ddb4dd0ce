---------------------------- MODULE AtbaProofs ----------------------------
(* Theorems about Atba, for any latencies, window, budget and calls: what the *)
(* timeouts add up to in a turn.                                              *)
EXTENDS Atba, FiniteSetTheorems, SequenceTheorems, WellFoundedInduction, TLAPS

CallRecord == [running : BOOLEAN, since : Int, age : Nat, timeout : Nat, latency : Nat]

\* A turn has its age; a call belongs to the turn under way, or to none.
TurnTyped ==
    /\ samples \in Seq(Nat)
    /\ turn \in [age : Int, callsMade : Nat, idle : Nat]
    /\ turn = NoTurn \/ turn.age >= 0
    /\ call \in [Calls -> CallRecord]
    /\ \A c \in Calls : InTurn(c) => turn # NoTurn

\* Where a call of the turn will have ended.
Deadline(c) == call[c].since + call[c].timeout

\* What the timeouts of the calls under way were allocated from.
DeadlinesInv ==
    \A c \in Calls : InTurn(c) =>
        /\ turn.age = call[c].since + call[c].age
        /\ call[c].age <= call[c].timeout
        /\ Deadline(c) <= Larger(TotalBudget, call[c].since + MinTimeout)
        /\ turn.callsMade <= ExpectedCalls =>
              ExpectedCalls * (Deadline(c) - turn.idle) <= TotalBudget * turn.callsMade

IInv ==
    /\ TurnTyped
    /\ turn # NoTurn => turn.idle <= turn.age
    /\ DeadlinesInv
    /\ SharesKept

-----------------------------------------------------------------------------
(* The timeout of a call *)

\* The induction on the window that sorting needs: WFMin for < on Nat.
LEMMA LeastElement ==
  ASSUME NEW T \in SUBSET Nat, T # {}
  PROVE  \E x \in T : \A y \in T : x <= y
<1> DEFINE R == OpToRel(<, Nat)
<1>1. IsWellFoundedOn(R, Nat)
  BY NatLessThanWellFounded
<1>2. PICK x \in T : \A y \in T : <<y, x>> \notin R
  <2> HIDE DEF R
  <2>1. QED
    BY <1>1, WFMin
<1>3. \A y \in T : ~(y < x)
  BY <1>2 DEF OpToRel
<1>4. QED
  BY <1>3

LEMMA LargestSample ==
  ASSUME NEW N \in Nat \ {0}, NEW s \in [1..N -> Nat]
  PROVE  \E m \in 1..N : \A i \in 1..N : s[i] <= s[m]
<1> DEFINE Largest(m, n) == \A i \in 1..n : s[i] <= s[m]
           T == {n \in 1..N : \A m \in 1..n : ~Largest(m, n)}
<1>1. SUFFICES ASSUME T # {} PROVE FALSE
  <2>1. SUFFICES ASSUME N \notin T PROVE \E m \in 1..N : Largest(m, N)
    BY <1>1
  <2>2. N \in 1..N
    OBVIOUS
  <2>3. QED
    BY <2>1, <2>2
<1>2. PICK n \in T : \A k \in T : n <= k
  <2>1. T \in SUBSET Nat
    OBVIOUS
  <2> HIDE DEF T
  <2>2. QED
    BY <1>1, <2>1, LeastElement
<1>3. n \in 1..N /\ \A m \in 1..n : ~Largest(m, n)
  BY <1>2
<1>4. n # 1
  <2>1. Largest(1, 1)
    OBVIOUS
  <2>2. QED
    BY <1>3, <2>1
<1>5. n - 1 \in 1..N /\ n - 1 \notin T
  <2>1. n - 1 \in 1..N
    BY <1>3, <1>4
  <2>2. ~(n <= n - 1)
    BY <1>3
  <2> HIDE DEF T
  <2>3. QED
    BY <1>2, <2>1, <2>2
<1>6. PICK m \in 1..(n - 1) : Largest(m, n - 1)
  BY <1>5
<1>7. m \in 1..n /\ n \in 1..n /\ s[m] \in Nat /\ s[n] \in Nat
  BY <1>3, <1>6
<1>8. CASE s[n] <= s[m]
  <2>1. ASSUME NEW i \in 1..n PROVE s[i] <= s[m]
    BY <1>3, <1>6, <1>8
  <2>2. QED
    BY <1>3, <1>7, <2>1
<1>9. CASE s[m] < s[n]
  <2>1. ASSUME NEW i \in 1..n PROVE s[i] <= s[n]
    <3>1. CASE i = n
      BY <1>7, <3>1
    <3>2. CASE i # n
      <4>1. i \in 1..(n - 1) /\ s[i] \in Nat
        BY <1>3, <3>2
      <4>2. s[i] <= s[m]
        BY <1>6, <4>1
      <4>3. QED
        BY <1>7, <1>9, <4>1, <4>2
    <3>3. QED
      BY <3>1, <3>2
  <2>2. QED
    BY <1>3, <1>7, <2>1
<1>10. QED
  BY <1>7, <1>8, <1>9

LEMMA P95Type ==
  ASSUME samples \in Seq(Nat)
  PROVE  P95 \in Nat
<1> DEFINE index == Smaller((Len(samples) * Percentile) \div 100, Len(samples) - 1)
           UpTo(d) == {i \in 1..Len(samples) : samples[i] <= d}
           T == {d \in ToSet(samples) : Cardinality(UpTo(d)) > index}
<1>1. CASE Len(samples) < MinSamples
  BY <1>1, AtbaAssumption DEF P95
<1>2. CASE ~(Len(samples) < MinSamples)
  <2>1. Len(samples) \in Nat \ {0}
    BY <1>2, AtbaAssumption
  <2>2. ToSet(samples) = {samples[i] : i \in 1..Len(samples)}
    BY DEF ToSet
  <2>3. PICK m \in 1..Len(samples) : \A i \in 1..Len(samples) : samples[i] <= samples[m]
    <3>1. samples \in [1..Len(samples) -> Nat]
      OBVIOUS
    <3>2. QED
      BY <2>1, <3>1, LargestSample
  <2>4. UpTo(samples[m]) = 1..Len(samples)
    BY <2>3
  <2>5. Cardinality(1..Len(samples)) = Len(samples)
    <3>1. ASSUME NEW n \in Nat \ {0} PROVE Cardinality(1..n) = n
      BY FS_Interval
    <3>2. QED
      BY <2>1, <3>1
  <2>6. index \in Int /\ index < Len(samples)
    <3>1. (Len(samples) * Percentile) \div 100 \in Nat
      <4>1. Len(samples) * Percentile \in Nat
        BY <2>1, AtbaAssumption
      <4>2. QED
        BY <4>1
    <3>2. QED
      BY <2>1, <3>1 DEF Smaller
  <2> HIDE DEF index
  <2>7. samples[m] \in T /\ T \in SUBSET Nat
    <3>1. samples[m] \in ToSet(samples) /\ ToSet(samples) \subseteq Nat
      BY <2>2, <2>3
    <3>2. Cardinality(UpTo(samples[m])) > index
      BY <2>1, <2>4, <2>5, <2>6
    <3> HIDE DEF UpTo
    <3>3. QED
      BY <3>1, <3>2
  <2>8. P95 = Min(T)
    BY <1>2 DEF P95, index
  <2> HIDE DEF T
  <2>9. PICK d \in T : \A e \in T : d <= e
    BY <2>7, LeastElement
  <2>10. Min(T) \in T
    BY <2>9 DEF Min
  <2>11. QED
    BY <2>7, <2>8, <2>10
<1>3. QED
  BY <1>1, <1>2

LEMMA DivBounds ==
  ASSUME NEW x \in Nat, NEW n \in Nat \ {0}
  PROVE  x \div n \in Nat /\ (x \div n) * n <= x /\ x \div n <= x
<1> DEFINE q == x \div n
<1>1. q \in Nat /\ x % n \in 0..(n - 1) /\ x = n * q + (x % n)
  OBVIOUS
<1> HIDE DEF q
<1>2. q * n \in Nat /\ q * n <= x
  BY <1>1
<1>3. q <= q * n
  BY <1>1
<1>4. QED
  BY <1>1, <1>2, <1>3 DEF q

\* A timeout in a turn is the smallest one or at most the fair share.
LEMMA TimeoutBounds ==
  ASSUME TurnTyped
  PROVE  /\ TimeoutFor \in Nat
         /\ turn # NoTurn =>
               /\ Remaining \in Nat /\ FairShare \in Nat
               /\ FairShare * Larger(1, ExpectedCalls - turn.callsMade) <= Remaining
               /\ FairShare <= Remaining
               /\ TimeoutFor <= MinTimeout \/ TimeoutFor <= FairShare
<1>1. Target \in Nat
  <2>1. P95 \in Nat
    BY P95Type DEF TurnTyped
  <2>2. (P95 * 3) \div 2 \in Nat
    BY <2>1, DivBounds
  <2>3. QED
    BY <2>2 DEF Target, SafetyFactor
<1>2. MinTimeout \in Nat
  BY AtbaAssumption
<1>3. CASE turn = NoTurn
  BY <1>1, <1>2, <1>3 DEF TimeoutFor, Larger
<1>4. CASE turn # NoTurn
  <2>1. turn.age \in Nat /\ turn.callsMade \in Nat
    BY <1>4 DEF TurnTyped
  <2>2. Remaining \in Nat /\ Larger(1, ExpectedCalls - turn.callsMade) \in Nat \ {0}
    BY <2>1, AtbaAssumption DEF Remaining, Larger
  <2>3. /\ FairShare \in Nat /\ FairShare <= Remaining
        /\ FairShare * Larger(1, ExpectedCalls - turn.callsMade) <= Remaining
    BY <2>2, DivBounds DEF FairShare
  <2>4. TimeoutFor = Larger(MinTimeout, Smaller(Target, FairShare))
    BY <1>4 DEF TimeoutFor
  <2>5. TimeoutFor \in Nat /\ (TimeoutFor <= MinTimeout \/ TimeoutFor <= FairShare)
    BY <1>1, <1>2, <2>3, <2>4 DEF Larger, Smaller
  <2>6. QED
    BY <1>4, <2>2, <2>3, <2>5
<1>5. QED
  BY <1>3, <1>4

\* What is left, divided among the calls left, leaves the calls made theirs: b is
\* the time used, k the calls made, t the timeout.
LEMMA ShareArithmetic ==
  ASSUME NEW E \in Nat \ {0}, NEW total \in Nat, NEW k \in Nat, NEW m \in Nat \ {0},
         E = k + m, NEW b \in Nat, NEW t \in Nat,
         E * b <= total * k, t * m <= total - b
  PROVE  E * (b + t) <= total * (k + 1)
<1>1. E * (t * m) <= E * (total - b)
  <2> DEFINE x == t * m
             y == total - b
  <2>1. x \in Nat /\ y \in Int /\ x <= y
    OBVIOUS
  <2> HIDE DEF x, y
  <2>2. E * x <= E * y
    BY <2>1
  <2>3. QED
    BY <2>2 DEF x, y
<1>2. (E * b) * (m - 1) <= (total * k) * (m - 1)
  <2> DEFINE x == E * b
             y == total * k
  <2>1. x \in Nat /\ y \in Nat /\ x <= y /\ m - 1 \in Nat
    OBVIOUS
  <2> HIDE DEF x, y
  <2>2. x * (m - 1) <= y * (m - 1)
    BY <2>1
  <2>3. QED
    BY <2>2 DEF x, y
<1>3. (E * (b + t)) * m = (E * b) * (m - 1) + E * b + E * (t * m)
  OBVIOUS
<1>4. E * (total - b) = E * total - E * b
  OBVIOUS
<1>5. (total * (k + 1)) * m = (total * k) * (m - 1) + total * (k + m)
  OBVIOUS
<1>6. total * (k + m) = E * total
  OBVIOUS
<1> DEFINE u == E * (b + t)
           v == total * (k + 1)
<1>7. u * m <= v * m
  <2> DEFINE eb == E * b
             etm == E * (t * m)
             ebm == eb * (m - 1)
             tkm == (total * k) * (m - 1)
             et == E * total
  <2>1. /\ eb \in Int /\ etm \in Int /\ ebm \in Int /\ tkm \in Int /\ et \in Int
    OBVIOUS
  <2>2. /\ etm <= et - eb
        /\ ebm <= tkm
        /\ u * m = ebm + eb + etm
        /\ v * m = tkm + et
    BY <1>1, <1>2, <1>3, <1>4, <1>5, <1>6
  <2> HIDE DEF eb, etm, ebm, tkm, et, u, v
  <2>3. QED
    BY <2>1, <2>2
<1>8. u \in Nat /\ v \in Nat
  OBVIOUS
<1> HIDE DEF u, v
<1>9. u <= v
  <2>1. SUFFICES ASSUME v < u PROVE FALSE
    BY <1>8
  <2>2. PICK d \in Nat \ {0} : u = v + d
    BY <1>8, <2>1
  <2>3. u * m = v * m + d * m /\ d * m \in Nat \ {0} /\ v * m \in Nat
    BY <1>8, <2>2
  <2>4. QED
    BY <1>7, <2>3
<1>10. QED
  BY <1>9 DEF u, v

-----------------------------------------------------------------------------
(* The invariant *)

LEMMA IdleIsTyped == Idle \in CallRecord /\ ~Idle.running
  BY DEF Idle, CallRecord

LEMMA NoTurnIsTyped ==
  /\ NoTurn \in [age : Int, callsMade : Nat, idle : Nat]
  /\ NoTurn.age = -1 /\ NoTurn.callsMade = 0
<1>1. -1 \in Int /\ 0 \in Nat
  OBVIOUS
<1>2. QED
  BY <1>1 DEF NoTurn

LEMMA InitIInv == Init => IInv
<1> SUFFICES ASSUME Init PROVE IInv
  OBVIOUS
<1>1. /\ samples = <<>> /\ turn = NoTurn /\ call = [c \in Calls |-> Idle]
      /\ \A c \in Calls : ~InTurn(c)
  BY IdleIsTyped DEF Init, InTurn
<1>2. TurnTyped
  BY <1>1, NoTurnIsTyped, IdleIsTyped DEF TurnTyped
<1>3. QED
  BY <1>1, <1>2 DEF IInv, DeadlinesInv, SharesKept

LEMMA CallEffect ==
  ASSUME call \in [Calls -> CallRecord], NEW c \in Calls, NEW v \in CallRecord,
         call' = [call EXCEPT ![c] = v]
  PROVE  /\ call' \in [Calls -> CallRecord] /\ call'[c] = v
         /\ \A d \in Calls : d # c => call'[d] = call[d] /\ InTurn(d)' = InTurn(d)
                                    /\ Deadline(d)' = Deadline(d)
<1>1. /\ call' \in [Calls -> CallRecord] /\ call'[c] = v
      /\ \A d \in Calls : d # c => call'[d] = call[d]
  OBVIOUS
<1>2. QED
  BY <1>1 DEF InTurn, Deadline

\* A call ends: it leaves a sample and the others as they are.
LEMMA EndStep ==
  ASSUME IInv, NEW c \in Calls, NEW outcome, End(c, outcome)
  PROVE  IInv'
<1>1. /\ samples' = Recorded(call[c].age) /\ call' = [call EXCEPT ![c] = Idle] /\ turn' = turn
      /\ TurnTyped /\ call[c] \in CallRecord
  BY DEF End, IInv, TurnTyped
<1>2. /\ call' \in [Calls -> CallRecord] /\ call'[c] = Idle
      /\ \A d \in Calls : d # c => call'[d] = call[d] /\ InTurn(d)' = InTurn(d)
                                 /\ Deadline(d)' = Deadline(d)
  BY <1>1, CallEffect, IdleIsTyped DEF TurnTyped
<1>3. ~InTurn(c)'
  BY <1>2, IdleIsTyped DEF InTurn
<1>4. samples' \in Seq(Nat)
  <2>1. call[c].age \in Nat /\ samples \in Seq(Nat)
    BY <1>1 DEF CallRecord, TurnTyped
  <2> DEFINE all == Append(samples, call[c].age)
  <2>2. all \in Seq(Nat) /\ all # <<>>
    BY <2>1
  <2>3. Tail(all) \in Seq(Nat)
    BY <2>2, HeadTailProperties
  <2>4. QED
    BY <1>1, <2>2, <2>3 DEF Recorded
<1>5. TurnTyped'
  BY <1>1, <1>2, <1>3, <1>4 DEF TurnTyped
<1>6. DeadlinesInv'
  BY <1>1, <1>2, <1>3 DEF IInv, DeadlinesInv
<1>7. QED
  BY <1>1, <1>5, <1>6 DEF IInv, SharesKept

\* Multiplication by the expected calls keeps an order.
LEMMA ExpectedMonotone ==
  ASSUME NEW x \in Int, NEW y \in Int, x <= y
  PROVE  ExpectedCalls * x <= ExpectedCalls * y
  BY AtbaAssumption

LEMMA BudgetMonotone ==
  ASSUME NEW k \in Nat
  PROVE  TotalBudget * k <= TotalBudget * (k + 1)
  BY AtbaAssumption

\* What a new call of the turn is given.
LEMMA NewDeadline ==
  ASSUME IInv, turn # NoTurn, NEW d, d = turn.age + TimeoutFor
  PROVE  /\ d <= Larger(TotalBudget, turn.age + MinTimeout)
         /\ turn.callsMade + 1 <= ExpectedCalls =>
               ExpectedCalls * (d - turn.idle) <= TotalBudget * (turn.callsMade + 1)
<1> DEFINE t == TimeoutFor
           k == turn.callsMade
           b == turn.age - turn.idle
<1>1. /\ TurnTyped /\ turn.age \in Nat /\ k \in Nat /\ turn.idle \in Nat
      /\ turn.idle <= turn.age /\ SharesKept
  BY DEF IInv, TurnTyped
<1>2. /\ t \in Nat /\ FairShare \in Nat
      /\ FairShare * Larger(1, ExpectedCalls - k) <= Remaining /\ FairShare <= Remaining
      /\ t <= MinTimeout \/ t <= FairShare
  BY <1>1, TimeoutBounds
<1>3. MinTimeout \in Nat /\ TotalBudget \in Nat /\ ExpectedCalls \in Nat \ {0}
      /\ TotalBudget >= ExpectedCalls * MinTimeout
  BY AtbaAssumption
<1> HIDE DEF t, k
<1>4. Remaining = IF TotalBudget > turn.age THEN TotalBudget - turn.age ELSE 0
  BY <1>1, <1>3 DEF Remaining, Larger
<1>5. turn.age + t <= Larger(TotalBudget, turn.age + MinTimeout)
  BY <1>1, <1>2, <1>3, <1>4 DEF Larger
<1>6. ASSUME k + 1 <= ExpectedCalls
      PROVE  ExpectedCalls * (b + t) <= TotalBudget * (k + 1)
  <2>1. b \in Nat /\ ExpectedCalls * b <= TotalBudget * k
    BY <1>1, <1>3, <1>6 DEF SharesKept, k
  <2> HIDE DEF b
  <2>2. CASE t <= MinTimeout
    <3>1. ExpectedCalls * t <= TotalBudget
      <4>1. ExpectedCalls * t <= ExpectedCalls * MinTimeout
        BY <1>2, <1>3, <2>2, ExpectedMonotone
      <4>2. ExpectedCalls * t \in Nat /\ ExpectedCalls * MinTimeout \in Nat
        BY <1>2, <1>3
      <4>3. QED
        BY <1>3, <4>1, <4>2
    <3>2. ExpectedCalls * (b + t) = ExpectedCalls * b + ExpectedCalls * t
      BY <1>2, <1>3, <2>1
    <3>3. TotalBudget * (k + 1) = TotalBudget * k + TotalBudget
      BY <1>1, <1>3
    <3>4. /\ ExpectedCalls * b \in Nat /\ ExpectedCalls * t \in Nat /\ TotalBudget * k \in Nat
      BY <1>1, <1>2, <1>3, <2>1
    <3>5. QED
      BY <1>3, <2>1, <3>1, <3>2, <3>3, <3>4
  <2>3. CASE t <= FairShare /\ ~(t <= MinTimeout)
    <3> DEFINE m == ExpectedCalls - k
    <3>1. m \in Nat \ {0} /\ ExpectedCalls = k + m /\ Larger(1, m) = m
      BY <1>1, <1>3, <1>6 DEF Larger
    <3>2. TotalBudget > turn.age /\ Remaining = TotalBudget - turn.age
      BY <1>1, <1>2, <1>3, <1>4, <2>3
    <3>3. FairShare * m <= Remaining
      BY <1>2, <3>1
    <3> HIDE DEF m
    <3>4. t * m <= FairShare * m /\ t * m \in Nat /\ FairShare * m \in Nat
      BY <1>2, <2>3, <3>1
    <3>5. b <= turn.age
      BY <1>1 DEF b
    <3>6. t * m <= TotalBudget - b
      BY <1>1, <1>3, <2>1, <3>2, <3>3, <3>4, <3>5
    <3>7. QED
      BY <1>1, <1>2, <1>3, <2>1, <3>1, <3>6, ShareArithmetic
  <2>4. QED
    BY <1>2, <2>2, <2>3
<1>7. d - turn.idle = b + t /\ d = turn.age + t
  BY <1>1, <1>2 DEF t
<1>8. QED
  BY <1>5, <1>6, <1>7 DEF t, k

LEMMA StartStep ==
  ASSUME IInv, NEW c \in Calls, Start(c)
  PROVE  IInv'
<1>1. PICK latency \in Latencies : call' = [call EXCEPT ![c] = Running(latency)]
  BY DEF Start
<1> DEFINE v == Running(latency)
<1>2. /\ ~call[c].running /\ samples' = samples
      /\ turn' = IF turn = NoTurn THEN turn ELSE [turn EXCEPT !.callsMade = @ + 1]
  BY DEF Start
<1>3. /\ TurnTyped /\ TimeoutFor \in Nat /\ latency \in Nat /\ turn.age \in Int
      /\ turn.callsMade \in Nat /\ turn.idle \in Nat
      /\ turn \in [age : Int, callsMade : Nat, idle : Nat]
  BY TimeoutBounds, AtbaAssumption DEF IInv, TurnTyped
<1>4. /\ v \in CallRecord /\ v.running /\ v.since = turn.age /\ v.age = 0
      /\ v.timeout = TimeoutFor
  BY <1>3 DEF Running, CallRecord
<1> HIDE DEF v
<1>5. /\ call' \in [Calls -> CallRecord] /\ call'[c] = v
      /\ \A d \in Calls : d # c => call'[d] = call[d] /\ InTurn(d)' = InTurn(d)
                                 /\ Deadline(d)' = Deadline(d)
  BY <1>1, <1>3, <1>4, CallEffect DEF TurnTyped, v
<1>6. InTurn(c)' <=> turn.age >= 0
  BY <1>4, <1>5 DEF InTurn
<1>7. CASE turn = NoTurn
  <2>1. turn' = turn /\ ~InTurn(c)'
    BY <1>2, <1>6, <1>7, NoTurnIsTyped
  <2>2. TurnTyped'
    BY <1>2, <1>3, <1>5, <2>1 DEF TurnTyped
  <2>3. DeadlinesInv'
    BY <1>5, <2>1 DEF IInv, DeadlinesInv
  <2>4. QED
    BY <2>1, <2>2, <2>3 DEF IInv, SharesKept
<1>8. CASE turn # NoTurn
  <2>1. /\ turn' \in [age : Int, callsMade : Nat, idle : Nat] /\ turn'.age = turn.age
        /\ turn'.callsMade = turn.callsMade + 1 /\ turn'.idle = turn.idle
        /\ turn.age >= 0 /\ turn' # NoTurn
    <3>1. turn' = [turn EXCEPT !.callsMade = @ + 1]
      BY <1>2, <1>8
    <3>2. /\ turn' \in [age : Int, callsMade : Nat, idle : Nat] /\ turn'.age = turn.age
          /\ turn'.callsMade = turn.callsMade + 1 /\ turn'.idle = turn.idle
      BY <1>3, <3>1
    <3>3. turn.age >= 0
      BY <1>3, <1>8 DEF TurnTyped
    <3>4. turn' # NoTurn
      BY <3>2, <3>3, NoTurnIsTyped
    <3>5. QED
      BY <3>2, <3>3, <3>4
  <2>2. TurnTyped'
    BY <1>2, <1>3, <1>5, <2>1 DEF TurnTyped
  <2>3. /\ ExpectedCalls \in Nat \ {0} /\ TotalBudget \in Nat /\ MinTimeout \in Nat
        /\ TotalBudget * turn.callsMade <= TotalBudget * (turn.callsMade + 1)
        /\ TotalBudget * turn.callsMade \in Nat /\ TotalBudget * (turn.callsMade + 1) \in Nat
    BY <1>3, AtbaAssumption, BudgetMonotone
  <2>4. SharesKept'
    <3>1. SUFFICES ASSUME turn.callsMade + 1 <= ExpectedCalls
                   PROVE  ExpectedCalls * (turn.age - turn.idle)
                            <= TotalBudget * (turn.callsMade + 1)
      BY <2>1 DEF SharesKept
    <3>2. ExpectedCalls * (turn.age - turn.idle) <= TotalBudget * turn.callsMade
      BY <1>3, <1>8, <2>3, <3>1 DEF IInv, SharesKept
    <3>3. ExpectedCalls * (turn.age - turn.idle) \in Int
      BY <1>3, <2>3
    <3>4. QED
      BY <2>3, <3>2, <3>3
  <2>5. ASSUME NEW d \in Calls, InTurn(d)'
        PROVE  /\ (turn.age = call[d].since + call[d].age)'
               /\ (call[d].age <= call[d].timeout)'
               /\ (Deadline(d) <= Larger(TotalBudget, call[d].since + MinTimeout))'
               /\ turn.callsMade + 1 <= ExpectedCalls =>
                     ExpectedCalls * (Deadline(d)' - turn.idle)
                       <= TotalBudget * (turn.callsMade + 1)
    <3>1. CASE d = c
      <4>1. Deadline(c)' = turn.age + TimeoutFor
        BY <1>4, <1>5 DEF Deadline
      <4>2. /\ Deadline(c)' <= Larger(TotalBudget, turn.age + MinTimeout)
            /\ turn.callsMade + 1 <= ExpectedCalls =>
                  ExpectedCalls * (Deadline(c)' - turn.idle) <= TotalBudget * (turn.callsMade + 1)
        BY <1>8, <4>1, NewDeadline
      <4>3. (turn.age = call[c].since + call[c].age)' /\ (call[c].age <= call[c].timeout)'
        BY <1>3, <1>4, <1>5, <2>1
      <4>4. (Deadline(c) <= Larger(TotalBudget, call[c].since + MinTimeout))'
        BY <1>4, <1>5, <4>2 DEF Larger
      <4>5. QED
        BY <3>1, <4>2, <4>3, <4>4
    <3>2. CASE d # c
      <4>1. InTurn(d) /\ call'[d] = call[d] /\ Deadline(d)' = Deadline(d) /\ call[d] \in CallRecord
        BY <1>3, <1>5, <2>5, <3>2 DEF TurnTyped
      <4>2. /\ turn.age = call[d].since + call[d].age
            /\ call[d].age <= call[d].timeout
            /\ Deadline(d) <= Larger(TotalBudget, call[d].since + MinTimeout)
            /\ turn.callsMade <= ExpectedCalls =>
                  ExpectedCalls * (Deadline(d) - turn.idle) <= TotalBudget * turn.callsMade
        BY <4>1 DEF IInv, DeadlinesInv
      <4>3. Deadline(d) \in Int /\ ExpectedCalls * (Deadline(d) - turn.idle) \in Int
        BY <1>3, <2>3, <4>1 DEF Deadline, CallRecord
      <4>4. ASSUME turn.callsMade + 1 <= ExpectedCalls
            PROVE  ExpectedCalls * (Deadline(d) - turn.idle) <= TotalBudget * (turn.callsMade + 1)
        BY <1>3, <2>3, <4>2, <4>3, <4>4
      <4>5. QED
        BY <2>1, <4>1, <4>2, <4>4 DEF Larger
    <3>3. QED
      BY <3>1, <3>2
  <2>6. DeadlinesInv'
    BY <2>1, <2>5 DEF DeadlinesInv
  <2>7. (turn # NoTurn => turn.idle <= turn.age)'
    BY <1>8, <2>1 DEF IInv
  <2>8. QED
    BY <2>2, <2>4, <2>6, <2>7 DEF IInv
<1>9. QED
  BY <1>7, <1>8

LEMMA TickStep ==
  ASSUME IInv, Tick
  PROVE  IInv'
<1>1. /\ samples' = samples
      /\ call' = [c \in Calls |-> IF call[c].running THEN [call[c] EXCEPT !.age = @ + 1]
                                 ELSE call[c]]
      /\ \A c \in Calls : call[c].running =>
            call[c].age < Smaller(call[c].timeout, call[c].latency)
  BY DEF Tick
<1>2. /\ TurnTyped /\ call \in [Calls -> CallRecord]
      /\ turn \in [age : Int, callsMade : Nat, idle : Nat]
  BY DEF IInv, TurnTyped
<1>3. ASSUME NEW c \in Calls
      PROVE  /\ call'[c] \in CallRecord
             /\ call'[c].running = call[c].running /\ call'[c].since = call[c].since
             /\ call'[c].timeout = call[c].timeout
             /\ call[c].running => call'[c].age = call[c].age + 1
  <2>1. call[c] \in CallRecord
    BY <1>2
  <2>2. CASE call[c].running
    <3>1. call'[c] = [call[c] EXCEPT !.age = @ + 1]
      BY <1>1, <2>2
    <3>2. QED
      BY <2>1, <3>1 DEF CallRecord
  <2>3. CASE ~call[c].running
    <3>1. call'[c] = call[c]
      BY <1>1, <2>3
    <3>2. QED
      BY <2>1, <2>3, <3>1
  <2>4. QED
    BY <2>2, <2>3
<1>4. call' \in [Calls -> CallRecord]
  <2>1. call' = [c \in Calls |-> call'[c]]
    BY <1>1
  <2>2. QED
    BY <1>3, <2>1
<1>5. \A c \in Calls : InTurn(c)' = InTurn(c) /\ Deadline(c)' = Deadline(c)
  BY <1>3 DEF InTurn, Deadline
<1>6. CASE turn = NoTurn
  <2>1. turn' = turn /\ \A c \in Calls : ~InTurn(c)
    BY <1>2, <1>6 DEF Tick, TurnTyped
  <2>2. TurnTyped'
    BY <1>1, <1>2, <1>4, <1>5, <2>1 DEF TurnTyped
  <2>3. DeadlinesInv'
    BY <1>5, <2>1 DEF DeadlinesInv
  <2>4. QED
    BY <1>6, <2>1, <2>2, <2>3 DEF IInv, SharesKept
<1>7. CASE turn # NoTurn
  <2> DEFINE idle == IF \E c \in Calls : InTurn(c) THEN 0 ELSE 1
  <2>1. turn' = [turn EXCEPT !.age = @ + 1, !.idle = @ + idle]
    BY <1>7 DEF Tick
  <2>2. turn.age \in Nat /\ turn.callsMade \in Nat /\ turn.idle \in Nat /\ idle \in {0, 1}
        /\ turn.idle <= turn.age
    BY <1>2, <1>7 DEF TurnTyped, IInv
  <2>3. idle = 0 <=> \E c \in Calls : InTurn(c)
    OBVIOUS
  <2> HIDE DEF idle
  <2>4. /\ turn' \in [age : Int, callsMade : Nat, idle : Nat]
        /\ turn'.age = turn.age + 1 /\ turn'.callsMade = turn.callsMade
        /\ turn'.idle = turn.idle + idle
    <3> DEFINE older == [turn EXCEPT !.age = @ + 1]
    <3>1. turn' = [older EXCEPT !.idle = turn.idle + idle]
      BY <1>2, <2>1
    <3>2. /\ older \in [age : Int, callsMade : Nat, idle : Nat]
          /\ older.age = turn.age + 1 /\ older.callsMade = turn.callsMade
      BY <1>2, <2>2
    <3> HIDE DEF older
    <3>3. QED
      BY <2>2, <3>1, <3>2
  <2>5. turn' # NoTurn /\ turn'.age >= 0 /\ turn'.idle <= turn'.age
    BY <2>2, <2>4, NoTurnIsTyped
  <2>6. TurnTyped'
    BY <1>1, <1>2, <1>4, <2>4, <2>5 DEF TurnTyped
  <2>7. ASSUME NEW c \in Calls, InTurn(c)
        PROVE  /\ turn'.idle = turn.idle /\ turn'.age <= Deadline(c) /\ Deadline(c) \in Int
               /\ turn'.age = call'[c].since + call'[c].age /\ call'[c].age <= call'[c].timeout
    <3>1. call[c] \in CallRecord /\ call[c].running
      BY <1>2, <2>7 DEF InTurn
    <3>2. turn.age = call[c].since + call[c].age /\ call[c].age + 1 <= call[c].timeout
      <4>1. call[c].age < Smaller(call[c].timeout, call[c].latency)
        BY <1>1, <3>1
      <4>2. call[c].age \in Nat /\ call[c].timeout \in Nat /\ call[c].latency \in Nat
        BY <3>1 DEF CallRecord
      <4>3. QED
        BY <2>7, <4>1, <4>2 DEF IInv, DeadlinesInv, Smaller
    <3>3. turn'.idle = turn.idle
      BY <2>2, <2>3, <2>4, <2>7
    <3>4. QED
      BY <1>3, <2>2, <2>4, <3>1, <3>2, <3>3 DEF Deadline, CallRecord
  <2>8. DeadlinesInv'
    <3>1. ASSUME NEW c \in Calls, InTurn(c)'
          PROVE  /\ (turn.age = call[c].since + call[c].age)'
                 /\ (call[c].age <= call[c].timeout)'
                 /\ (Deadline(c) <= Larger(TotalBudget, call[c].since + MinTimeout))'
                 /\ (turn.callsMade <= ExpectedCalls =>
                       ExpectedCalls * (Deadline(c) - turn.idle)
                         <= TotalBudget * turn.callsMade)'
      <4>1. InTurn(c) /\ Deadline(c)' = Deadline(c)
        BY <1>5, <3>1
      <4>2. turn'.idle = turn.idle /\ turn'.callsMade = turn.callsMade
        BY <2>4, <2>7, <4>1
      <4>3. call'[c].since = call[c].since
        BY <1>3
      <4>4. /\ Deadline(c) <= Larger(TotalBudget, call[c].since + MinTimeout)
            /\ turn.callsMade <= ExpectedCalls =>
                  ExpectedCalls * (Deadline(c) - turn.idle) <= TotalBudget * turn.callsMade
        BY <4>1 DEF IInv, DeadlinesInv
      <4>5. (Deadline(c) <= Larger(TotalBudget, call[c].since + MinTimeout))'
        BY <4>1, <4>3, <4>4 DEF Larger
      <4>6. (turn.callsMade <= ExpectedCalls =>
               ExpectedCalls * (Deadline(c) - turn.idle) <= TotalBudget * turn.callsMade)'
        BY <4>1, <4>2, <4>4
      <4>7. QED
        BY <2>7, <4>1, <4>5, <4>6
    <3>2. QED
      BY <3>1 DEF DeadlinesInv
  <2>9. SharesKept'
    <3>1. SUFFICES ASSUME turn.callsMade <= ExpectedCalls
                   PROVE  ExpectedCalls * (turn'.age - turn'.idle)
                            <= TotalBudget * turn.callsMade
      BY <2>4 DEF SharesKept
    <3>2. ASSUME NEW c \in Calls, InTurn(c)
          PROVE  ExpectedCalls * (turn'.age - turn'.idle) <= TotalBudget * turn.callsMade
      <4> DEFINE x == turn'.age - turn'.idle
                 y == Deadline(c) - turn.idle
      <4>1. x \in Int /\ y \in Int /\ x <= y
        BY <2>2, <2>4, <2>7, <3>2
      <4>2. ExpectedCalls * y <= TotalBudget * turn.callsMade
        BY <3>1, <3>2 DEF IInv, DeadlinesInv
      <4> HIDE DEF x, y
      <4>3. ExpectedCalls * x <= ExpectedCalls * y
        BY <4>1, ExpectedMonotone
      <4>4. /\ ExpectedCalls * x \in Int /\ ExpectedCalls * y \in Int
            /\ TotalBudget * turn.callsMade \in Nat
        BY <2>2, <4>1, AtbaAssumption
      <4>5. ExpectedCalls * x <= TotalBudget * turn.callsMade
        BY <4>2, <4>3, <4>4
      <4>6. QED
        BY <4>5 DEF x
    <3>3. CASE \A c \in Calls : ~InTurn(c)
      <4>1. turn'.age - turn'.idle = turn.age - turn.idle
        BY <2>2, <2>3, <2>4, <3>3
      <4>2. ExpectedCalls * (turn.age - turn.idle) <= TotalBudget * turn.callsMade
        BY <1>7, <3>1 DEF IInv, SharesKept
      <4>3. QED
        BY <4>1, <4>2
    <3>4. QED
      BY <3>2, <3>3
  <2>10. QED
    BY <2>5, <2>6, <2>8, <2>9 DEF IInv
<1>8. QED
  BY <1>6, <1>7

LEMMA BeginStep ==
  ASSUME IInv, Begin
  PROVE  IInv'
<1>1. /\ samples' = samples /\ call' = call /\ turn = NoTurn
      /\ turn' = [age |-> 0, callsMade |-> 0, idle |-> 0]
  BY DEF Begin
<1>2. \A c \in Calls : ~InTurn(c) /\ ~InTurn(c)'
  BY <1>1 DEF IInv, TurnTyped, InTurn
<1>3. /\ turn' \in [age : Int, callsMade : Nat, idle : Nat] /\ turn'.age = 0
      /\ turn'.idle = 0 /\ turn'.callsMade = 0
  BY <1>1
<1>4. TurnTyped'
  BY <1>1, <1>2, <1>3 DEF IInv, TurnTyped
<1>5. SharesKept'
  BY <1>3, AtbaAssumption DEF SharesKept
<1>6. QED
  BY <1>2, <1>3, <1>4, <1>5 DEF IInv, DeadlinesInv

LEMMA EndTurnStep ==
  ASSUME IInv, EndTurn
  PROVE  IInv'
<1>1. /\ samples' = samples /\ call' = call /\ turn' = NoTurn
      /\ \A c \in Calls : ~InTurn(c)
  BY DEF EndTurn
<1>2. \A c \in Calls : ~InTurn(c)'
  BY <1>1 DEF InTurn
<1>3. TurnTyped'
  BY <1>1, <1>2, NoTurnIsTyped DEF IInv, TurnTyped
<1>4. QED
  BY <1>1, <1>2, <1>3 DEF IInv, DeadlinesInv, SharesKept

LEMMA NextIInv == IInv /\ [Next]_vars => IInv'
<1> SUFFICES ASSUME IInv, [Next]_vars PROVE IInv'
  OBVIOUS
<1>1. CASE Begin
  BY <1>1, BeginStep
<1>2. CASE EndTurn
  BY <1>2, EndTurnStep
<1>3. ASSUME NEW c \in Calls, Start(c) PROVE IInv'
  BY <1>3, StartStep
<1>4. ASSUME NEW c \in Calls, Answer(c) \/ Fail(c) \/ TimeOut(c) PROVE IInv'
  BY <1>4, EndStep DEF Answer, Fail, TimeOut
<1>5. CASE Tick
  BY <1>5, TickStep
<1>6. CASE UNCHANGED vars
  BY <1>6 DEF vars, IInv, TurnTyped, DeadlinesInv, SharesKept, InTurn, Deadline
<1>7. QED
  BY <1>1, <1>2, <1>3, <1>4, <1>5, <1>6 DEF Next

\* atba.py keeps IInv: types, where the calls of the turn will have ended, and
\* the shares used.
LEMMA IInvHolds == Spec => []IInv
<1>1. QED
  BY InitIInv, NextIInv, PTL DEF Spec

\* call_with_budget: no call of a turn runs past the budget by more than the
\* smallest timeout, for any latencies, window, percentile and number of calls.
THEOREM TurnsStayInBudget == Spec => []TurnWithinBudget
<1>1. IInv => TurnWithinBudget
  <2>1. SUFFICES ASSUME IInv, NEW c \in Calls, InTurn(c)
                 PROVE  turn.age <= Larger(TotalBudget, call[c].since + MinTimeout)
    BY DEF TurnWithinBudget
  <2>2. call[c] \in CallRecord
    BY <2>1 DEF IInv, TurnTyped
  <2>3. turn.age <= Deadline(c) /\ turn.age \in Int /\ Deadline(c) \in Int
    BY <2>1, <2>2 DEF IInv, DeadlinesInv, Deadline, CallRecord
  <2>4. QED
    BY <2>1, <2>2, <2>3, AtbaAssumption DEF IInv, DeadlinesInv, CallRecord, Larger
<1>2. QED
  BY IInvHolds, <1>1, PTL

\* allocate: the first k of the expected calls use at most k shares of the
\* budget, whatever order and overlap the calls of the turn have.
THEOREM SharesAreKept == Spec => []SharesKept
<1>1. IInv => SharesKept
  BY DEF IInv
<1>2. QED
  BY IInvHolds, <1>1, PTL

=============================================================================
