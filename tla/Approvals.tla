----------------------------- MODULE Approvals -----------------------------
(***************************************************************************)
(* The gate of human approval: ApprovalGate over an InMemoryApprovalStore  *)
(* (src/atlas_mcp/governance/approval.py), one record for every key that   *)
(* (tenant, tool, args_hash) makes.                                        *)
(*                                                                         *)
(* The store of the server never suspends, so enforce(), approve() and     *)
(* deny() are one step each.  An expired record that get() removes and one *)
(* that nobody has read yet are the same.                                  *)
(***************************************************************************)
EXTENDS Naturals

CONSTANTS
    Keys,         \* approval ids
    ApprovalTtl,  \* APPROVAL_TTL_SECONDS
    MaxTime       \* bound of the model: the clock stops here

ASSUME ApprovalAssumption == ApprovalTtl \in Nat /\ MaxTime \in Nat

VARIABLES
    clock,     \* the store's clock
    record,    \* per key: the record stored
    decision   \* history, per key: the last decision a human took of this process, and when

approvalVars == <<clock, record, decision>>

States == {"none", "pending", "approved", "denied"}

ApprovalTypeOK ==
    /\ clock \in Nat
    /\ record \in [Keys -> [state : States, expires : Nat]]
    /\ decision \in [Keys -> [was : {"none", "approved", "denied"}, at : Nat]]

ApprovalInit ==
    /\ clock = 0
    /\ record = [k \in Keys |-> [state |-> "none", expires |-> 0]]
    /\ decision = [k \in Keys |-> [was |-> "none", at |-> 0]]

\* get(): the state, or "none" once the record has expired.
Found(k) == IF record[k].expires < clock THEN "none" ELSE record[k].state

\* set(): whatever is stored lives for another ApprovalTtl.
Set(k, state) ==
    record' = [record EXCEPT ![k] = [state |-> state, expires |-> clock + ApprovalTtl]]

-----------------------------------------------------------------------------

\* enforce() returns.  The approval is not used up.
LetsThrough(k) == Found(k) = "approved"

\* enforce() raises; without a record it leaves a pending one, and only then.
Hold(k) ==
    /\ ~LetsThrough(k)
    /\ IF Found(k) = "none" THEN Set(k, "pending") ELSE UNCHANGED record
    /\ UNCHANGED <<clock, decision>>

\* approve() and deny() of a record that is there, in whatever state it is.
Decide(k, state) ==
    /\ Found(k) # "none"
    /\ Set(k, state)
    /\ decision' = [decision EXCEPT ![k] = [was |-> state, at |-> clock]]
    /\ UNCHANGED clock

\* The records are the process's, and so are the decisions taken on them.
Restart ==
    /\ record' = [k \in Keys |-> [state |-> "none", expires |-> 0]]
    /\ decision' = [k \in Keys |-> [was |-> "none", at |-> 0]]
    /\ UNCHANGED clock

Pass ==
    /\ clock < MaxTime
    /\ clock' = clock + 1
    /\ UNCHANGED <<record, decision>>

ApprovalNext ==
    \/ \E k \in Keys : Hold(k) \/ Decide(k, "approved") \/ Decide(k, "denied")
    \/ Restart
    \/ Pass

ApprovalSpec == ApprovalInit /\ [][ApprovalNext]_approvalVars

-----------------------------------------------------------------------------
(* Properties *)

\* A call is let through only where the last decision of a human on exactly its
\* key was an approval, and for ApprovalTtl after it: no retry, no other key's
\* decision, no denial that came later and no restart makes or keeps one.
ConsentIsFresh ==
    \A k \in Keys : LetsThrough(k) =>
        decision[k].was = "approved" /\ clock <= decision[k].at + ApprovalTtl
=============================================================================
