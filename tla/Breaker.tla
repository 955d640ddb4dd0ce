------------------------------- MODULE Breaker -------------------------------
(***************************************************************************)
(* What a circuit breaker promises to the backend behind it, whatever it   *)
(* counts and however it keeps its state: while it is open the backend     *)
(* gets nothing, for Recovery from the moment it opened last; then one     *)
(* call alone, and only that call's success lets the others in.            *)
(***************************************************************************)
EXTENDS Naturals

CONSTANTS
    Calls,
    Recovery

VARIABLES
    now,
    state,     \* "closed", "open" or "half_open"
    openedAt,
    running    \* the calls the backend is working on

vars == <<now, state, openedAt, running>>

Init ==
    /\ now = 0
    /\ state = "closed"
    /\ openedAt = 0
    /\ running = {}

Admit(c) ==
    /\ state = "closed"
    /\ c \notin running
    /\ running' = running \cup {c}
    /\ UNCHANGED <<now, state, openedAt>>

\* The trial call finds the backend idle.
Probe(c) ==
    /\ \/ state = "open" /\ now >= openedAt + Recovery
       \/ state = "half_open"
    /\ running = {}
    /\ running' = {c}
    /\ state' = "half_open"
    /\ UNCHANGED <<now, openedAt>>

\* A call ends, which may or may not be held against the backend.
Leave(c) ==
    /\ c \in running
    /\ running' = running \ {c}
    /\ UNCHANGED <<now, state, openedAt>>

Heal(c) ==
    /\ state = "half_open"
    /\ c \in running
    /\ running' = running \ {c}
    /\ state' = "closed"
    /\ UNCHANGED <<now, openedAt>>

Trip(c) ==
    /\ c \in running
    /\ running' = running \ {c}
    /\ state' = "open"
    /\ openedAt' = now
    /\ UNCHANGED now

Tick ==
    /\ now' = now + 1
    /\ UNCHANGED <<state, openedAt, running>>

Next ==
    \/ \E c \in Calls : Admit(c) \/ Probe(c) \/ Leave(c) \/ Heal(c) \/ Trip(c)
    \/ Tick

Spec == Init /\ [][Next]_vars
=============================================================================
