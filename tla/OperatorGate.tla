---------------------------- MODULE OperatorGate ----------------------------
(***************************************************************************)
(* What the harness promises (ADR 0009, 0016 and 0017), with nothing of    *)
(* how it keeps it: incidents are handled one at a time, each is answered  *)
(* at most once, and the world is changed at most once per incident, while *)
(* the incident is open and only after it was approved.                    *)
(***************************************************************************)
EXTENDS Naturals

CONSTANT CycleIds

VARIABLES
    opened,   \* incidents that have been opened so far
    running,  \* incidents that are open now
    verdict,  \* the Operator's answer, per incident
    acted     \* how often the world was changed for an incident

gateVars == <<opened, running, verdict, acted>>

Init ==
    /\ opened = {}
    /\ running = {}
    /\ verdict = [c \in CycleIds |-> "none"]
    /\ acted = [c \in CycleIds |-> 0]

Open(c) ==
    /\ running = {}
    /\ c \notin opened
    /\ opened' = opened \cup {c}
    /\ running' = {c}
    /\ UNCHANGED <<verdict, acted>>

Answer(c, d) ==
    /\ c \in running
    /\ verdict[c] = "none"
    /\ verdict' = [verdict EXCEPT ![c] = d]
    /\ UNCHANGED <<opened, running, acted>>

Act(c) ==
    /\ c \in running
    /\ verdict[c] = "Approved"
    /\ acted[c] = 0
    /\ acted' = [acted EXCEPT ![c] = 1]
    /\ UNCHANGED <<opened, running, verdict>>

\* An incident may close at any moment, answered or not: the window may
\* expire and the process may die.
Close ==
    /\ running # {}
    /\ running' = {}
    /\ UNCHANGED <<opened, verdict, acted>>

Next ==
    \/ \E c \in CycleIds :
          \/ Open(c)
          \/ \E d \in {"Approved", "Denied"} : Answer(c, d)
          \/ Act(c)
    \/ Close

Spec == Init /\ [][Next]_gateVars
=============================================================================
