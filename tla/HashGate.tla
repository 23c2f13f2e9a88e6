------------------------------ MODULE HashGate ------------------------------
(***************************************************************************)
(* What the script registry promises, whatever calls overlap: a script     *)
(* runs for a proposal only after an Operator approved that very text for  *)
(* it, and is approved only after a clean dry run of that very text.       *)
(***************************************************************************)
CONSTANTS Bodies, ProposalIds

VARIABLES dryOK, approvals, ran

gate == <<dryOK, approvals, ran>>

Texts == ProposalIds \X Bodies

Init == dryOK = {} /\ approvals = {} /\ ran = {}

DryRun(t) == dryOK' = dryOK \cup {t} /\ UNCHANGED <<approvals, ran>>

Approve(t) ==
    /\ t \in dryOK
    /\ approvals' = approvals \cup {t}
    /\ UNCHANGED <<dryOK, ran>>

Run(t) ==
    /\ t \in approvals
    /\ ran' = ran \cup {t}
    /\ UNCHANGED <<dryOK, approvals>>

Next == \E t \in Texts : DryRun(t) \/ Approve(t) \/ Run(t)

Spec == Init /\ [][Next]_gate
=============================================================================
