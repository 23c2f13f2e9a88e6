--------------------------- MODULE RegistryProofs ---------------------------
(***************************************************************************)
(* Proofs about ScriptRegistry for any number of callers, proposals,       *)
(* texts and grants and any budget of failures. The argument is            *)
(* RegistryInv: a lemma per conjunct shows that every step keeps it.       *)
(***************************************************************************)
EXTENDS RegistryProperties, TLAPS

\* The steps of Next by their kind: a request begins, an operation takes its
\* next step, a grant is written.
Request(c) ==
    \/ \E p \in ProposalIds, b \in Bodies : Propose(c, p, b) \/ Edit(c, p, b)
    \/ \E p \in ProposalIds, d \in {"approve", "deny"} : handleAPIProposalDecision(c, p, d)
    \/ \E p \in ProposalIds : Expire(c, p) \/ Execute(c, p)
    \/ \E g \in GrantIds : CheckGrant(c, g)

Work(c) ==
    \/ InsertProposal(c) \/ UpdateRow(c) \/ RefuseTransition(c) \/ AppendAudit(c)
    \/ Approve(c) \/ Deny(c) \/ DryRunStep(c) \/ Check(c)
    \/ CheckPrecondition(c) \/ Run(c) \/ FinishCheckGrant(c)

GrantStep ==
    \E g \in GrantIds :
        \/ GrantTTLElapses(g)
        \/ \E c \in Callers :
              \/ RevokeGrant(c, g) \/ TouchGrant(c, g)
              \/ \E b \in Bodies, scope \in {"session", "standing"}, session \in BOOLEAN :
                    IssueGrant(c, g, b, scope, session)

LEMMA StepCases ==
    ASSUME [Next]_vars
    PROVE  \/ \E c \in Callers : Request(c) \/ Work(c)
           \/ GrantStep \/ Crash \/ UNCHANGED vars
  BY Zenon DEF Next, Request, Work, GrantStep

\* The rows change only by an insert and by a transition.
LEMMA RowsFrame ==
    ASSUME [Next]_vars
    PROVE  \/ UNCHANGED rows
           \/ \E c \in Callers : InsertProposal(c) \/ UpdateRow(c)
<1>1. ASSUME NEW c \in Callers, Request(c)
      PROVE  UNCHANGED rows
  BY <1>1 DEF Request, tables, Propose, Edit, handleAPIProposalDecision, Expire,
              ReadFor, Execute, CheckGrant
<1>2. ASSUME NEW c \in Callers, Work(c)
      PROVE  UNCHANGED rows \/ InsertProposal(c) \/ UpdateRow(c)
  BY <1>2 DEF Work, tables, ReadFor, RefuseTransition, Refuse, AppendAudit, StoreFails,
              Approve, Deny, DryRunStep, Check, CheckPrecondition, Run, FinishCheckGrant
<1>3. CASE GrantStep
  BY <1>3 DEF GrantStep, GrantTTLElapses, RevokeGrant, TouchGrant, IssueGrant
<1>4. CASE Crash \/ UNCHANGED vars
  BY <1>4 DEF Crash, vars, tables
<1> QED
  BY <1>1, <1>2, <1>3, <1>4, StepCases

\* The grants change only by the operations on grants.
LEMMA GrantsFrame ==
    ASSUME [Next]_vars
    PROVE  UNCHANGED <<grants, revoked>> \/ GrantStep
<1>1. ASSUME NEW c \in Callers, Request(c)
      PROVE  UNCHANGED <<grants, revoked>>
  BY <1>1 DEF Request, tables, history, Propose, Edit, handleAPIProposalDecision, Expire,
              ReadFor, Execute, CheckGrant
<1>2. ASSUME NEW c \in Callers, Work(c)
      PROVE  UNCHANGED <<grants, revoked>>
  BY <1>2 DEF Work, tables, history, ReadFor, InsertProposal, UpdateRow, RefuseTransition,
              Refuse, AppendAudit, StoreFails, Approve, Deny, DryRunStep, Check,
              CheckPrecondition, Run, FinishCheckGrant
<1>3. CASE Crash \/ UNCHANGED vars
  BY <1>3 DEF Crash, vars, tables, history
<1> QED
  BY <1>1, <1>2, <1>3, StepCases

\* What was clean or approved once stays so.
LEMMA HistoryGrows ==
    ASSUME [Next]_vars
    PROVE  dryOK \subseteq dryOK' /\ approvals \subseteq approvals'
<1>1. ASSUME NEW c \in Callers, Request(c)
      PROVE  UNCHANGED <<dryOK, approvals>>
  BY <1>1 DEF Request, history, Propose, Edit, handleAPIProposalDecision, Expire,
              ReadFor, Execute, CheckGrant
<1>2. ASSUME NEW c \in Callers, Work(c)
      PROVE  dryOK \subseteq dryOK' /\ approvals \subseteq approvals'
  BY <1>2 DEF Work, history, ReadFor, InsertProposal, UpdateRow, RefuseTransition,
              Refuse, AppendAudit, Approve, Deny, DryRunStep, Check,
              CheckPrecondition, Run, FinishCheckGrant
<1>3. CASE GrantStep
  BY <1>3 DEF GrantStep, history, GrantTTLElapses, RevokeGrant, TouchGrant, IssueGrant
<1>4. CASE Crash \/ UNCHANGED vars
  BY <1>4 DEF Crash, vars, history
<1> QED
  BY <1>1, <1>2, <1>3, <1>4, StepCases

\* A predicate that passes readable evidence has seen a clean dry run.
LEMMA VerdictIsClean ==
    ASSUME NEW e \in EvidenceType, Readable(e), verdict(e)
    PROVE  Clean(e)
<1>1. e.lines \in Seq(Lines)
  BY DEF EvidenceType
<1>2. Scanned(e) = DOMAIN e.lines
  BY <1>1 DEF Scanned, Readable
<1>3. \A i \in DOMAIN e.lines : e.lines[i] \notin {"violation", "spaced"}
  BY <1>2 DEF verdict, parseTranscript, Readable
<1>4. e.traced => e.execs \subseteq {"shim", "safe"}
  BY DEF verdict, unshimmedMutationReasons
<1> QED
  BY <1>3, <1>4 DEF Clean, verdict

\* What an operation does to its own call: the copy it takes or changes keeps
\* its shape, refers to what is stored and says the truth about its text.
CallKept(c) ==
    /\ calls' = [calls EXCEPT ![c] = calls'[c]]
    /\ calls'[c] \in Call
    /\ WellFormed(calls[c])'
    /\ RefersTo(calls[c])'
    /\ EvidenceIsReadable /\ TruthInv => CopySound(calls[c])'

LEMMA RequestKeepsCall ==
    ASSUME ShapeInv, NEW c \in Callers, Request(c)
    PROVE  CallKept(c)
<1> USE RegistryAssumption, NoneIsNoRow
<1> USE DEF CallKept, WellFormed, RefersTo, CopySound, Sound, Holding, Call, Positions,
            Row, States, Judged, Decided, Idle, Goto, Begin
<1> TypeOK
  BY DEF ShapeInv
<1> calls \in [Callers -> Call]
  BY DEF TypeOK
<1>0. \A p \in ProposalIds : Stored(p) => rows[p] \in Row /\ (TruthInv => Sound(p, rows[p]))
  BY DEF TruthInv, TypeOK, Stored
<1>1. ASSUME NEW p \in ProposalIds, NEW b \in Bodies, Propose(c, p, b)
      PROVE  CallKept(c)
  BY <1>1 DEF Propose
<1>2. ASSUME NEW p \in ProposalIds, NEW b \in Bodies, Edit(c, p, b)
      PROVE  CallKept(c)
  BY <1>0, <1>2 DEF Edit
<1>3. ASSUME NEW p \in ProposalIds, NEW d \in {"approve", "deny"},
             handleAPIProposalDecision(c, p, d)
      PROVE  CallKept(c)
  BY <1>3 DEF handleAPIProposalDecision, tables, Stored
<1>4. ASSUME NEW p \in ProposalIds, Expire(c, p)
      PROVE  CallKept(c)
  BY <1>0, <1>4 DEF Expire, ReadFor, history
<1>5. ASSUME NEW p \in ProposalIds, Execute(c, p)
      PROVE  CallKept(c)
  BY <1>0, <1>5 DEF Execute, history
<1>6. ASSUME NEW g \in GrantIds, CheckGrant(c, g)
      PROVE  CallKept(c)
  <2>1. (g \in revoked) \in BOOLEAN
    OBVIOUS
  <2>2. calls'[c] = [at |-> "grant", id |-> g, row |-> None, next |-> None,
                     flag |-> g \in revoked]
    BY <1>6 DEF CheckGrant
  <2>3. calls'[c] \in Call
    BY <2>1, <2>2
  <2>4. grants[g] # None /\ grants' = grants /\ calls' = [calls EXCEPT ![c] = calls'[c]]
    BY <1>6 DEF CheckGrant, tables
  <2> QED
    BY <2>2, <2>3, <2>4
<1> QED
  BY <1>1, <1>2, <1>3, <1>4, <1>5, <1>6 DEF Request

LEMMA WorkKeepsCall ==
    ASSUME ShapeInv, NEW c \in Callers, Work(c), ~Check(c)
    PROVE  CallKept(c)
<1> USE RegistryAssumption, NoneIsNoRow
<1> USE DEF WellFormed, RefersTo, CopySound, Sound, Holding, Call, Positions,
            Row, States, Judged, Decided, Idle, Goto
<1> DEFINE call == calls[c]
<1> calls \in [Callers -> Call]
  BY DEF ShapeInv, TypeOK
<1>0. /\ call \in Call /\ WellFormed(call) /\ RefersTo(call)
      /\ TruthInv => CopySound(call) /\ approvals \subseteq dryOK
      /\ \A p \in ProposalIds : Stored(p) => rows[p] \in Row /\ (TruthInv => Sound(p, rows[p]))
  BY DEF ShapeInv, TruthInv, TypeOK, Stored
<1>1. ASSUME calls' = [calls EXCEPT ![c] = Idle]
      PROVE  CallKept(c)
  BY <1>1 DEF CallKept
<1>2. CASE InsertProposal(c)
  <2>1. CASE StoreFails(c)
    BY <1>1, <2>1 DEF StoreFails, Return
  <2>2. CASE calls' = [calls EXCEPT ![c] = [call EXCEPT !.at = "audit"]] /\ UNCHANGED history
    BY <1>0, <1>2, <2>2 DEF CallKept, InsertProposal, history
  <2> QED
    BY <1>2, <2>1, <2>2 DEF InsertProposal, AfterInsert
<1>3. CASE UpdateRow(c)
  <2>1. CASE StoreFails(c)
    BY <1>1, <2>1 DEF StoreFails, Return
  <2>2. CASE ~StoreFails(c)
    <3> DEFINE row == [call.row EXCEPT !.state = call.next]
    <3>1. /\ calls' = [calls EXCEPT ![c] = [call EXCEPT !.at = "audit", !.row = row, !.next = None]]
          /\ dryOK' = dryOK
          /\ approvals' = IF call.next = "approved" THEN approvals \cup {<<call.id, row.hash>>}
                          ELSE approvals
          /\ call.at = "update" /\ CanTransitionTo(call.row.state, call.next)
      BY <1>3, <2>2 DEF UpdateRow
    <3>2. row \in Row /\ row.hash = call.row.hash /\ row.state = call.next
      BY <1>0, <3>1
    <3>3. TruthInv /\ call.next \in Judged => <<call.id, row.hash>> \in dryOK
      BY <1>0, <3>1, <3>2 DEF CanTransitionTo, transitions
    <3>4. TruthInv /\ call.next \in Decided => <<call.id, row.hash>> \in approvals'
      BY <1>0, <3>1, <3>2 DEF CanTransitionTo, transitions
    <3>5. calls'[c] = [at |-> "audit", id |-> call.id, row |-> row, next |-> None,
                       flag |-> call.flag]
      BY <1>0, <3>1
    <3>6. calls'[c] \in Call /\ calls' = [calls EXCEPT ![c] = calls'[c]]
      BY <1>0, <3>1, <3>2, <3>5
    <3> HIDE DEF row
    <3> QED
      BY <1>0, <3>1, <3>2, <3>3, <3>4, <3>5, <3>6 DEF CallKept
  <2> QED
    BY <2>1, <2>2
<1>4. CASE RefuseTransition(c)
  BY <1>1, <1>4 DEF RefuseTransition, Refuse, Return
<1>5. CASE AppendAudit(c)
  <2>1. CASE StoreFails(c)
    BY <1>1, <2>1 DEF StoreFails, Return
  <2>2. CASE Continue(call) = Idle /\ calls' = [calls EXCEPT ![c] = Idle]
    BY <1>1, <2>2
  <2>3. CASE calls' = [calls EXCEPT ![c] = Continue(call)] /\ UNCHANGED history
    <3>1. CASE call.row.state = "proposed"
      BY <1>0, <1>5, <2>3, <3>1 DEF CallKept, AppendAudit, history, Continue
    <3>2. CASE call.row.state \in {"dry_run_ok", "precondition_failed"}
      BY <1>0, <1>5, <2>3, <3>2 DEF CallKept, AppendAudit, history, Continue
    <3>3. CASE call.row.state = "running"
      BY <1>0, <1>5, <2>3, <3>3 DEF CallKept, AppendAudit, history, Continue
    <3>4. CASE call.row.state \notin {"proposed", "dry_run_ok", "precondition_failed", "running"}
      BY <2>2, <2>3, <3>4 DEF Continue
    <3> QED
      BY <3>1, <3>2, <3>3, <3>4
  <2> QED
    BY <1>5, <2>1, <2>3 DEF AppendAudit
<1>6. ASSUME NEW s \in {"approved", "denied"}, ReadFor(c, call.id, s),
             call.at \in {"approve", "deny"}
      PROVE  CallKept(c)
  <2>1. /\ call.id \in ProposalIds /\ rows[call.id] \in Row
        /\ TruthInv => Sound(call.id, rows[call.id])
    BY <1>0, <1>6
  <2>2. calls'[c] = [at |-> "update", id |-> call.id, row |-> rows[call.id], next |-> s,
                     flag |-> FALSE]
    BY <1>6 DEF ReadFor
  <2>3. calls'[c] \in Call /\ calls' = [calls EXCEPT ![c] = calls'[c]]
    BY <1>6, <2>1, <2>2 DEF ReadFor
  <2> QED
    BY <1>6, <2>1, <2>2, <2>3 DEF CallKept, ReadFor, history
<1>7. CASE Approve(c) \/ Deny(c)
  <2>1. CASE Refuse(c)
    BY <1>1, <2>1 DEF Refuse, Return
  <2> QED
    BY <1>6, <1>7, <2>1 DEF Approve, Deny
<1>8. CASE DryRunStep(c)
  <2> DEFINE judged(next) == [call EXCEPT !.at = "update", !.next = next]
  <2>1. CASE calls' = [calls EXCEPT ![c] = judged("dry_run_failed")]
    BY <1>0, <1>8, <2>1 DEF CallKept, DryRunStep
  <2>2. CASE /\ calls' = [calls EXCEPT ![c] = judged("dry_run_ok")]
             /\ EvidenceIsReadable => <<call.id, call.row.hash>> \in dryOK'
    BY <1>0, <1>8, <2>2 DEF CallKept, DryRunStep
  <2>3. CASE calls' = [calls EXCEPT ![c] = Idle]
    BY <1>1, <2>3
  <2>4. ASSUME NEW e \in Evidence, verdict(e), EvidenceIsReadable
        PROVE  Clean(e)
    BY <2>4, VerdictIsClean DEF EvidenceIsReadable
  <2> QED
    BY <1>8, <2>1, <2>2, <2>3, <2>4 DEF DryRunStep, Return
<1>9. CASE CheckPrecondition(c)
  <2>1. PICK holds \in BOOLEAN :
           calls' = [calls EXCEPT ![c] = [call EXCEPT !.at = "update", !.next = "running",
                                                      !.flag = holds]]
    BY <1>9 DEF CheckPrecondition
  <2>2. calls'[c] = [at |-> "update", id |-> call.id, row |-> call.row, next |-> "running",
                     flag |-> holds]
    BY <1>0, <2>1
  <2>3. calls'[c] \in Call /\ calls' = [calls EXCEPT ![c] = calls'[c]]
    BY <1>0, <2>1, <2>2
  <2> QED
    BY <1>0, <1>9, <2>2, <2>3 DEF CallKept, CheckPrecondition, history
<1>10. CASE Run(c)
  <2>1. PICK s \in {"succeeded", "failed"} :
           calls' = [calls EXCEPT ![c] = [call EXCEPT !.at = "update", !.next = s]]
    BY <1>10 DEF Run
  <2> QED
    BY <1>0, <1>10, <2>1 DEF CallKept, Run
<1>11. CASE FinishCheckGrant(c)
  BY <1>1, <1>11 DEF FinishCheckGrant, Return
<1> QED
  BY <1>2, <1>3, <1>4, <1>5, <1>7, <1>8, <1>9, <1>10, <1>11 DEF Work

\* No row is deleted, and what is written is as sound as the copy it comes from.
LEMMA RowsStep ==
    ASSUME ShapeInv, [Next]_vars
    PROVE  /\ rows' \in [ProposalIds -> Row \cup {None}]
           /\ \A p \in ProposalIds : Stored(p) => Stored(p)'
           /\ EvidenceIsReadable /\ TruthInv =>
                 \A p \in ProposalIds : Stored(p)' => Sound(p, rows[p])'
<1> USE NoneIsNoRow
<1>0. /\ rows \in [ProposalIds -> Row \cup {None}]
      /\ TruthInv => \A p \in ProposalIds : Stored(p) => Sound(p, rows[p])
      /\ dryOK \subseteq dryOK' /\ approvals \subseteq approvals'
  BY HistoryGrows DEF ShapeInv, TruthInv, TypeOK
<1>1. CASE UNCHANGED rows
  BY <1>0, <1>1 DEF Stored, Sound
<1>2. ASSUME NEW c \in Callers, InsertProposal(c) \/ UpdateRow(c), ~UNCHANGED rows
      PROVE  /\ calls'[c].at = "audit" /\ calls'[c].id \in ProposalIds
             /\ calls'[c].row \in Row
             /\ EvidenceIsReadable /\ TruthInv => Sound(calls[c].id, calls[c].row)'
             /\ rows' = [rows EXCEPT ![calls'[c].id] = calls'[c].row]
  <2>1. CallKept(c)
    BY <1>2, WorkKeepsCall DEF Work, Check, InsertProposal, UpdateRow
  <2>2. calls \in [Callers -> Call] /\ WellFormed(calls[c])
    BY DEF ShapeInv, TypeOK
  <2>3. CASE InsertProposal(c)
    <3>1. /\ calls' = [calls EXCEPT ![c] = [calls[c] EXCEPT !.at = "audit"]]
          /\ rows' = [rows EXCEPT ![calls[c].id] = calls[c].row]
      BY <1>2, <2>3 DEF InsertProposal, AfterInsert, Goto, StoreFails, tables
    <3>2. calls'[c].at = "audit" /\ calls'[c].id = calls[c].id /\ calls'[c].row = calls[c].row
      BY <2>2, <3>1 DEF Call
    <3> QED
      BY <2>1, <3>1, <3>2 DEF CallKept, WellFormed, CopySound, Holding
  <2>4. CASE UpdateRow(c)
    <3> DEFINE row == [calls[c].row EXCEPT !.state = calls[c].next]
    <3>1. /\ calls' = [calls EXCEPT ![c] = [calls[c] EXCEPT !.at = "audit", !.row = row,
                                                           !.next = None]]
          /\ rows' = [rows EXCEPT ![calls[c].id] = row]
      BY <1>2, <2>4 DEF UpdateRow, UpdateProposal, Goto, StoreFails, tables
    <3> HIDE DEF row
    <3>2. calls'[c].at = "audit" /\ calls'[c].id = calls[c].id /\ calls'[c].row = row
      BY <2>2, <3>1 DEF Call
    <3> QED
      BY <2>1, <3>1, <3>2 DEF CallKept, WellFormed, CopySound, Holding
  <2> QED
    BY <1>2, <2>3, <2>4
<1>3. ASSUME NEW c \in Callers, InsertProposal(c) \/ UpdateRow(c), ~UNCHANGED rows
      PROVE  /\ rows' \in [ProposalIds -> Row \cup {None}]
             /\ \A p \in ProposalIds : Stored(p) => Stored(p)'
             /\ EvidenceIsReadable /\ TruthInv =>
                   \A p \in ProposalIds : Stored(p)' => Sound(p, rows[p])'
  BY <1>0, <1>2, <1>3 DEF Stored, Sound
<1> QED
  BY <1>1, <1>3, RowsFrame

\* No grant is deleted, and none is un-revoked.
LEMMA GrantsStep ==
    ASSUME ShapeInv, [Next]_vars
    PROVE  /\ grants' \in [GrantIds -> Grant \cup {None}] /\ revoked' \subseteq GrantIds
           /\ \A g \in GrantIds : grants[g] # None => grants'[g] # None
           /\ \A g \in revoked' : grants'[g] # None /\ grants'[g].revoked
<1> USE NoneIsNoRow
<1>0. /\ grants \in [GrantIds -> Grant \cup {None}] /\ revoked \subseteq GrantIds
      /\ \A g \in revoked : grants[g] # None /\ grants[g].revoked
  BY DEF ShapeInv, TypeOK
<1>1. CASE UNCHANGED <<grants, revoked>>
  BY <1>0, <1>1
<1>2. ASSUME NEW g \in GrantIds, NEW gr \in Grant, grants' = [grants EXCEPT ![g] = gr],
             \/ revoked' = revoked /\ (grants[g] # None => gr.revoked = grants[g].revoked)
             \/ revoked' = revoked \cup {g} /\ gr.revoked
      PROVE  /\ grants' \in [GrantIds -> Grant \cup {None}] /\ revoked' \subseteq GrantIds
             /\ \A h \in GrantIds : grants[h] # None => grants'[h] # None
             /\ \A h \in revoked' : grants'[h] # None /\ grants'[h].revoked
  BY <1>0, <1>2
<1>3. ASSUME NEW g \in GrantIds, GrantTTLElapses(g)
      PROVE  \E gr \in Grant : /\ grants' = [grants EXCEPT ![g] = gr]
                               /\ revoked' = revoked /\ gr.revoked = grants[g].revoked
  <2>1. [grants[g] EXCEPT !.expired = TRUE] \in Grant
    BY <1>0, <1>3 DEF GrantTTLElapses, Grant
  <2>2. [grants[g] EXCEPT !.expired = TRUE].revoked = grants[g].revoked
    BY <1>0, <1>3 DEF GrantTTLElapses, Grant
  <2> QED
    BY <1>3, <2>1, <2>2 DEF GrantTTLElapses, history
<1>4. ASSUME NEW g \in GrantIds, NEW c \in Callers, TouchGrant(c, g)
      PROVE  \E gr \in Grant : /\ grants' = [grants EXCEPT ![g] = gr]
                               /\ revoked' = revoked /\ gr.revoked = grants[g].revoked
  <2>1. [grants[g] EXCEPT !.used = TRUE] \in Grant
    BY <1>0, <1>4 DEF TouchGrant, Grant
  <2>2. [grants[g] EXCEPT !.used = TRUE].revoked = grants[g].revoked
    BY <1>0, <1>4 DEF TouchGrant, Grant
  <2> QED
    BY <1>4, <2>1, <2>2 DEF TouchGrant, TouchGrantLastRun, history
<1>5. ASSUME NEW g \in GrantIds, NEW c \in Callers, RevokeGrant(c, g)
      PROVE  \E gr \in Grant : /\ grants' = [grants EXCEPT ![g] = gr]
                               /\ revoked' = revoked \cup {g} /\ gr.revoked
  <2>1. [grants[g] EXCEPT !.revoked = TRUE] \in Grant
    BY <1>0, <1>5 DEF RevokeGrant, Grant
  <2>2. [grants[g] EXCEPT !.revoked = TRUE].revoked
    BY <1>0, <1>5 DEF RevokeGrant, Grant
  <2> QED
    BY <1>5, <2>1, <2>2 DEF RevokeGrant
<1>6. ASSUME NEW g \in GrantIds, NEW c \in Callers, NEW b \in Bodies, NEW scope, NEW session,
             IssueGrant(c, g, b, scope, session)
      PROVE  \E gr \in Grant : /\ grants' = [grants EXCEPT ![g] = gr]
                               /\ revoked' = revoked /\ grants[g] = None
  BY <1>6 DEF IssueGrant, Grant, history
<1> QED
  BY <1>1, <1>2, <1>3, <1>4, <1>5, <1>6, GrantsFrame DEF GrantStep

\* The copies of all operations stay in order.
LEMMA CallsStep ==
    ASSUME ShapeInv, [Next]_vars
    PROVE  /\ calls' \in [Callers -> Call]
           /\ \A c \in Callers : WellFormed(calls[c])' /\ RefersTo(calls[c])'
           /\ EvidenceIsReadable /\ TruthInv => \A c \in Callers : CopySound(calls[c])'
<1> DEFINE Kept(d) == /\ WellFormed(calls[d])' /\ RefersTo(calls[d])'
                      /\ EvidenceIsReadable /\ TruthInv => CopySound(calls[d])'
<1>0. /\ calls \in [Callers -> Call]
      /\ \A d \in Callers : WellFormed(calls[d]) /\ RefersTo(calls[d])
      /\ TruthInv => \A d \in Callers : CopySound(calls[d])
  BY DEF ShapeInv, TruthInv, TypeOK
<1>1. ASSUME NEW d \in Callers, calls'[d] = calls[d]
      PROVE  Kept(d)
  <2>1. WellFormed(calls[d])'
    BY <1>0, <1>1 DEF WellFormed
  <2>2. RefersTo(calls[d])'
    BY <1>0, <1>1, RowsStep, GrantsStep DEF RefersTo
  <2>3. TruthInv => CopySound(calls[d])'
    BY <1>0, <1>1, HistoryGrows DEF CopySound, Sound
  <2> QED
    BY <2>1, <2>2, <2>3
<1>2. ASSUME NEW c \in Callers, CallKept(c)
      PROVE  calls' \in [Callers -> Call] /\ \A d \in Callers : Kept(d)
  <2>1. \A d \in Callers : d # c => calls'[d] = calls[d]
    BY <1>0, <1>2 DEF CallKept
  <2>2. Kept(c)
    BY <1>2 DEF CallKept
  <2>3. calls' \in [Callers -> Call]
    BY <1>0, <1>2 DEF CallKept
  <2> QED
    BY <1>1, <2>1, <2>2, <2>3
<1>3. CASE Crash
  <2>1. calls' = [c \in Callers |-> Idle]
    BY <1>3 DEF Crash
  <2> QED
    BY <2>1 DEF Idle, Call, Positions, WellFormed, RefersTo, CopySound, Holding
<1>4. CASE UNCHANGED calls
  BY <1>0, <1>1, <1>4
<1>5. ASSUME NEW c \in Callers, Check(c)
      PROVE  UNCHANGED calls
  BY <1>5 DEF Check
<1>6. GrantStep => UNCHANGED calls
  BY DEF GrantStep, GrantTTLElapses, RevokeGrant, TouchGrant, IssueGrant
<1> QED
  <2>1. CASE \E c \in Callers : Request(c) \/ Work(c)
    BY <1>2, <1>4, <1>5, <2>1, RequestKeepsCall, WorkKeepsCall
  <2>2. CASE UNCHANGED vars
    BY <1>4, <2>2 DEF vars
  <2> QED
    BY <1>3, <1>4, <1>6, <2>1, <2>2, StepCases

\* The tables without keys of their own, the capability and the budgets.
LEMMA RestStep ==
    ASSUME ShapeInv, [Next]_vars
    PROVE  /\ scripts' \subseteq Bodies
           /\ audit' \in [ProposalIds -> SUBSET States]
           /\ cap' \in {"unprobed", "present", "missing"}
           /\ spent' \in [calls : Nat, store : Nat, cancel : Nat, crash : Nat]
<1> DEFINE RestOK == /\ scripts' \subseteq Bodies
                     /\ audit' \in [ProposalIds -> SUBSET States]
                     /\ cap' \in {"unprobed", "present", "missing"}
                     /\ spent' \in [calls : Nat, store : Nat, cancel : Nat, crash : Nat]
<1>0. /\ scripts \subseteq Bodies
      /\ audit \in [ProposalIds -> SUBSET States]
      /\ cap \in {"unprobed", "present", "missing"}
      /\ spent \in [calls : Nat, store : Nat, cancel : Nat, crash : Nat]
  BY DEF ShapeInv, TypeOK
<1>1. ASSUME NEW c \in Callers, Request(c)
      PROVE  RestOK
  <2>1. UNCHANGED <<audit, cap>> /\ scripts' \subseteq Bodies
    BY <1>0, <1>1 DEF Request, tables, Propose, Edit, handleAPIProposalDecision, Expire,
                      ReadFor, Execute, CheckGrant
  <2>2. spent' = [spent EXCEPT !.calls = @ + 1]
    BY <1>1 DEF Request, Propose, Edit, handleAPIProposalDecision, Expire, Execute,
                CheckGrant, Begin
  <2> QED
    BY <1>0, <2>1, <2>2
<1>2. ASSUME NEW c \in Callers, AppendAudit(c)
      PROVE  RestOK
  <2>1. calls[c].id \in ProposalIds /\ calls[c].row.state \in States
    BY <1>2 DEF AppendAudit, ShapeInv, WellFormed, Holding, Row
  <2> QED
    BY <1>0, <1>2, <2>1 DEF AppendAudit, StoreFails, tables
<1>3. ASSUME NEW c \in Callers, DryRunStep(c) \/ Check(c) \/ Run(c)
      PROVE  RestOK
  <2>1. UNCHANGED tables /\ probeCapability
    BY <1>3 DEF DryRunStep, Check, Run
  <2> QED
    BY <1>0, <2>1 DEF tables, probeCapability
<1>4. ASSUME NEW c \in Callers,
             \/ InsertProposal(c) \/ UpdateRow(c) \/ RefuseTransition(c) \/ Approve(c)
             \/ Deny(c) \/ CheckPrecondition(c) \/ FinishCheckGrant(c)
      PROVE  RestOK
  <2>1. UNCHANGED <<audit, cap, scripts>>
    BY <1>4 DEF InsertProposal, UpdateRow, RefuseTransition, Refuse, Approve, Deny,
                ReadFor, CheckPrecondition, FinishCheckGrant, StoreFails, tables
  <2>2. UNCHANGED spent \/ spent' = [spent EXCEPT !.store = @ + 1]
    BY <1>4 DEF InsertProposal, UpdateRow, RefuseTransition, Refuse, Approve, Deny,
                CheckPrecondition, FinishCheckGrant, StoreFails
  <2> QED
    BY <1>0, <2>1, <2>2
<1>5. CASE GrantStep
  BY <1>0, <1>5 DEF GrantStep, GrantTTLElapses, RevokeGrant, TouchGrant, IssueGrant, Begin
<1>6. CASE Crash
  BY <1>0, <1>6 DEF Crash, tables
<1>7. CASE UNCHANGED vars
  BY <1>0, <1>7 DEF vars, tables
<1> QED
  BY <1>1, <1>2, <1>3, <1>4, <1>5, <1>6, <1>7, StepCases DEF Work

\* An operation that holds a copy works for a proposal.
LEMMA HoldingCopy ==
    ASSUME ShapeInv, NEW c \in Callers, calls[c].at \in Holding
    PROVE  /\ calls[c].id \in ProposalIds /\ calls[c].row \in Row
           /\ calls[c].row.hash \in Bodies /\ calls[c].row.state \in States
  BY DEF ShapeInv, WellFormed, Row

\* The history variables record pairs of their kind; what is approved was
\* dry-run clean, and what CheckGrant accepts was approved.
LEMMA HistoryStep ==
    ASSUME ShapeInv, [Next]_vars
    PROVE  /\ dryOK' \subseteq ProposalIds \X Bodies
           /\ approvals' \subseteq ProposalIds \X Bodies
           /\ ran' \subseteq ProposalIds \X Bodies
           /\ lost' \subseteq ProposalIds \X States
           /\ abandoned' \subseteq ProposalIds
           /\ usable' \subseteq Bodies
           /\ TruthInv => approvals' \subseteq dryOK'
           /\ TruthInv /\ GrantedWasApproved => GrantedWasApproved'
<1> DEFINE HistoryOK == /\ dryOK' \subseteq ProposalIds \X Bodies
                        /\ approvals' \subseteq ProposalIds \X Bodies
                        /\ ran' \subseteq ProposalIds \X Bodies
                        /\ lost' \subseteq ProposalIds \X States
                        /\ abandoned' \subseteq ProposalIds
                        /\ usable' \subseteq Bodies
                        /\ TruthInv => approvals' \subseteq dryOK'
                        /\ TruthInv /\ GrantedWasApproved => GrantedWasApproved'
<1>0. /\ dryOK \subseteq ProposalIds \X Bodies
      /\ approvals \subseteq ProposalIds \X Bodies
      /\ ran \subseteq ProposalIds \X Bodies
      /\ lost \subseteq ProposalIds \X States
      /\ abandoned \subseteq ProposalIds
      /\ usable \subseteq Bodies
      /\ TruthInv => approvals \subseteq dryOK
  BY DEF ShapeInv, TruthInv, TypeOK
<1>1. CASE UNCHANGED history
  BY <1>0, <1>1 DEF history, GrantedWasApproved
<1>2. ASSUME NEW c \in Callers, UpdateRow(c)
      PROVE  HistoryOK
  <2> DEFINE t == <<calls[c].id, calls[c].row.hash>>
  <2>1. calls[c].id \in ProposalIds /\ calls[c].row \in Row /\ t \in ProposalIds \X Bodies
    BY <1>2, HoldingCopy DEF UpdateRow, Holding
  <2>2. /\ UNCHANGED <<dryOK, ran, lost, usable>>
        /\ abandoned' = abandoned \/ abandoned' = abandoned \cup {calls[c].id}
        /\ \/ approvals' = approvals
           \/ approvals' = approvals \cup {t} /\ calls[c].next = "approved"
    BY <1>2, <2>1 DEF UpdateRow, Row
  <2>3. TruthInv /\ calls[c].next = "approved" => t \in dryOK
    <3> SUFFICES ASSUME TruthInv, calls[c].next = "approved"
                 PROVE  t \in dryOK
      OBVIOUS
    <3>1. calls[c].row.state = "awaiting_approval"
      BY <1>2, <2>1 DEF UpdateRow, CanTransitionTo, transitions, Row, States
    <3>2. Sound(calls[c].id, calls[c].row)
      BY <1>2 DEF UpdateRow, TruthInv, CopySound, Holding
    <3> QED
      BY <3>1, <3>2 DEF Sound, Judged, States
  <2> HIDE DEF t
  <2> QED
    BY <1>0, <2>1, <2>2, <2>3 DEF GrantedWasApproved
<1>3. ASSUME NEW c \in Callers, AppendAudit(c)
      PROVE  HistoryOK
  <2>1. calls[c].id \in ProposalIds /\ calls[c].row.state \in States
    BY <1>3, HoldingCopy DEF AppendAudit, Holding
  <2> QED
    BY <1>0, <1>1, <1>3, <2>1 DEF AppendAudit, GrantedWasApproved
<1>4. ASSUME NEW c \in Callers, DryRunStep(c)
      PROVE  HistoryOK
  <2>1. calls[c].id \in ProposalIds /\ calls[c].row.hash \in Bodies
    BY <1>4, HoldingCopy DEF DryRunStep, Holding
  <2>2. /\ UNCHANGED <<approvals, ran, lost, usable>>
        /\ dryOK' = dryOK \/ dryOK' = dryOK \cup {<<calls[c].id, calls[c].row.hash>>}
        /\ abandoned' = abandoned \/ abandoned' = abandoned \cup {calls[c].id}
    BY <1>4 DEF DryRunStep
  <2>3. <<calls[c].id, calls[c].row.hash>> \in ProposalIds \X Bodies
    BY <2>1
  <2>4. GrantedWasApproved => GrantedWasApproved'
    BY <2>2 DEF GrantedWasApproved
  <2> QED
    BY <1>0, <2>1, <2>2, <2>3, <2>4
<1>5. ASSUME NEW c \in Callers, Run(c)
      PROVE  HistoryOK
  <2>1. calls[c].id \in ProposalIds /\ calls[c].row.hash \in Bodies
    BY <1>5, HoldingCopy DEF Run, Holding
  <2>2. /\ UNCHANGED <<dryOK, approvals, lost, abandoned, usable>>
        /\ ran' = ran \/ ran' = ran \cup {<<calls[c].id, calls[c].row.hash>>}
    BY <1>5 DEF Run, ScriptToRun
  <2>3. <<calls[c].id, calls[c].row.hash>> \in ProposalIds \X Bodies
    BY <2>1
  <2>4. GrantedWasApproved => GrantedWasApproved'
    BY <2>2 DEF GrantedWasApproved
  <2> QED
    BY <1>0, <2>1, <2>2, <2>3, <2>4
<1>6. ASSUME NEW c \in Callers, FinishCheckGrant(c)
      PROVE  HistoryOK
  <2> DEFINE b == grants[calls[c].id].hash
  <2>1. ASSUME FindApprovedProposalByHash(b)
        PROVE  /\ b \in Bodies
               /\ TruthInv => \E p \in ProposalIds : <<p, b>> \in approvals \cap dryOK
    <3>1. PICK p \in ProposalIds : Stored(p) /\ rows[p].hash = b /\ rows[p].state = "approved"
      BY <2>1 DEF FindApprovedProposalByHash
    <3>2. rows[p] \in Row /\ (TruthInv => Sound(p, rows[p]))
      BY <3>1 DEF ShapeInv, TruthInv, TypeOK, Stored
    <3>3. TruthInv => <<p, rows[p].hash>> \in approvals
      BY <3>1, <3>2 DEF Sound, Decided
    <3> QED
      BY <1>0, <3>1, <3>2, <3>3 DEF Row
  <2>2. /\ UNCHANGED <<dryOK, approvals, ran, lost, abandoned>>
        /\ usable' = IF FindApprovedProposalByHash(b) THEN usable \cup {b} ELSE usable
    BY <1>6 DEF FinishCheckGrant
  <2> HIDE DEF b
  <2> QED
    BY <1>0, <2>1, <2>2 DEF GrantedWasApproved
<1>7. ASSUME NEW c \in Callers, Request(c)
      PROVE  UNCHANGED history
  BY <1>7 DEF Request, Propose, Edit, handleAPIProposalDecision, Expire, ReadFor, Execute,
              CheckGrant
<1>8. ASSUME NEW c \in Callers,
             \/ InsertProposal(c) \/ RefuseTransition(c) \/ Approve(c) \/ Deny(c)
             \/ Check(c) \/ CheckPrecondition(c)
      PROVE  UNCHANGED history
  BY <1>8 DEF InsertProposal, RefuseTransition, Refuse, Approve, Deny, ReadFor, Check,
              CheckPrecondition
<1>9. CASE GrantStep
  BY <1>0, <1>9 DEF GrantStep, GrantTTLElapses, RevokeGrant, TouchGrant, IssueGrant,
                    history, GrantedWasApproved
<1>10. CASE Crash
  <2>1. \A c \in Callers : Working(c) => calls[c].id \in ProposalIds
    BY HoldingCopy DEF Working, ShapeInv, WellFormed
  <2>2. \A c \in Callers : calls[c].at = "audit" =>
           <<calls[c].id, calls[c].row.state>> \in ProposalIds \X States
    BY HoldingCopy DEF Holding
  <2>3. lost' \subseteq ProposalIds \X States
    BY <1>0, <1>10, <2>2 DEF Crash
  <2>4. abandoned' \subseteq ProposalIds
    BY <1>0, <1>10, <2>1 DEF Crash
  <2> QED
    BY <1>0, <1>10, <2>3, <2>4 DEF Crash, GrantedWasApproved
<1> QED
  BY <1>1, <1>2, <1>3, <1>4, <1>5, <1>6, <1>7, <1>8, <1>9, <1>10, StepCases DEF Work, vars

\* The shape of the tables and copies, whatever the evidence of a dry run is.
LEMMA ShapeInit == Init => ShapeInv
  BY DEF Init, ShapeInv, TypeOK, Idle, Call, Positions, WellFormed, RefersTo, Holding

LEMMA ShapeStep ==
    ASSUME ShapeInv, [Next]_vars
    PROVE  ShapeInv'
<1>1. TypeOK'
  BY RowsStep, GrantsStep, CallsStep, RestStep, HistoryStep DEF TypeOK
<1> QED
  BY <1>1, GrantsStep, CallsStep DEF ShapeInv

LEMMA ShapeHolds == Spec => []ShapeInv
  BY ShapeInit, ShapeStep, PTL DEF Spec

\* Types: whatever operations overlap, fail or are cut off by a crash, a row, a
\* grant and a copy carry the hash of a known text (store.go, the tables).
THEOREM RegistryTypes == Spec => []TypeOK
  BY ShapeHolds, PTL DEF ShapeInv

\* The invariant behind the approval gate: rows and copies say the truth about
\* their text although rows are read, changed and written back without a lock.
\* It rests on evidence the predicate reads as it was meant (registry.go,
\* transition on a copy of the row; predicate.go).
THEOREM RegistryInvariant ==
    ASSUME EvidenceIsReadable
    PROVE  Spec => []RegistryInv
<1>1. Init => RegistryInv
  BY ShapeInit DEF Init, RegistryInv, TruthInv, Idle, CopySound, Holding, Stored
<1>2. RegistryInv /\ [Next]_vars => RegistryInv'
  BY ShapeStep, RowsStep, CallsStep, HistoryStep DEF RegistryInv, TruthInv
<1> QED
  BY <1>1, <1>2, PTL DEF Spec

\* A grant alone authorises nothing: CheckGrant accepts it only for a text
\* that was approved after a clean dry run (grants.go, CheckGrant).
THEOREM GrantIsBacked ==
    ASSUME EvidenceIsReadable
    PROVE  Spec => []GrantedWasApproved
<1>1. Init => GrantedWasApproved
  BY DEF Init, GrantedWasApproved
<1>2. RegistryInv /\ GrantedWasApproved /\ [Next]_vars => GrantedWasApproved'
  BY HistoryStep DEF RegistryInv
<1> QED
  BY <1>1, <1>2, RegistryInvariant, PTL DEF Spec

\* Only the operation's own steps, and a crash, change its call.
LEMMA OwnSteps ==
    ASSUME ShapeInv, [Next]_vars, NEW d \in Callers
    PROVE  calls'[d] = calls[d] \/ Request(d) \/ Work(d) \/ Crash
<1>1. ASSUME NEW c \in Callers, c # d, Request(c) \/ (Work(c) /\ ~Check(c))
      PROVE  calls'[d] = calls[d]
  <2>1. CallKept(c)
    BY <1>1, RequestKeepsCall, WorkKeepsCall
  <2> QED
    BY <1>1, <2>1 DEF CallKept, ShapeInv, TypeOK
<1>2. ASSUME NEW c \in Callers, Check(c)
      PROVE  calls'[d] = calls[d]
  BY <1>2 DEF Check
<1>3. GrantStep \/ UNCHANGED vars => calls'[d] = calls[d]
  BY DEF GrantStep, GrantTTLElapses, RevokeGrant, TouchGrant, IssueGrant, vars
<1> QED
  BY <1>1, <1>2, <1>3, StepCases

\* Only CheckGrant takes a call to the second half of a check.
LEMMA WorkLeavesGrants ==
    ASSUME ShapeInv, NEW c \in Callers, Work(c), calls'[c].at = "grant"
    PROVE  calls'[c] = calls[c]
<1> USE DEF Goto, Return, Idle
<1>0. calls \in [Callers -> Call]
  BY DEF ShapeInv, TypeOK
<1>1. CASE calls' = [calls EXCEPT ![c] = Idle]
  BY <1>0, <1>1
<1>3. CASE InsertProposal(c)
  BY <1>0, <1>1, <1>3 DEF InsertProposal, AfterInsert, StoreFails, Call
<1>4. CASE UpdateRow(c)
  <2>1. CASE StoreFails(c)
    BY <1>1, <2>1 DEF StoreFails
  <2>2. PICK row : calls' = [calls EXCEPT ![c] = [calls[c] EXCEPT !.at = "audit", !.row = row,
                                                                  !.next = None]]
    BY <1>4, <2>1 DEF UpdateRow
  <2> QED
    BY <1>0, <2>2 DEF Call
<1>5. CASE RefuseTransition(c)
  BY <1>1, <1>5 DEF RefuseTransition, Refuse
<1>6. CASE Approve(c) \/ Deny(c)
  <2>1. CASE Refuse(c)
    BY <1>1, <2>1 DEF Refuse
  <2>2. PICK next : ReadFor(c, calls[c].id, next)
    BY <1>6, <2>1 DEF Approve, Deny
  <2> QED
    BY <1>0, <2>2 DEF ReadFor
<1>7. CASE CheckPrecondition(c)
  BY <1>0, <1>7 DEF CheckPrecondition, Call
<1>8. CASE AppendAudit(c)
  <2>1. CASE StoreFails(c)
    BY <1>1, <2>1 DEF StoreFails
  <2>2. calls'[c] = Continue(calls[c])
    BY <1>0, <1>8, <2>1 DEF AppendAudit
  <2>3. calls[c].at = "audit" /\ calls[c] \in Call
    BY <1>0, <1>8 DEF AppendAudit
  <2> QED
    BY <2>2, <2>3 DEF Continue, Call
<1>9. CASE DryRunStep(c)
  BY <1>0, <1>1, <1>9 DEF DryRunStep, Call
<1>10. CASE Run(c)
  BY <1>0, <1>10 DEF Run, Call
<1>11. CASE Check(c) \/ FinishCheckGrant(c)
  BY <1>1, <1>11 DEF Check, FinishCheckGrant
<1> QED
  BY <1>3, <1>4, <1>5, <1>6, <1>7, <1>8, <1>9, <1>10, <1>11 DEF Work

\* A check that begins after the revocation of its grant is refused
\* (grants.go, CheckGrant and RevokeGrant).
THEOREM RevocationHolds == Spec => []RevokedIsRefused
<1>1. Init => RevokedIsRefused
  BY DEF Init, RevokedIsRefused, Idle
<1>2. ShapeInv /\ RevokedIsRefused /\ [Next]_vars => RevokedIsRefused'
  <2> SUFFICES ASSUME ShapeInv, RevokedIsRefused, [Next]_vars, NEW d \in Callers,
                      calls'[d].at = "grant"
               PROVE  ~calls'[d].flag
    BY DEF RevokedIsRefused
  <2>0. calls \in [Callers -> Call] /\ \A g \in revoked : grants[g] # None /\ grants[g].revoked
    BY DEF ShapeInv, TypeOK
  <2>1. CASE calls'[d] = calls[d]
    BY <2>1 DEF RevokedIsRefused
  <2>2. CASE Request(d)
    <3>1. ASSUME NEW g \in GrantIds, CheckGrant(d, g)
          PROVE  ~calls'[d].flag
      BY <2>0, <3>1 DEF CheckGrant, Goto, Idle
    <3>2. ASSUME NEW p \in ProposalIds, NEW b \in Bodies, Propose(d, p, b) \/ Edit(d, p, b)
          PROVE  calls'[d].at # "grant"
      <4>1. Propose(d, p, b) => calls'[d].at = "insert"
        BY <2>0 DEF Propose, Goto, Idle
      <4>2. Edit(d, p, b) => calls'[d].at = "update"
        BY <2>0 DEF Edit, Goto, Idle
      <4> QED
        BY <3>2, <4>1, <4>2
    <3>3. ASSUME NEW p \in ProposalIds, NEW w \in {"approve", "deny"},
                 handleAPIProposalDecision(d, p, w)
          PROVE  calls'[d].at # "grant"
      BY <2>0, <3>3 DEF handleAPIProposalDecision, Goto, Idle
    <3>4. ASSUME NEW p \in ProposalIds, Expire(d, p) \/ Execute(d, p)
          PROVE  calls'[d].at # "grant"
      <4>1. Expire(d, p) => calls'[d].at = "update"
        BY <2>0 DEF Expire, ReadFor, Goto, Idle
      <4>2. Execute(d, p) => calls'[d].at = "precond"
        BY <2>0 DEF Execute, Goto, Idle
      <4> QED
        BY <3>4, <4>1, <4>2
    <3> QED
      BY <2>2, <3>1, <3>2, <3>3, <3>4 DEF Request
  <2>3. CASE Work(d)
    BY <2>1, <2>3, WorkLeavesGrants
  <2>4. CASE Crash
    BY <2>4 DEF Crash, Idle
  <2> QED
    BY <2>1, <2>2, <2>3, <2>4, OwnSteps
<1> QED
  BY <1>1, <1>2, ShapeHolds, PTL DEF Spec

\* A step that changes a row leaves its writer with that row, about to append
\* the audit entry.
LEMMA WriterIsAuditing ==
    ASSUME ShapeInv, [Next]_vars, NEW p \in ProposalIds, rows'[p] # rows[p]
    PROVE  \E c \in Callers : /\ calls'[c].at = "audit" /\ calls'[c].id = p
                              /\ calls'[c].row = rows'[p]
<1>1. PICK c \in Callers : InsertProposal(c) \/ UpdateRow(c)
  BY RowsFrame
<1>2. /\ calls \in [Callers -> Call] /\ rows \in [ProposalIds -> Row \cup {None}]
      /\ calls[c].id \in ProposalIds
  BY <1>1, HoldingCopy DEF ShapeInv, TypeOK, InsertProposal, UpdateRow, Holding
<1>3. CASE InsertProposal(c)
  <2>1. /\ calls' = [calls EXCEPT ![c] = [calls[c] EXCEPT !.at = "audit"]]
        /\ rows' = [rows EXCEPT ![calls[c].id] = calls[c].row]
    BY <1>3 DEF InsertProposal, AfterInsert, Goto, StoreFails, tables
  <2> QED
    BY <1>2, <2>1 DEF Call
<1>4. CASE UpdateRow(c)
  <2> DEFINE row == [calls[c].row EXCEPT !.state = calls[c].next]
  <2>1. /\ calls' = [calls EXCEPT ![c] = [calls[c] EXCEPT !.at = "audit", !.row = row,
                                                         !.next = None]]
        /\ rows' = [rows EXCEPT ![calls[c].id] = row]
    BY <1>4 DEF UpdateRow, UpdateProposal, Goto, StoreFails, tables
  <2> HIDE DEF row
  <2> QED
    BY <1>2, <2>1 DEF Call
<1> QED
  BY <1>1, <1>3, <1>4

\* Nothing is removed from the audit log or from what is known to be lost.
LEMMA AuditGrows ==
    ASSUME ShapeInv, [Next]_vars
    PROVE  /\ \A p \in ProposalIds : audit[p] \subseteq audit'[p]
           /\ lost \subseteq lost' /\ abandoned \subseteq abandoned'
<1>0. audit \in [ProposalIds -> SUBSET States]
  BY DEF ShapeInv, TypeOK
<1>1. ASSUME NEW c \in Callers, Request(c)
      PROVE  UNCHANGED <<audit, lost, abandoned>>
  BY <1>1 DEF Request, tables, history, Propose, Edit, handleAPIProposalDecision, Expire,
              ReadFor, Execute, CheckGrant
<1>2. ASSUME NEW c \in Callers, AppendAudit(c)
      PROVE  /\ \A p \in ProposalIds : audit[p] \subseteq audit'[p]
             /\ lost \subseteq lost' /\ abandoned \subseteq abandoned'
  BY <1>0, <1>2 DEF AppendAudit, StoreFails, tables, history
<1>3. ASSUME NEW c \in Callers, Work(c), ~AppendAudit(c)
      PROVE  UNCHANGED audit /\ lost \subseteq lost' /\ abandoned \subseteq abandoned'
  BY <1>3 DEF Work, tables, history, ReadFor, InsertProposal, UpdateRow, RefuseTransition,
              Refuse, StoreFails, Approve, Deny, DryRunStep, Check, CheckPrecondition, Run,
              FinishCheckGrant
<1>4. CASE GrantStep
  BY <1>4 DEF GrantStep, history, GrantTTLElapses, RevokeGrant, TouchGrant, IssueGrant
<1>5. CASE Crash \/ UNCHANGED vars
  BY <1>5 DEF Crash, vars, tables, history
<1> QED
  BY <1>1, <1>2, <1>3, <1>4, <1>5, StepCases

\* The state of a proposal is on record, about to be, or its entry is known to
\* be lost, whatever transitions overlap (registry.go, transition and Propose).
THEOREM AuditIsComplete == Spec => []AuditedUnlessLost
<1>1. Init => AuditedUnlessLost
  BY DEF Init, AuditedUnlessLost, Stored
<1>2. ShapeInv /\ AuditedUnlessLost /\ [Next]_vars => AuditedUnlessLost'
  <2> SUFFICES ASSUME ShapeInv, AuditedUnlessLost, [Next]_vars, NEW p \in ProposalIds, Stored(p)'
               PROVE  \/ rows'[p].state \in audit'[p]
                      \/ <<p, rows'[p].state>> \in lost'
                      \/ \E c \in Callers : /\ calls'[c].at = "audit" /\ calls'[c].id = p
                                            /\ calls'[c].row.state = rows'[p].state
    BY DEF AuditedUnlessLost
  <2>1. CASE rows'[p] # rows[p]
    BY <2>1, WriterIsAuditing
  <2>2. CASE rows'[p] = rows[p]
    <3>0. /\ audit \in [ProposalIds -> SUBSET States] /\ calls \in [Callers -> Call]
      BY DEF ShapeInv, TypeOK
    <3>1. CASE rows[p].state \in audit[p] \/ <<p, rows[p].state>> \in lost
      BY <2>2, <3>1, AuditGrows
    <3>2. ASSUME NEW c \in Callers, calls[c].at = "audit", calls[c].id = p,
                 calls[c].row.state = rows[p].state
          PROVE  \/ rows[p].state \in audit'[p]
                 \/ <<p, rows[p].state>> \in lost'
                 \/ calls'[c] = calls[c]
      <4>1. CASE Request(c)
        BY <3>2, <4>1 DEF Request, Propose, Edit, handleAPIProposalDecision, Expire, Execute,
                          CheckGrant, Begin
      <4>2. CASE AppendAudit(c)
        BY <3>0, <3>2, <4>2 DEF AppendAudit
      <4>3. CASE Work(c) /\ ~AppendAudit(c)
        BY <3>2, <4>3 DEF Work, InsertProposal, UpdateRow, RefuseTransition, Approve, Deny,
                          DryRunStep, Check, CheckPrecondition, Run, FinishCheckGrant
      <4>4. CASE Crash
        BY <3>2, <4>4 DEF Crash
      <4> QED
        BY <4>1, <4>2, <4>3, <4>4, OwnSteps
    <3>3. Stored(p)
      BY <2>2 DEF Stored
    <3> QED
      BY <2>2, <3>1, <3>2, <3>3 DEF AuditedUnlessLost
  <2> QED
    BY <2>1, <2>2
<1> QED
  BY <1>1, <1>2, ShapeHolds, PTL DEF Spec

\* A proposal in a passing state has an operation at work on it unless that
\* operation failed or the daemon died (registry.go, runDryRunAndAdvance and
\* Execute).
THEOREM PassingStatesAreOwned == Spec => []TransientIsOwned
<1>1. Init => TransientIsOwned
  BY DEF Init, TransientIsOwned, Stored
<1>2. ShapeInv /\ TransientIsOwned /\ [Next]_vars => TransientIsOwned'
  <2> SUFFICES ASSUME ShapeInv, TransientIsOwned, [Next]_vars, NEW p \in ProposalIds,
                      Stored(p)', rows'[p].state \in Transient
               PROVE  p \in abandoned' \/ \E c \in Callers : Owns(c, p)'
    BY DEF TransientIsOwned
  <2>1. CASE rows'[p] # rows[p]
    BY <2>1, WriterIsAuditing DEF Owns
  <2>2. CASE rows'[p] = rows[p]
    <3>0. calls \in [Callers -> Call] /\ rows[p] \in Row
      BY <2>2 DEF ShapeInv, TypeOK, Stored
    <3>1. CASE p \in abandoned
      BY <3>1, AuditGrows
    <3>2. ASSUME NEW c \in Callers, Owns(c, p)
          PROVE  p \in abandoned' \/ Owns(c, p)'
      <4> DEFINE call == calls[c]
      <4>0. /\ call \in Call /\ WellFormed(call) /\ call.id = p /\ call.row = rows[p]
            /\ call.row.state \in Transient
            /\ call.at \in {"audit", "dryrun", "run", "update"}
        BY <2>2, <3>0, <3>2 DEF Owns, ShapeInv
      <4>1. CASE calls'[c] = calls[c]
        BY <2>2, <3>2, <4>1 DEF Owns
      <4>2. CASE Request(c)
        BY <4>0, <4>2 DEF Request, Propose, Edit, handleAPIProposalDecision, Expire, Execute,
                          CheckGrant, Begin
      <4>3. CASE AppendAudit(c)
        <5> SUFFICES ASSUME p \notin abandoned'
                     PROVE  Owns(c, p)'
          OBVIOUS
        <5>2. calls'[c] = Continue(call)
          BY <3>0, <4>0, <4>3 DEF AppendAudit, Goto
        <5>3. CASE call.row.state = "proposed"
          BY <2>2, <4>0, <5>2, <5>3 DEF Continue, Owns, Call
        <5>4. CASE call.row.state \in {"dry_run_ok", "precondition_failed"}
          BY <2>2, <4>0, <5>2, <5>4 DEF Continue, Owns, Call, CanTransitionTo, transitions, States
        <5>5. CASE call.row.state = "running"
          BY <2>2, <4>0, <5>2, <5>5 DEF Continue, Owns, Call, CanTransitionTo, transitions, States
        <5> QED
          BY <4>0, <5>3, <5>4, <5>5 DEF Transient
      <4>4. CASE UpdateRow(c)
        <5> DEFINE row == [call.row EXCEPT !.state = call.next]
        <5> SUFFICES ASSUME p \notin abandoned'
                     PROVE  Owns(c, p)'
          OBVIOUS
        <5>1. /\ rows' = [rows EXCEPT ![p] = row]
              /\ calls' = [calls EXCEPT ![c] = [call EXCEPT !.at = "audit", !.row = row,
                                                            !.next = None]]
          BY <4>0, <4>4 DEF UpdateRow, UpdateProposal, Goto
        <5> HIDE DEF row
        <5>2. rows'[p] = row
          BY <5>1 DEF ShapeInv, TypeOK
        <5> QED
          BY <3>0, <4>0, <5>1, <5>2 DEF Owns, Call
      <4>5. CASE RefuseTransition(c)
        BY <3>2, <4>5 DEF RefuseTransition, Owns
      <4>6. CASE DryRunStep(c)
        <5> SUFFICES ASSUME p \notin abandoned'
                     PROVE  Owns(c, p)'
          OBVIOUS
        <5>1. \/ cap' = "missing" /\ Goto(c, [call EXCEPT !.at = "update", !.next = "dry_run_failed"])
              \/ \E e \in Evidence :
                    Goto(c, [call EXCEPT !.at = "update",
                               !.next = IF verdict(e) THEN "dry_run_ok" ELSE "dry_run_failed"])
          BY <4>0, <4>6 DEF DryRunStep
        <5>2. PICK n \in {"dry_run_ok", "dry_run_failed"} :
                 calls' = [calls EXCEPT ![c] = [call EXCEPT !.at = "update", !.next = n]]
          BY <5>1 DEF Goto
        <5> QED
          BY <2>2, <3>0, <4>0, <4>6, <5>2
             DEF DryRunStep, Owns, Call, WellFormed, CanTransitionTo, transitions, States
      <4>7. CASE Run(c)
        <5>1. PICK n \in {"succeeded", "failed"} :
                 calls' = [calls EXCEPT ![c] = [call EXCEPT !.at = "update", !.next = n]]
          BY <4>7 DEF Run, Goto
        <5> QED
          BY <2>2, <3>0, <4>0, <4>7, <5>1
             DEF Run, Owns, Call, WellFormed, CanTransitionTo, transitions, States
      <4>8. CASE Crash
        BY <3>0, <4>0, <4>8, NoneIsNoRow DEF Crash, Working
      <4> QED
        BY <4>0, <4>1, <4>2, <4>3, <4>4, <4>5, <4>6, <4>7, <4>8, OwnSteps
           DEF Work, InsertProposal, Approve, Deny, Check, CheckPrecondition, FinishCheckGrant
    <3> QED
      BY <2>2, <3>1, <3>2 DEF TransientIsOwned, Stored
  <2> QED
    BY <2>1, <2>2
<1> QED
  BY <1>1, <1>2, ShapeHolds, PTL DEF Spec

\* The registry implements the approval gate: whatever edits, decisions and
\* executions overlap, a text runs only if that very text was approved for its
\* proposal, and is approved only after a clean dry run there (registry.go,
\* Approve, Edit and Execute).
THEOREM RegistryRefinesHashGate ==
    ASSUME EvidenceIsReadable
    PROVE  Spec => ImplementsHashGate
<1>1. Init => Gate!Init
  BY DEF Init, Gate!Init
<1>2. RegistryInv /\ [Next]_vars => [Gate!Next]_Gate!gate
  <2> SUFFICES ASSUME RegistryInv, [Next]_vars
               PROVE  Gate!Next \/ UNCHANGED <<dryOK, approvals, ran>>
    BY DEF Gate!gate
  <2> ShapeInv /\ TruthInv
    BY DEF RegistryInv
  <2>1. ASSUME NEW c \in Callers, UpdateRow(c)
        PROVE  Gate!Next \/ UNCHANGED <<dryOK, approvals, ran>>
    <3> DEFINE t == <<calls[c].id, calls[c].row.hash>>
    <3>1. calls[c].row \in Row /\ t \in Gate!Texts
      BY <2>1, HoldingCopy DEF UpdateRow, Holding, Gate!Texts
    <3>2. /\ UNCHANGED <<dryOK, ran>>
          /\ approvals' = approvals \/ approvals' = approvals \cup {t}
      BY <2>1, <3>1 DEF UpdateRow, Row
    <3>3. approvals' \subseteq dryOK'
      BY HistoryStep
    <3> HIDE DEF t
    <3> QED
      BY <3>1, <3>2, <3>3 DEF Gate!Next, Gate!Approve
  <2>2. ASSUME NEW c \in Callers, DryRunStep(c)
        PROVE  Gate!Next \/ UNCHANGED <<dryOK, approvals, ran>>
    <3>1. <<calls[c].id, calls[c].row.hash>> \in Gate!Texts
      BY <2>2, HoldingCopy DEF DryRunStep, Holding, Gate!Texts
    <3>2. /\ UNCHANGED <<approvals, ran>>
          /\ dryOK' = dryOK \/ dryOK' = dryOK \cup {<<calls[c].id, calls[c].row.hash>>}
      BY <2>2 DEF DryRunStep
    <3> QED
      BY <3>1, <3>2 DEF Gate!Next, Gate!DryRun
  <2>3. ASSUME NEW c \in Callers, Run(c)
        PROVE  Gate!Next \/ UNCHANGED <<dryOK, approvals, ran>>
    <3>1. <<calls[c].id, calls[c].row.hash>> \in Gate!Texts
      BY <2>3, HoldingCopy DEF Run, Holding, Gate!Texts
    <3>2. <<calls[c].id, calls[c].row.hash>> \in approvals
      BY <2>3 DEF Run, ShapeInv, WellFormed, TruthInv, CopySound, Holding, Sound, Decided
    <3>3. /\ UNCHANGED <<dryOK, approvals>>
          /\ ran' = ran \/ ran' = ran \cup {<<calls[c].id, calls[c].row.hash>>}
      BY <2>3 DEF Run, ScriptToRun
    <3> QED
      BY <3>1, <3>2, <3>3 DEF Gate!Next, Gate!Run
  <2>4. ASSUME NEW c \in Callers, Request(c)
        PROVE  UNCHANGED <<dryOK, approvals, ran>>
    BY <2>4 DEF Request, history, Propose, Edit, handleAPIProposalDecision, Expire, ReadFor,
                Execute, CheckGrant
  <2>5. ASSUME NEW c \in Callers, Work(c), ~UpdateRow(c), ~DryRunStep(c), ~Run(c)
        PROVE  UNCHANGED <<dryOK, approvals, ran>>
    BY <2>5 DEF Work, history, InsertProposal, RefuseTransition, Refuse, AppendAudit,
                Approve, Deny, ReadFor, Check, CheckPrecondition, FinishCheckGrant
  <2>6. GrantStep \/ Crash \/ UNCHANGED vars => UNCHANGED <<dryOK, approvals, ran>>
    BY DEF GrantStep, history, GrantTTLElapses, RevokeGrant, TouchGrant, IssueGrant, Crash, vars
  <2> QED
    BY <2>1, <2>2, <2>3, <2>4, <2>5, <2>6, StepCases
<1> QED
  BY <1>1, <1>2, RegistryInvariant, PTL DEF Spec, ImplementsHashGate, Gate!Spec

=============================================================================
