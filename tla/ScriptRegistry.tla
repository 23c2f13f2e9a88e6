--------------------------- MODULE ScriptRegistry ---------------------------
(***************************************************************************)
(* The script registry (internal/scripts): proposals move through an       *)
(* explicit life cycle, grants bind to a script's hash, approved scripts   *)
(* run. Every operation reads a row, changes its copy and writes it back;  *)
(* no lock is held in between, so a step here is one statement of the      *)
(* database or one call of the executor. A body stands for its hash.       *)
(***************************************************************************)
EXTENDS DryRun, FiniteSets

CONSTANTS
    Bodies,             \* script texts
    DockerBodies,       \* the texts that contain "docker "
    ProposalIds,        \* ids newID can return
    GrantIds,
    Callers,            \* concurrent HTTP requests and MCP calls
    Evidence,           \* what a dry run may leave behind
    HostSandboxes,      \* the Host can create namespaces
    None,
    MaxCalls, MaxStoreFailures, MaxCancels, MaxCrashes

ASSUME RegistryAssumption ==
    /\ DockerBodies \subseteq Bodies
    /\ None \notin Bodies \cup ProposalIds \cup GrantIds
    /\ Evidence \subseteq EvidenceType
    /\ HostSandboxes \in BOOLEAN
    /\ MaxCalls \in Nat /\ MaxStoreFailures \in Nat
    /\ MaxCancels \in Nat /\ MaxCrashes \in Nat

VARIABLES
    rows,       \* the proposals table
    scripts,    \* the scripts table
    audit,      \* the audit log: per proposal the states it was moved to
    grants,     \* the grants table
    calls,      \* the operations in progress, each with its copy of a row
    cap,        \* the executor's capOnce and capErr
    spent,     \* failed writes, cancelled contexts and crashes so far
    dryOK,      \* history: <<proposal, body>> whose dry run was clean
    approvals,  \* history: <<proposal, body>> an Operator approved
    ran,        \* history: <<proposal, body>> the executor started
    lost,       \* history: <<proposal, state>> stored without an audit entry
    abandoned,  \* history: proposals whose operation ended in an error
    revoked,    \* history: grants RevokeGrant was called for
    usable      \* history: texts whose grant CheckGrant accepted

tables == <<rows, scripts, audit, grants>>
history == <<dryOK, approvals, ran, lost, abandoned, revoked, usable>>
vars == <<tables, calls, cap, spent, history>>

States == {"proposed", "dry_run_ok", "dry_run_failed", "awaiting_approval",
           "approved", "denied", "expired", "running", "succeeded", "failed",
           "precondition_failed"}

\* The life cycle.
transitions ==
    [s \in States |->
        CASE s = "proposed" -> {"dry_run_ok", "dry_run_failed"}
          [] s = "dry_run_ok" -> {"awaiting_approval"}
          [] s = "dry_run_failed" -> {"proposed"}
          [] s = "awaiting_approval" -> {"approved", "denied", "expired", "proposed"}
          [] s = "approved" -> {"running", "proposed"}
          [] s = "running" -> {"succeeded", "failed", "precondition_failed"}
          [] s = "precondition_failed" -> {"awaiting_approval"}
          [] OTHER -> {}]

CanTransitionTo(s, next) == next \in transitions[s]

Row == [hash : Bodies, state : States]
Grant == [hash : Bodies, revoked : BOOLEAN, expired : BOOLEAN, used : BOOLEAN]

\* A missing row is told apart from every row.
ASSUME NoneIsNoRow == None \notin Row \cup Grant

\* Where an operation stands.
Idle == [at |-> "idle", id |-> None, row |-> None, next |-> None, flag |-> FALSE]
Positions == {"idle", "approve", "deny", "insert", "update", "audit", "dryrun",
              "precond", "run", "grant"}
Call == [at : Positions, id : ProposalIds \cup GrantIds \cup {None},
         row : Row \cup {None}, next : States \cup {None}, flag : BOOLEAN]

Stored(p) == rows[p] # None

Init ==
    /\ rows = [p \in ProposalIds |-> None]
    /\ scripts = {}
    /\ audit = [p \in ProposalIds |-> {}]
    /\ grants = [g \in GrantIds |-> None]
    /\ calls = [c \in Callers |-> Idle]
    /\ cap = "unprobed"
    /\ spent = [calls |-> 0, store |-> 0, cancel |-> 0, crash |-> 0]
    /\ dryOK = {} /\ approvals = {} /\ ran = {}
    /\ lost = {} /\ abandoned = {} /\ revoked = {} /\ usable = {}

(***************************************************************************)
(* Calls that begin and end.                                               *)
(***************************************************************************)
Begin(c) ==
    /\ calls[c].at = "idle"
    /\ spent.calls < MaxCalls
    /\ spent' = [spent EXCEPT !.calls = @ + 1]

Goto(c, call) == calls' = [calls EXCEPT ![c] = call]
Return(c) == Goto(c, Idle)

\* The call returns a refusal; nothing is written.
Refuse(c) == Return(c) /\ UNCHANGED <<tables, cap, spent, history>>

\* A statement fails; the call returns its error.
StoreFails(c) ==
    /\ spent.store < MaxStoreFailures
    /\ spent' = [spent EXCEPT !.store = @ + 1]
    /\ Return(c)
    /\ UNCHANGED <<tables, cap>>

(***************************************************************************)
(* transition: the check, the row, the audit entry. What follows depends   *)
(* on the state that was reached.                                          *)
(***************************************************************************)
\* Mutation: a precondition that failed leaves the proposal where it is.
ContinueNoReturn(call) ==
    CASE call.row.state = "proposed" -> [call EXCEPT !.at = "dryrun"]
      [] call.row.state = "dry_run_ok" ->
            [call EXCEPT !.at = "update", !.next = "awaiting_approval"]
      [] call.row.state = "running" /\ call.flag -> [call EXCEPT !.at = "run"]
      [] call.row.state = "running" /\ ~call.flag ->
            [call EXCEPT !.at = "update", !.next = "precondition_failed"]
      [] OTHER -> Idle

\* The step after a completed transition.
Continue(call) ==
    CASE call.row.state = "proposed" -> [call EXCEPT !.at = "dryrun"]
      [] call.row.state \in {"dry_run_ok", "precondition_failed"} ->
            [call EXCEPT !.at = "update", !.next = "awaiting_approval"]
      [] call.row.state = "running" /\ call.flag -> [call EXCEPT !.at = "run"]
      [] call.row.state = "running" /\ ~call.flag ->
            [call EXCEPT !.at = "update", !.next = "precondition_failed"]
      [] OTHER -> Idle

\* The whole row is written, its hash included.
UpdateProposal(p, row) == [rows EXCEPT ![p] = row]

UpdateRow(c) ==
    LET call == calls[c]
        row == [call.row EXCEPT !.state = call.next]
    IN  /\ call.at = "update"
        /\ CanTransitionTo(call.row.state, call.next)
        /\ \/ /\ rows' = UpdateProposal(call.id, row)
              /\ Goto(c, [call EXCEPT !.at = "audit", !.row = row, !.next = None])
              /\ approvals' = IF call.next = "approved"
                              THEN approvals \cup {<<call.id, row.hash>>}
                              ELSE approvals
              /\ UNCHANGED <<scripts, audit, grants, cap, spent,
                             dryOK, ran, lost, abandoned, revoked, usable>>
           \/ /\ StoreFails(c)
              /\ abandoned' = abandoned \cup {call.id}
              /\ UNCHANGED <<dryOK, approvals, ran, lost, revoked, usable>>

\* ErrInvalidTransition.
RefuseTransition(c) ==
    /\ calls[c].at = "update"
    /\ ~CanTransitionTo(calls[c].row.state, calls[c].next)
    /\ Refuse(c)

AppendAudit(c) ==
    LET call == calls[c]
    IN  /\ call.at = "audit"
        /\ \/ /\ audit' = [audit EXCEPT ![call.id] = @ \cup {call.row.state}]
              /\ Goto(c, Continue(call))
              /\ UNCHANGED <<rows, scripts, grants, cap, spent, history>>
           \/ /\ StoreFails(c)
              /\ lost' = lost \cup {<<call.id, call.row.state>>}
              /\ abandoned' = abandoned \cup {call.id}
              /\ UNCHANGED <<dryOK, approvals, ran, revoked, usable>>

(***************************************************************************)
(* Operations on a proposal.                                               *)
(***************************************************************************)
\* propose_script: the script is stored, then the proposal, then its first
\* audit entry; the dry run follows. A failed UpsertScript, here and in Edit,
\* leaves everything as it was.
Propose(c, p, b) ==
    /\ Begin(c)
    /\ ~Stored(p) /\ \A d \in Callers : calls[d].id # p
    /\ scripts' = scripts \cup {b}
    /\ Goto(c, [Idle EXCEPT !.at = "insert", !.id = p,
                            !.row = [hash |-> b, state |-> "proposed"]])
    /\ UNCHANGED <<rows, audit, grants, cap, history>>

\* Mutation: the dry run starts before the proposal is on record.
AfterInsertUnaudited(call) == Continue(call)

\* The step after the row was inserted.
AfterInsert(call) == [call EXCEPT !.at = "audit"]

InsertProposal(c) ==
    /\ calls[c].at = "insert"
    /\ \/ /\ rows' = [rows EXCEPT ![calls[c].id] = calls[c].row]
          /\ Goto(c, AfterInsert(calls[c]))
          /\ UNCHANGED <<scripts, audit, grants, cap, spent>>
       \/ StoreFails(c)
    /\ UNCHANGED history

\* Edit: a copy of the row with another hash, back to "proposed".
Edit(c, p, b) ==
    /\ Begin(c)
    /\ Stored(p)
    /\ b # rows[p].hash
    /\ scripts' = scripts \cup {b}
    /\ Goto(c, [Idle EXCEPT !.at = "update", !.id = p, !.next = "proposed",
                            !.row = [rows[p] EXCEPT !.hash = b]])
    /\ UNCHANGED <<rows, audit, grants, cap, history>>

\* The three words the dashboard knows.
decisionOf(s) == IF s \in {"approved", "denied"} THEN s ELSE "pending"

\* The HTTP handler looks first and answers 409 when the proposal is decided.
handleAPIProposalDecision(c, p, decision) ==
    /\ Begin(c)
    /\ Stored(p)
    /\ decisionOf(rows[p].state) = "pending"
    /\ Goto(c, [Idle EXCEPT !.at = decision, !.id = p])
    /\ UNCHANGED <<tables, cap, history>>

\* GetProposal, then transition on the copy.
ReadFor(c, p, next) ==
    /\ Goto(c, [Idle EXCEPT !.at = "update", !.id = p, !.row = rows[p], !.next = next])
    /\ UNCHANGED <<tables, cap, history>>

Approve(c) ==
    LET p == calls[c].id
    IN  /\ calls[c].at = "approve"
        /\ \/ rows[p].state = "awaiting_approval" /\ ReadFor(c, p, "approved") /\ UNCHANGED spent
           \/ rows[p].state # "awaiting_approval" /\ Refuse(c)

Deny(c) == calls[c].at = "deny" /\ ReadFor(c, calls[c].id, "denied") /\ UNCHANGED spent

Expire(c, p) ==
    /\ Begin(c)
    /\ Stored(p)
    /\ ReadFor(c, p, "expired")

(***************************************************************************)
(* The executor. Its capability is probed once, with the context of the    *)
(* call that happens to be first; a cancelled context counts as a Host     *)
(* without namespaces until the daemon is restarted.                       *)
(***************************************************************************)
probeCapability ==
    \/ /\ cap # "unprobed" /\ cap' = cap
       /\ UNCHANGED spent
    \/ /\ cap = "unprobed"
       /\ cap' = IF HostSandboxes THEN "present" ELSE "missing"
       /\ UNCHANGED spent
    \/ /\ cap = "unprobed" /\ spent.cancel < MaxCancels
       /\ cap' = "missing"
       /\ spent' = [spent EXCEPT !.cancel = @ + 1]

\* runDryRunAndAdvance up to its first transition.
DryRunStep(c) ==
    LET call == calls[c]
        judged(ok) == [call EXCEPT !.at = "update",
                          !.next = IF ok THEN "dry_run_ok" ELSE "dry_run_failed"]
    IN  /\ call.at = "dryrun"
        /\ probeCapability
        /\ \/ /\ cap' = "missing"
              /\ Goto(c, judged(FALSE))
              /\ UNCHANGED <<dryOK, abandoned>>
           \/ /\ cap' = "present"
              /\ \E e \in Evidence :
                    /\ Goto(c, judged(verdict(e)))
                    /\ dryOK' = IF Clean(e) THEN dryOK \cup {<<call.id, call.row.hash>>}
                                ELSE dryOK
              /\ UNCHANGED abandoned
           \/ /\ cap' = "present"       \* the sandbox could not be set up
              /\ Return(c)
              /\ abandoned' = abandoned \cup {call.id}
              /\ UNCHANGED dryOK
        /\ UNCHANGED <<tables, approvals, ran, lost, revoked, usable>>

\* check_script: a dry run that touches no table.
Check(c) ==
    /\ calls[c].at = "idle"
    /\ cap = "unprobed"
    /\ probeCapability
    /\ UNCHANGED <<tables, calls, history>>

\* Execute: the row and its script are read ...
Execute(c, p) ==
    /\ Begin(c)
    /\ Stored(p)
    /\ Goto(c, [Idle EXCEPT !.at = "precond", !.id = p, !.row = rows[p]])
    /\ UNCHANGED <<tables, cap, history>>

\* ... the containers it names are looked up, which decides between the two
\* ways out of "running" ...
CheckPrecondition(c) ==
    LET call == calls[c]
    IN  /\ call.at = "precond"
        /\ \E holds \in BOOLEAN :
              /\ call.row.hash \notin DockerBodies => holds
              /\ Goto(c, [call EXCEPT !.at = "update", !.next = "running",
                                      !.flag = holds])
        /\ UNCHANGED <<tables, cap, spent, history>>

\* Mutation: the script is read again, from the row as it is now.
CurrentScript(c) == rows[calls[c].id].hash

\* The body read before the precondition was checked.
ScriptToRun(c) == calls[c].row.hash

\* ... and the script runs, unless the Host cannot guard the protected paths.
Run(c) ==
    LET call == calls[c]
        ended(s) == [call EXCEPT !.at = "update", !.next = s]
    IN  /\ call.at = "run"
        /\ probeCapability
        /\ \/ /\ cap' = "missing"
              /\ Goto(c, ended("failed"))
              /\ UNCHANGED ran
           \/ /\ cap' = "present"
              /\ \E guard \in Guards, exit \in {0, 1}, timedOut \in BOOLEAN :
                    /\ ran' = IF guard = "held" THEN ran \cup {<<call.id, ScriptToRun(c)>>}
                              ELSE ran
                    /\ Goto(c, ended(IF RunResult(guard, exit, timedOut) = "succeeded"
                                     THEN "succeeded" ELSE "failed"))
        /\ UNCHANGED <<tables, dryOK, approvals, lost, abandoned, revoked, usable>>

(***************************************************************************)
(* Grants.                                                                 *)
(***************************************************************************)
IssueGrant(c, g, b, scope, session) ==
    /\ Begin(c)
    /\ scope = "session" => session
    /\ grants[g] = None
    /\ grants' = [grants EXCEPT ![g] = [hash |-> b, revoked |-> FALSE,
                                        expired |-> FALSE, used |-> FALSE]]
    /\ UNCHANGED <<rows, scripts, audit, calls, cap, history>>

\* The TTL of a grant runs out.
GrantTTLElapses(g) ==
    /\ grants[g] # None /\ ~grants[g].expired
    /\ grants' = [grants EXCEPT ![g].expired = TRUE]
    /\ UNCHANGED <<rows, scripts, audit, calls, cap, spent, history>>

RevokeGrant(c, g) ==
    /\ Begin(c)
    /\ grants[g] # None
    /\ grants' = [grants EXCEPT ![g].revoked = TRUE]
    /\ revoked' = revoked \cup {g}
    /\ UNCHANGED <<rows, scripts, audit, calls, cap,
                   dryOK, approvals, ran, lost, abandoned, usable>>

\* Mutation: the last run is recorded by writing the grant as it was issued.
TouchByUpsert(g) == [grants EXCEPT ![g].used = TRUE, ![g].revoked = FALSE]

TouchGrantLastRun(g) == [grants EXCEPT ![g].used = TRUE]

TouchGrant(c, g) ==
    /\ Begin(c)
    /\ grants[g] # None
    /\ grants' = TouchGrantLastRun(g)
    /\ UNCHANGED <<rows, scripts, audit, calls, cap, history>>

\* CheckGrant reads the grant, then looks for an approved proposal.
CheckGrant(c, g) ==
    /\ Begin(c)
    /\ grants[g] # None
    /\ ~grants[g].revoked /\ ~grants[g].expired
    /\ Goto(c, [Idle EXCEPT !.at = "grant", !.id = g, !.flag = g \in revoked])
    /\ UNCHANGED <<tables, cap, history>>

\* Mutation: any proposal of that text will do.
FindProposalByHash(b) == \E p \in ProposalIds : Stored(p) /\ rows[p].hash = b

FindApprovedProposalByHash(b) ==
    \E p \in ProposalIds : Stored(p) /\ rows[p].hash = b /\ rows[p].state = "approved"

FinishCheckGrant(c) ==
    LET g == calls[c].id
    IN  /\ calls[c].at = "grant"
        /\ usable' = IF FindApprovedProposalByHash(grants[g].hash)
                     THEN usable \cup {grants[g].hash} ELSE usable
        /\ Return(c)
        /\ UNCHANGED <<tables, cap, spent, dryOK, approvals, ran, lost, abandoned, revoked>>

(***************************************************************************)
(* The daemon stops; the tables stay.                                      *)
(***************************************************************************)
Working(c) == calls[c].row # None /\ calls[c].at # "insert"

Crash ==
    /\ spent.crash < MaxCrashes
    /\ spent' = [spent EXCEPT !.crash = @ + 1]
    /\ lost' = lost \cup {<<calls[c].id, calls[c].row.state>> :
                            c \in {d \in Callers : calls[d].at = "audit"}}
    /\ abandoned' = abandoned \cup {calls[c].id : c \in {d \in Callers : Working(d)}}
    /\ calls' = [c \in Callers |-> Idle]
    /\ cap' = "unprobed"
    /\ UNCHANGED <<tables, dryOK, approvals, ran, revoked, usable>>

Next ==
    \/ \E c \in Callers :
        \/ \E p \in ProposalIds, b \in Bodies : Propose(c, p, b) \/ Edit(c, p, b)
        \/ \E p \in ProposalIds, d \in {"approve", "deny"} :
              handleAPIProposalDecision(c, p, d)
        \/ \E p \in ProposalIds : Expire(c, p) \/ Execute(c, p)
        \/ \E g \in GrantIds : CheckGrant(c, g) \/ RevokeGrant(c, g) \/ TouchGrant(c, g)
        \/ \E g \in GrantIds, b \in Bodies, scope \in {"session", "standing"},
              session \in BOOLEAN : IssueGrant(c, g, b, scope, session)
        \/ InsertProposal(c) \/ UpdateRow(c) \/ RefuseTransition(c) \/ AppendAudit(c)
        \/ Approve(c) \/ Deny(c) \/ DryRunStep(c) \/ Check(c)
        \/ CheckPrecondition(c) \/ Run(c) \/ FinishCheckGrant(c)
    \/ \E g \in GrantIds : GrantTTLElapses(g)
    \/ Crash

Spec == Init /\ [][Next]_vars
=============================================================================
