------------------------------ MODULE Harness ------------------------------
(***************************************************************************)
(* The M2 engine of internal/harness/harness.go: one incident at a time is *)
(* diagnosed, put to the Operator, dispatched to the Actuator and judged   *)
(* by the committed Status of the monitoring spine.                        *)
(*                                                                         *)
(* Three kinds of goroutine interleave: the poll goroutines of the spine,  *)
(* which call ObserveCommit; the runCycle goroutine of the incident; and   *)
(* the HTTP handlers, which call Approve, Deny, Halt and Rearm.  A step of *)
(* this module is one critical section of Harness.mu, one Store write, one *)
(* channel operation or one call to the outside.  The process may crash    *)
(* between any two steps; Reconcile then runs before the spine starts.     *)
(*                                                                         *)
(* Time.  The only instants the code compares are the ChangedAt of an UP   *)
(* commit and the ApprovedAt of the cycle, so a commit carries a stamp     *)
(* relative to the last recorded decision: "fresh" if it was stamped after *)
(* it, "old" otherwise.  Recording a decision turns every fresh stamp old. *)
(* Timers may fire at any moment after they are set.                       *)
(***************************************************************************)
EXTENDS Naturals

CONSTANTS
    Services,          \* subjects the spine commits a Status for
    Targets,           \* Options.Targets: the mapped Services to containers
    CycleIds,          \* what core.NewCycleID can return
    Requests,          \* concurrent HTTP requests of the Operator
    Mode,              \* Options.Mode
    None,              \* no cycle, no container
    MaxStoreFailures,  \* bound on failed Store writes
    MaxCrashes         \* bound on crashes of the process

ASSUME TargetsAssumption == DOMAIN Targets \subseteq Services
ASSUME NoneAssumption ==
    /\ None \notin CycleIds
    /\ \A s \in DOMAIN Targets : Targets[s] # None
ASSUME ModeAssumption == Mode \in {"off", "shadow", "live"}
ASSUME BoundsAssumption == MaxStoreFailures \in Nat /\ MaxCrashes \in Nat

VARIABLES
    phase,             \* "boot": before Reconcile returned, then "run"
    halted,            \* Harness.halted
    active,            \* Harness.active: the id of the cycle in flight
    cooldown,          \* Services whose cooldown entry lies in the future
    lastUp,            \* Harness.lastUp, as a stamp per Service
    pc,                \* where the runCycle goroutine of each cycle is
    cycle,             \* its local core.HarnessCycle
    awaitingApproval,  \* cycleState.awaitingApproval
    decisionCh,        \* cycleState.decisionCh, a channel of capacity 1
    outcomeCh,         \* cycleState.outcomeCh, a channel of capacity 1
    request,           \* the HTTP requests deciding an incident
    inflight,          \* the commit each poll goroutine is about to hand over
    stored,            \* the harness_cycles table: survives a crash
    storeFailures,     \* failed Store writes so far
    crashes,           \* crashes so far
    acked,             \* history: the decision recorded by decide, per cycle
    fired,             \* history: Actuator calls made for each cycle
    upSeen             \* history: the best UP delivered since the approval

memory == <<halted, active, cooldown, lastUp>>
locals == <<pc, cycle, awaitingApproval, decisionCh, outcomeCh>>
history == <<acked, fired, upSeen>>
vars == <<phase, memory, locals, request, inflight, stored,
          storeFailures, crashes, history>>

-----------------------------------------------------------------------------
\* A Prober reports UP or DOWN and DeriveStatus may degrade it, so these are
\* the Statuses a commit can carry.
Status == {"UP", "DEGRADED", "DOWN"}
Decision == {"Approved", "Denied"}
Approval == Decision \cup {"Pending", "Expired", "NotRequested"}
Resolved == {"none", "recovered", "action_failed", "dispatch_error"}
Outcome == Resolved \cup {"unset", "pending"}
Stamp == {"old", "fresh"}
Containers == {Targets[s] : s \in DOMAIN Targets}

\* The steps of runCycle before the Operator is asked, while the decision is
\* open, and from the dispatch on.
Unasked == {"persistStart", "persistSweep", "diagnose", "persistClosed", "ask"}
Deciding == {"persistPending", "waitApproval", "timedOut"}
Listening == {"persistWatch", "persistAlreadyUp", "waitOutcome", "resolve"}
Dispatched == Listening \cup {"persistDispatchErr", "watch", "persistOutcome", "cool"}
Running == Unasked \cup Deciding \cup {"persistRefused", "dispatch"}
               \cup Dispatched \cup {"return"}

\* A commit on its way to the sink, the part of a core.HarnessCycle the engine
\* branches on, its row in the table, and an HTTP request.
CommitRec == [status : Status \cup {"none"}, stamp : Stamp]
CycleRec == [subject : Services \cup {None}, target : Containers \cup {None},
             approval : Approval, outcome : Outcome]
StoredRow == [approval : Approval \cup {"absent"}, outcome : Outcome]
RequestRec == [at : {"idle", "checked", "send"}, id : CycleIds \cup {None},
               decision : Decision]

NoCommit == [status |-> "none", stamp |-> "old"]
NoCycle == [subject |-> None, target |-> None,
            approval |-> "Pending", outcome |-> "unset"]
NoRow == [approval |-> "absent", outcome |-> "unset"]
NoRequest == [at |-> "idle", id |-> None, decision |-> "Denied"]

\* Type correctness of the engine's memory, its goroutines and its table.
TypeOK ==
    /\ phase \in {"boot", "run"}
    /\ halted \in BOOLEAN
    /\ active \in CycleIds \cup {None}
    /\ cooldown \in SUBSET Services
    /\ lastUp \in [Services -> Stamp \cup {"none"}]
    /\ pc \in [CycleIds -> Running \cup {"new", "done"}]
    /\ cycle \in [CycleIds -> CycleRec]
    /\ awaitingApproval \in [CycleIds -> BOOLEAN]
    /\ decisionCh \in [CycleIds -> Decision \cup {"empty"}]
    /\ outcomeCh \in [CycleIds -> BOOLEAN]
    /\ request \in [Requests -> RequestRec]
    /\ inflight \in [Services -> CommitRec]
    /\ stored \in [CycleIds -> StoredRow]
    /\ storeFailures \in 0..MaxStoreFailures
    /\ crashes \in 0..MaxCrashes
    /\ acked \in [CycleIds -> Decision \cup {"none"}]
    /\ fired \in [CycleIds -> Nat]
    /\ upSeen \in [CycleIds -> Stamp \cup {"none"}]

Init ==
    /\ phase = "boot"
    /\ halted = FALSE
    /\ active = None
    /\ cooldown = {}
    /\ lastUp = [s \in Services |-> "none"]
    /\ pc = [c \in CycleIds |-> "new"]
    /\ cycle = [c \in CycleIds |-> NoCycle]
    /\ awaitingApproval = [c \in CycleIds |-> FALSE]
    /\ decisionCh = [c \in CycleIds |-> "empty"]
    /\ outcomeCh = [c \in CycleIds |-> FALSE]
    /\ request = [r \in Requests |-> NoRequest]
    /\ inflight = [s \in Services |-> NoCommit]
    /\ stored = [c \in CycleIds |-> NoRow]
    /\ storeFailures = 0
    /\ crashes = 0
    /\ acked = [c \in CycleIds |-> "none"]
    /\ fired = [c \in CycleIds |-> 0]
    /\ upSeen = [c \in CycleIds |-> "none"]
-----------------------------------------------------------------------------
(***************************************************************************)
(* The spine's side: probeOnce commits a Status, stamps it, stores it,     *)
(* alerts, and only then hands it to the sink.  The Statuses handed over   *)
(* need not alternate: a commit whose Store write failed is not published. *)
(***************************************************************************)
Commit(s, st) ==
    /\ phase = "run"
    /\ inflight[s] = NoCommit
    /\ inflight' = [inflight EXCEPT ![s] = [status |-> st, stamp |-> "fresh"]]
    /\ UNCHANGED <<phase, memory, locals, request, stored,
                   storeFailures, crashes, history>>

\* Mutation: the single-flight check is forgotten.
TriggersWhileActive(s) ==
    /\ Mode # "off"
    /\ ~halted
    /\ inflight[s].status = "DOWN"
    /\ s \in DOMAIN Targets
    /\ s \notin cooldown

\* The early returns of ObserveCommit, in one condition.
Triggers(s) ==
    /\ Mode # "off"
    /\ ~halted
    /\ inflight[s].status = "DOWN"
    /\ s \in DOMAIN Targets
    /\ active = None
    /\ s \notin cooldown

\* A new cycleState becomes the active one and its goroutine starts.
StartCycle(c, s) ==
    /\ pc[c] = "new"
    /\ active' = c
    /\ pc' = [pc EXCEPT ![c] = "persistStart"]
    /\ cycle' = [cycle EXCEPT ![c].subject = s]

\* Mutation: an UP of any service counts.
WatchingAny(c, s) == active = c /\ pc[c] \in Listening

\* The cycle, if any, that listens for an UP of s.
Watching(c, s) == active = c /\ cycle[c].subject = s /\ pc[c] \in Listening

\* ObserveCommit: record an UP, signal the cycle that waits for it, and
\* start a cycle on a DOWN that passes every check.
ObserveCommit(s) ==
    LET up == inflight[s].status = "UP"
        stamp == inflight[s].stamp
    IN  /\ phase = "run"
        /\ inflight[s] # NoCommit
        /\ inflight' = [inflight EXCEPT ![s] = NoCommit]
        /\ lastUp' = IF up THEN [lastUp EXCEPT ![s] = stamp] ELSE lastUp
        /\ outcomeCh' = [c \in CycleIds |-> outcomeCh[c] \/ (up /\ Watching(c, s))]
        /\ upSeen' = [c \in CycleIds |->
              IF up /\ active = c /\ cycle[c].subject = s /\ acked[c] = "Approved"
              THEN IF upSeen[c] = "fresh" THEN "fresh" ELSE stamp
              ELSE upSeen[c]]
        /\ \/ /\ Triggers(s)
              /\ \E c \in CycleIds : StartCycle(c, s)
           \/ ~Triggers(s) /\ UNCHANGED <<active, pc, cycle>>
        /\ UNCHANGED <<phase, halted, cooldown, awaitingApproval, decisionCh,
                       request, stored, storeFailures, crashes, acked, fired>>
-----------------------------------------------------------------------------
(***************************************************************************)
(* runCycle.  persist saves the whole cycle and only logs a failed write.  *)
(***************************************************************************)
Goto(c, to) == pc' = [pc EXCEPT ![c] = to]

Row(c) == [approval |-> cycle[c].approval, outcome |-> cycle[c].outcome]

persist(c, row) ==
    \/ stored' = [stored EXCEPT ![c] = row] /\ UNCHANGED storeFailures
    \/ /\ storeFailures < MaxStoreFailures
       /\ storeFailures' = storeFailures + 1
       /\ UNCHANGED stored

PersistThen(c, from, to) ==
    /\ pc[c] = from
    /\ persist(c, Row(c))
    /\ Goto(c, to)
    /\ UNCHANGED <<phase, memory, cycle, awaitingApproval, decisionCh, outcomeCh,
                   request, inflight, crashes, history>>

\* The persists of runCycle that are steps of their own.  The first two
\* already store the zero Approval, which is Pending.
PersistStep(c) ==
    \/ PersistThen(c, "persistStart", "persistSweep")
    \/ PersistThen(c, "persistSweep", "diagnose")
    \/ PersistThen(c, "persistClosed", "return")
    \/ PersistThen(c, "persistPending", "waitApproval")
    \/ PersistThen(c, "persistRefused", "return")
    \/ PersistThen(c, "persistDispatchErr", "return")
    \/ PersistThen(c, "persistWatch", "waitOutcome")
    \/ PersistThen(c, "persistOutcome", "cool")

\* What a Reasoner may reply: any action word and any subject, or nothing.
Reply == [kind : {"none", "restart_container", "other"}, subject : Services \cup {None}]

\* The deterministic fallback when the Reasoner fails.
runbook(c) == [kind |-> "restart_container", subject |-> cycle[c].subject]

\* Mutation: the proposed subject itself is taken for the container.
TrustProposal(p) == IF p.kind = "restart_container" THEN p.subject ELSE None

\* validateProposal: the container of an allowed proposal, None for the rest.
validateProposal(p) ==
    IF p.kind = "restart_container" /\ p.subject \in DOMAIN Targets
    THEN Targets[p.subject]
    ELSE None

\* Shadow mode and an empty proposal close the cycle without an Operator.
ClosesUnasked(target) == Mode = "shadow" \/ target = None

\* diagnose and validateProposal.
Diagnose(c) ==
    /\ pc[c] = "diagnose"
    /\ \E p \in Reply \cup {runbook(c)} :
         LET target == validateProposal(p)
         IN  IF ClosesUnasked(target)
             THEN /\ cycle' = [cycle EXCEPT ![c].target = target,
                                            ![c].approval = "NotRequested",
                                            ![c].outcome = "none"]
                  /\ Goto(c, "persistClosed")
             ELSE /\ cycle' = [cycle EXCEPT ![c].target = target]
                  /\ Goto(c, "ask")
    /\ UNCHANGED <<phase, memory, awaitingApproval, decisionCh, outcomeCh, request,
                   inflight, stored, storeFailures, crashes, history>>

\* Mutation: the question stays open after its answer.
LeaveOpen(c) == UNCHANGED awaitingApproval

CloseQuestion(c) == awaitingApproval' = [awaitingApproval EXCEPT ![c] = FALSE]

\* Open the question before the Pending record is written.
AskOperator(c) ==
    /\ pc[c] = "ask"
    /\ awaitingApproval' = [awaitingApproval EXCEPT ![c] = TRUE]
    /\ Goto(c, "persistPending")
    /\ UNCHANGED <<phase, memory, cycle, decisionCh, outcomeCh, request,
                   inflight, stored, storeFailures, crashes, history>>

\* Mutation: only an explicit Deny stops the dispatch.
SettleUnlessDenied(c, decision) ==
    /\ cycle' = [cycle EXCEPT ![c].approval = decision]
    /\ Goto(c, IF decision = "Denied" THEN "persistRefused" ELSE "dispatch")

\* Mutation: the answer steers the goroutine but is not copied into the cycle.
SettleUnrecorded(c, decision) ==
    /\ cycle' = [cycle EXCEPT ![c].outcome = IF decision = "Approved" THEN @ ELSE "none"]
    /\ Goto(c, IF decision = "Approved" THEN "dispatch" ELSE "persistRefused")

\* Write the answer into the cycle; only an Approve leads to the Actuator.
Settle(c, decision) ==
    /\ cycle' = [cycle EXCEPT ![c].approval = decision,
                              ![c].outcome = IF decision = "Approved" THEN @ ELSE "none"]
    /\ Goto(c, IF decision = "Approved" THEN "dispatch" ELSE "persistRefused")

ReceiveDecision(c) ==
    /\ pc[c] = "waitApproval"
    /\ decisionCh[c] # "empty"
    /\ Settle(c, decisionCh[c])
    /\ decisionCh' = [decisionCh EXCEPT ![c] = "empty"]
    /\ UNCHANGED <<phase, memory, awaitingApproval, outcomeCh, request,
                   inflight, stored, storeFailures, crashes, history>>

\* Mutation: the wait for the Operator has no timer.
NoTimeout(c) == FALSE /\ pc[c] = "waitApproval" /\ UNCHANGED vars

\* The approval timer wins the select; the lock is taken afterwards.
ApprovalTimeout(c) ==
    /\ pc[c] = "waitApproval"
    /\ Goto(c, "timedOut")
    /\ UNCHANGED <<phase, memory, cycle, awaitingApproval, decisionCh, outcomeCh,
                   request, inflight, stored, storeFailures, crashes, history>>

ExpireApproval(c) ==
    /\ pc[c] = "timedOut"
    /\ CloseQuestion(c)
    /\ Settle(c, "Expired")
    /\ UNCHANGED <<phase, memory, decisionCh, outcomeCh, request, inflight,
                   stored, storeFailures, crashes, history>>

\* Mutation: a failed dispatch is retried.
RetryDispatch == "dispatch"

\* A failed dispatch is recorded and never retried.
AfterDispatchErr == "persistDispatchErr"

\* dispatch: one call to the Actuator, whose error ends the cycle.
Dispatch(c) ==
    /\ pc[c] = "dispatch"
    /\ fired' = [fired EXCEPT ![c] = @ + 1]
    /\ \/ /\ cycle' = [cycle EXCEPT ![c].outcome = "pending"]
          /\ Goto(c, "watch")
       \/ /\ cycle' = [cycle EXCEPT ![c].outcome = "dispatch_error"]
          /\ Goto(c, AfterDispatchErr)
    /\ UNCHANGED <<phase, memory, awaitingApproval, decisionCh, outcomeCh, request,
                   inflight, stored, storeFailures, crashes, acked, upSeen>>

\* The level-triggered check: an UP stamped since the approval is recorded.
alreadyRecovered(c) == lastUp[cycle[c].subject] = "fresh"

StartWatch(c) ==
    /\ pc[c] = "watch"
    /\ Goto(c, IF alreadyRecovered(c) THEN "persistAlreadyUp" ELSE "persistWatch")
    /\ UNCHANGED <<phase, memory, cycle, awaitingApproval, decisionCh, outcomeCh,
                   request, inflight, stored, storeFailures, crashes, history>>

\* The dispatched record is written even when the recovery is known already.
PersistAlreadyUp(c) ==
    /\ pc[c] = "persistAlreadyUp"
    /\ persist(c, Row(c))
    /\ cycle' = [cycle EXCEPT ![c].outcome = "recovered"]
    /\ Goto(c, "resolve")
    /\ UNCHANGED <<phase, memory, awaitingApproval, decisionCh, outcomeCh,
                   request, inflight, crashes, history>>

\* The select of the outcome phase: a signal, or the end of the window.
AwaitOutcome(c) ==
    /\ pc[c] = "waitOutcome"
    /\ \/ /\ outcomeCh[c]
          /\ outcomeCh' = [outcomeCh EXCEPT ![c] = FALSE]
          /\ cycle' = [cycle EXCEPT ![c].outcome = "recovered"]
       \/ /\ cycle' = [cycle EXCEPT ![c].outcome = "action_failed"]
          /\ UNCHANGED outcomeCh
    /\ Goto(c, "resolve")
    /\ UNCHANGED <<phase, memory, awaitingApproval, decisionCh, request,
                   inflight, stored, storeFailures, crashes, history>>

\* Stop listening and forget the UP of this subject.
Resolve(c) ==
    /\ pc[c] = "resolve"
    /\ lastUp' = [lastUp EXCEPT ![cycle[c].subject] = "none"]
    /\ Goto(c, "persistOutcome")
    /\ UNCHANGED <<phase, halted, active, cooldown, cycle, awaitingApproval,
                   decisionCh, outcomeCh, request, inflight, stored,
                   storeFailures, crashes, history>>

EnterCooldown(c) ==
    /\ pc[c] = "cool"
    /\ cooldown' = cooldown \cup {cycle[c].subject}
    /\ Goto(c, "return")
    /\ UNCHANGED <<phase, halted, active, lastUp, cycle, awaitingApproval, decisionCh,
                   outcomeCh, request, inflight, stored, storeFailures, crashes, history>>

\* The deferred clearing of Harness.active; the goroutine's memory is gone.
Return(c) ==
    /\ pc[c] = "return"
    /\ active' = None
    /\ Goto(c, "done")
    /\ cycle' = [cycle EXCEPT ![c] = NoCycle]
    /\ outcomeCh' = [outcomeCh EXCEPT ![c] = FALSE]
    /\ UNCHANGED <<phase, halted, cooldown, lastUp, awaitingApproval, decisionCh,
                   request, inflight, stored, storeFailures, crashes, history>>

runCycle(c) ==
    \/ PersistStep(c)
    \/ Diagnose(c)
    \/ AskOperator(c)
    \/ ReceiveDecision(c)
    \/ ApprovalTimeout(c)
    \/ ExpireApproval(c)
    \/ Dispatch(c)
    \/ StartWatch(c)
    \/ PersistAlreadyUp(c)
    \/ AwaitOutcome(c)
    \/ Resolve(c)
    \/ EnterCooldown(c)
    \/ Return(c)

\* time.Now passes the end of a cooldown.
CooldownEnds(s) ==
    /\ s \in cooldown
    /\ cooldown' = cooldown \ {s}
    /\ UNCHANGED <<phase, halted, active, lastUp, locals, request, inflight,
                   stored, storeFailures, crashes, history>>
-----------------------------------------------------------------------------
(***************************************************************************)
(* The Operator's requests.  handleAPIDecision reads the incident and      *)
(* insists on a stored Pending, then calls decide, which re-checks under   *)
(* the lock, writes the decision and releases the lock before it signals.  *)
(***************************************************************************)
CheckIncident(r, c, d) ==
    /\ phase = "run"
    /\ request[r] = NoRequest
    /\ stored[c].approval = "Pending"
    /\ request' = [request EXCEPT ![r] = [at |-> "checked", id |-> c, decision |-> d]]
    /\ UNCHANGED <<phase, memory, locals, inflight, stored, storeFailures,
                   crashes, history>>

\* Mutation: decide does not ask whether the question is still open.
UndecidableId(c) == active # c

\* The two early returns of decide.
Undecidable(c) == active # c \/ ~awaitingApproval[c]

RefuseDecision(r) ==
    /\ request[r].at = "checked"
    /\ Undecidable(request[r].id)
    /\ request' = [request EXCEPT ![r] = NoRequest]
    /\ UNCHANGED <<phase, memory, locals, inflight, stored, storeFailures,
                   crashes, history>>

\* A failed write leaves the cycle Pending; the caller gets the error.
DecideUnsaved(r) ==
    /\ request[r].at = "checked"
    /\ ~Undecidable(request[r].id)
    /\ storeFailures < MaxStoreFailures
    /\ storeFailures' = storeFailures + 1
    /\ request' = [request EXCEPT ![r] = NoRequest]
    /\ UNCHANGED <<phase, memory, locals, inflight, stored, crashes, history>>

\* Recording a decision makes every earlier stamp old.
AgeStamps ==
    /\ lastUp' = [s \in Services |-> IF lastUp[s] = "fresh" THEN "old" ELSE lastUp[s]]
    /\ inflight' = [s \in Services |-> [inflight[s] EXCEPT !.stamp = "old"]]

\* decide: the recorded decision closes the question in the same critical
\* section.  cycleState.cycle, the snapshot it writes back, equals the
\* goroutine's local cycle as long as the question is open.
Decide(r) ==
    LET c == request[r].id
        d == request[r].decision
    IN  /\ request[r].at = "checked"
        /\ ~Undecidable(c)
        /\ stored' = [stored EXCEPT ![c] = [approval |-> d, outcome |-> cycle[c].outcome]]
        /\ CloseQuestion(c)
        /\ AgeStamps
        /\ request' = [request EXCEPT ![r].at = "send"]
        /\ acked' = [acked EXCEPT ![c] = d]
        /\ UNCHANGED <<phase, halted, active, cooldown, pc, cycle, decisionCh, outcomeCh,
                       storeFailures, crashes, fired, upSeen>>

\* The non-blocking send, after the unlock; a full channel drops it.
SendDecision(r) ==
    LET c == request[r].id
    IN  /\ request[r].at = "send"
        /\ decisionCh' = IF decisionCh[c] = "empty"
                         THEN [decisionCh EXCEPT ![c] = request[r].decision]
                         ELSE decisionCh
        /\ request' = [request EXCEPT ![r] = NoRequest]
        /\ UNCHANGED <<phase, memory, pc, cycle, awaitingApproval, outcomeCh, inflight,
                       stored, storeFailures, crashes, history>>

Operator(r) ==
    \/ \E c \in CycleIds, d \in Decision : CheckIncident(r, c, d)
    \/ RefuseDecision(r)
    \/ DecideUnsaved(r)
    \/ Decide(r)
    \/ SendDecision(r)

Halt ==
    /\ phase = "run"
    /\ halted' = TRUE
    /\ UNCHANGED <<phase, active, cooldown, lastUp, locals, request, inflight,
                   stored, storeFailures, crashes, history>>

Rearm ==
    /\ phase = "run"
    /\ halted' = FALSE
    /\ UNCHANGED <<phase, active, cooldown, lastUp, locals, request, inflight,
                   stored, storeFailures, crashes, history>>
-----------------------------------------------------------------------------
(***************************************************************************)
(* A crash keeps the table and nothing else.                               *)
(***************************************************************************)
Crash ==
    /\ crashes < MaxCrashes
    /\ crashes' = crashes + 1
    /\ phase' = "boot"
    /\ halted' = FALSE
    /\ active' = None
    /\ cooldown' = {}
    /\ lastUp' = [s \in Services |-> "none"]
    /\ pc' = [c \in CycleIds |-> IF pc[c] \in Running THEN "done" ELSE pc[c]]
    /\ cycle' = [c \in CycleIds |-> NoCycle]
    /\ awaitingApproval' = [c \in CycleIds |-> FALSE]
    /\ decisionCh' = [c \in CycleIds |-> "empty"]
    /\ outcomeCh' = [c \in CycleIds |-> FALSE]
    /\ request' = [r \in Requests |-> NoRequest]
    /\ inflight' = [s \in Services |-> NoCommit]
    /\ UNCHANGED <<stored, storeFailures, history>>

\* Mutation: only the dispatched rows are resolved.
ReconciledOutcome(row) ==
    IF row.outcome = "pending" THEN [row EXCEPT !.outcome = "action_failed"] ELSE row

\* What Reconcile makes of a row left behind by a dead process.
Reconciled(row) ==
    IF row.approval = "Pending" THEN [approval |-> "Expired", outcome |-> "none"]
    ELSE IF row.outcome = "pending" THEN [row EXCEPT !.outcome = "action_failed"]
    ELSE row

\* One turn of Reconcile's loop; a failed write ends the process, which
\* boots again.
ReconcileRow(c) ==
    /\ phase = "boot"
    /\ Reconciled(stored[c]) # stored[c]
    /\ stored' = [stored EXCEPT ![c] = Reconciled(stored[c])]
    /\ UNCHANGED <<phase, memory, locals, request, inflight, storeFailures,
                   crashes, history>>

\* Reconcile returned: the spine and the dashboard start.
StartSpine ==
    /\ phase = "boot"
    /\ \A c \in CycleIds : Reconciled(stored[c]) = stored[c]
    /\ phase' = "run"
    /\ UNCHANGED <<memory, locals, request, inflight, stored, storeFailures,
                   crashes, history>>

Reconcile == (\E c \in CycleIds : ReconcileRow(c)) \/ StartSpine
-----------------------------------------------------------------------------
Next ==
    \/ \E s \in Services :
          \/ \E st \in Status : Commit(s, st)
          \/ ObserveCommit(s)
          \/ CooldownEnds(s)
    \/ \E c \in CycleIds : runCycle(c)
    \/ \E r \in Requests : Operator(r)
    \/ Halt
    \/ Rearm
    \/ Crash
    \/ Reconcile

Spec == Init /\ [][Next]_vars

(***************************************************************************)
(* Fairness.  A goroutine that can run does: every wait of runCycle has a  *)
(* timer, a handler that holds a decision sends it, and a process that     *)
(* died is started again.  The Operator, the services and the clock of the *)
(* cooldown owe nothing.                                                   *)
(***************************************************************************)
FairSpec ==
    /\ Spec
    /\ \A c \in CycleIds : WF_vars(runCycle(c))
    /\ \A r \in Requests : WF_vars(SendDecision(r))
    /\ WF_vars(Reconcile)
=============================================================================
