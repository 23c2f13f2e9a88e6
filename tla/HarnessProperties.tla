------------------------- MODULE HarnessProperties -------------------------
(***************************************************************************)
(* What the incident engine of Harness guarantees, the promise it          *)
(* implements, the inductive invariant behind both, and the statements of  *)
(* the repository's comments and decision records it does not keep.        *)
(***************************************************************************)
EXTENDS Harness

(***************************************************************************)
(* What holds.                                                             *)
(***************************************************************************)

\* At most one runCycle goroutine exists, and it is the one Harness.active
\* names: the single-flight gate of ObserveCommit and the deferred clearing
\* in runCycle never let two incidents overlap, not even across a crash.
SingleFlight == \A c \in CycleIds : pc[c] \in Running <=> active = c

\* The Actuator is called only in live mode, for an allowlisted container
\* and for an incident whose Approve was recorded in the Store first,
\* whatever timeouts, second requests and failed writes came between.
ApprovedBeforeDispatch ==
    \A c \in CycleIds :
        /\ fired[c] > 0 => Mode = "live" /\ acked[c] = "Approved"
        /\ pc[c] = "dispatch" => cycle[c].target \in Containers

\* dispatch is never retried: at most one Actuator call per incident, also
\* when the process dies between the call and its record.
DispatchAtMostOnce == \A c \in CycleIds : fired[c] <= 1

\* A row that says recovered had an UP of its own subject delivered to
\* ObserveCommit after the Approve was recorded: an UP remembered in lastUp
\* from before the approval, or from an earlier incident, does not count.
RecoveredSawUp ==
    \A c \in CycleIds : stored[c].outcome = "recovered" => upSeen[c] # "none"

\* Once Reconcile has run, a row that still waits for an Operator or for an
\* outcome belongs to the cycle in flight, unless a Store write failed.
NoOrphanPending ==
    \A c \in CycleIds :
        phase = "run" /\ storeFailures = 0 /\ active # c =>
            stored[c].approval # "Pending" /\ stored[c].outcome # "pending"

\* A row whose outcome is resolved is final: no late persist, no late
\* decide and no Reconcile rewrites it.
TerminalIsFinal ==
    [][\A c \in CycleIds :
          stored[c].outcome \in Resolved => stored'[c] = stored[c]]_stored

\* Of all the Approve and Deny requests for an incident at most one
\* succeeds: decide closes the question in the section that records it.
OneDecision ==
    [][\A c \in CycleIds : acked[c] # "none" => acked'[c] = acked[c]]_acked

\* The record and the answers agree, although two goroutines write a row: a
\* row shows an Approve or a Deny only if that very answer succeeded, and,
\* while the Store works, an answer that succeeded is still on the row of an
\* incident that is over.  In between the Pending record of runCycle may land
\* on top of it (harness.go:298), and the timer or a crash may replace it by
\* Expired, never by the other answer and never for good by Pending.
DecisionOnRecord ==
    \A c \in CycleIds :
        /\ stored[c].approval \in Decision => acked[c] = stored[c].approval
        /\ (acked[c] # "none" /\ active # c /\ phase = "run" /\ storeFailures = 0) =>
              stored[c].approval \in {acked[c], "Expired"}

\* Every incident ends: timers, channels and the deferred clearing of
\* Harness.active always bring runCycle to its return, so a cycle cannot
\* block the single-flight gate for ever.
CycleTerminates == \A c \in CycleIds : pc[c] \in Running ~> pc[c] = "done"

\* A Pending row is resolved in the end, by the Operator, by the timer or, after
\* a crash, by Reconcile.  The write of the outcome may fail, which persist only
\* logs (harness.go:476-480): then the cycle is over and its row waits for the
\* next start, whose Reconcile resolves it.
PendingIsResolved ==
    \A c \in CycleIds :
        LET Pending == stored[c].approval = "Pending"
            Forsaken == storeFailures > 0 /\ pc[c] = "done" /\ phase = "run"
        IN  /\ Pending ~> (~Pending \/ Forsaken)
            /\ (Pending /\ phase = "boot") ~> ~Pending

\* The engine implements the promise of OperatorGate: an incident is open
\* while its goroutine runs, its verdict is the decision that was recorded,
\* and acting is calling the Actuator.
Gate == INSTANCE OperatorGate WITH
    opened <- {c \in CycleIds : pc[c] # "new"},
    running <- {c \in CycleIds : pc[c] \in Running},
    verdict <- acked,
    acted <- fired

\* Every step of the engine is a step of OperatorGate or leaves it alone.
ImplementsGate == Gate!Spec
-----------------------------------------------------------------------------
(***************************************************************************)
(* The inductive strengthening behind the safety properties.               *)
(***************************************************************************)
Asked == Deciding \cup {"ask", "dispatch"}
Acting == Dispatched \cup {"dispatch"}

\* A running cycle knows its subject, runs in a mode that allows it, and
\* exists only after the boot; an id not yet drawn has no row.
FlightInv ==
    /\ SingleFlight
    /\ phase = "boot" => active = None
    /\ \A c \in CycleIds :
          /\ pc[c] \in Running => Mode # "off" /\ cycle[c].subject \in Services
          /\ pc[c] = "new" => stored[c] = NoRow

\* The question is open only while nothing was recorded, and what travels
\* in the channel or is about to be sent is the recorded decision.
QuestionInv ==
    /\ \A c \in CycleIds :
          /\ awaitingApproval[c] => pc[c] \in Deciding /\ acked[c] = "none"
          /\ pc[c] \in Unasked \cup {"new"} => acked[c] = "none"
          /\ decisionCh[c] # "empty" => acked[c] = decisionCh[c]
    /\ \A r \in Requests :
          /\ request[r].at # "idle" => request[r].id \in CycleIds
          /\ request[r].at = "send" => acked[request[r].id] = request[r].decision

\* The way to the Actuator leads through a recorded Approve.
DispatchInv ==
    \A c \in CycleIds :
        /\ pc[c] \in Asked => fired[c] = 0 /\ cycle[c].target \in Containers
        /\ pc[c] \in Asked \cup Acting => Mode = "live"
        /\ pc[c] \in Acting => acked[c] = "Approved"
        /\ fired[c] <= 1
        /\ fired[c] > 0 => /\ Mode = "live"
                           /\ acked[c] = "Approved"
                           /\ pc[c] \in Dispatched \cup {"return", "done"}

\* Every place a recovery can be read from has an UP behind it.
RecoveryInv ==
    \A c \in CycleIds :
        /\ outcomeCh[c] \/ pc[c] = "persistAlreadyUp" => upSeen[c] # "none"
        /\ cycle[c].outcome = "recovered" => upSeen[c] # "none"
        /\ stored[c].outcome = "recovered" => upSeen[c] # "none"
        /\ active = c /\ acked[c] = "Approved" /\ lastUp[cycle[c].subject] = "fresh"
              => upSeen[c] # "none"

\* A resolved outcome is reached, and stored, only on the last steps.
RowInv ==
    \A c \in CycleIds :
        /\ pc[c] \in Asked \cup {"new", "persistStart", "persistSweep", "diagnose"}
              => cycle[c].outcome = "unset"
        /\ pc[c] \in {"watch", "persistWatch", "persistAlreadyUp", "waitOutcome"}
              => cycle[c].outcome = "pending"
        /\ cycle[c].outcome \in Resolved => cycle[c].approval # "Pending"
        /\ pc[c] \in Acting => cycle[c].approval = "Approved"
        /\ stored[c].outcome \in Resolved =>
              stored[c].approval # "Pending" /\ pc[c] \in {"cool", "return", "done"}

\* A cycle that comes to its last write carries a resolved outcome; if every
\* write succeeds, its row is settled before the goroutine ends, and Reconcile
\* settles the rows of a dead process before the spine starts.
Closing == {"persistClosed", "persistRefused", "persistDispatchErr", "resolve", "persistOutcome"}
Settled(row) == row.approval # "Pending" /\ row.outcome # "pending"
SettledInv ==
    \A c \in CycleIds :
        /\ pc[c] \in Closing => cycle[c].outcome \in Resolved
        /\ storeFailures = 0 /\ pc[c] \in {"cool", "return"} => Settled(stored[c])
        /\ storeFailures = 0 /\ phase = "run" /\ active # c => Settled(stored[c])

\* Wherever a decision is kept it is the recorded one, or still Pending, or the
\* timer's; and until the cycle is answered its own copy is Pending.
RecordInv ==
    \A c \in CycleIds :
        /\ \A a \in {stored[c].approval, cycle[c].approval} :
              /\ a \in Decision => acked[c] = a
              /\ acked[c] # "none" => a \in {acked[c], "Expired", "Pending"}
        /\ pc[c] \in (Unasked \ {"persistClosed"}) \cup Deciding \cup {"new"} =>
              cycle[c].approval = "Pending"

\* The inductive invariant of the engine: the seven parts hold together
\* with the types in every reachable state.
IInv ==
    /\ TypeOK /\ FlightInv /\ QuestionInv /\ DispatchInv /\ RecoveryInv /\ RowInv
    /\ SettledInv /\ RecordInv
-----------------------------------------------------------------------------
(***************************************************************************)
(* What the comments and decision records say and the code does not do.    *)
(***************************************************************************)

\* harness.go:488-491: Approve returns an error when the approval window has
\* expired.  A request that got its nil would then never see Expired.
AckedIsNotExpired ==
    \A c \in CycleIds :
        /\ acked[c] # "none"
        /\ \A r \in Requests : request[r].at = "send" => request[r].id # c
        => stored[c].approval # "Expired"
=============================================================================
