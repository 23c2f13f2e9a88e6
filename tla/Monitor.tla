------------------------------ MODULE Monitor ------------------------------
(***************************************************************************)
(* The monitoring spine of internal/monitor/monitor.go: a poll goroutine   *)
(* per Service and one for the Host, the reachability gate between them,   *)
(* debounced commits that are stored, alerted and handed to the sink, live *)
(* reconfiguration, and a restart from the stored Statuses.                *)
(*                                                                         *)
(* A step is one critical section of Monitor.mu, one access to the atomic  *)
(* gate, one Store write or one call to a Prober, the Notifier or the      *)
(* sink.  Poll intervals are not modelled: a loop may poll at any moment.  *)
(* A sample recorded for the history charts influences nothing here.       *)
(***************************************************************************)
EXTENDS Debounce

CONSTANTS
    Services,    \* the configured Services
    Hosts,       \* the Host, if one is configured
    DebounceNs,  \* values of the debounce knob
    StartN,      \* its value at the first boot
    Answers,     \* the results Services really give while they are reachable
    HostStates,  \* the Statuses a Probe of the Host can find
    MaxFaults    \* bound on each kind of fault

ASSUME HostsAssumption == (\A g, h \in Hosts : g = h) /\ Services \cap Hosts = {}
ASSUME KnobAssumption == DebounceNs \subseteq Nat /\ StartN \in DebounceNs
ASSUME AnswersAssumption == Answers \subseteq ProbeResult /\ HostStates \subseteq Derived

Subjects == Services \cup Hosts
Faults == {"store", "notify", "probe", "crash", "reconfigure"}

ASSUME MaxFaultsAssumption == MaxFaults \in [Faults -> Nat]

VARIABLES
    phase,      \* "boot": before Resume, "first": Run's own Host Probe, "run"
    gate,       \* Monitor.gate: the latest Host Probe found the Host reachable
    debounceN,  \* the knob of each subject; it comes from the config file
    deb,        \* each subject's core.Debouncer
    view,       \* Monitor.views: the Status the dashboard shows
    at,         \* where the poll goroutine of each subject is
    job,        \* the Status it has in hand: derived first, then committed
    persisted,  \* its local flag: the commit in hand was stored
    blinding,   \* Services the Host goroutine has still to show as UNKNOWN
    stored,     \* the committed_status table; UNKNOWN where there is no row
    health,     \* the result a Probe of each subject would have now
    faults,     \* faults so far, by kind
    alerted,    \* history: the last Alert delivered for each subject
    lost,       \* history: stored and alerted may disagree, see Alerting below
    published,  \* history: the last Status the sink heard, or was resumed with
    blindSeen   \* history: results observed since the gate closed

loops == <<at, job, persisted, blinding>>
history == <<alerted, lost, published, blindSeen>>
vars == <<phase, gate, debounceN, deb, view, loops, stored, health, faults, history>>

Steps == {"idle", "probing", "gate", "blind", "observe", "save", "notify", "publish"}

\* Type correctness of the spine's memory, its loops and its table.
TypeOK ==
    /\ phase \in {"boot", "first", "run"}
    /\ gate \in BOOLEAN
    /\ debounceN \in [Subjects -> DebounceNs]
    /\ deb \in [Subjects -> Debouncers(DebounceNs \cup {1})]
    /\ view \in [Subjects -> Status]
    /\ at \in [Subjects -> Steps]
    /\ job \in [Subjects -> Status]
    /\ persisted \in [Subjects -> BOOLEAN]
    /\ blinding \in SUBSET Services
    /\ stored \in [Subjects -> Status]
    /\ health \in [Subjects -> ProbeResult]
    /\ faults \in [Faults -> Nat]
    /\ alerted \in [Subjects -> Status]
    /\ lost \in [Subjects -> BOOLEAN]
    /\ published \in [Subjects -> Status]
    /\ blindSeen \in [Services -> Nat]

Everywhere(v) == [x \in Subjects |-> v]

\* What the Host may answer: it is probed for reachability and pressure, so
\* its latency counts for nothing.
HostAnswers == [status : HostStates, slow : {FALSE}]
Reachable == \A h \in Hosts : health[h].status # "DOWN"

\* New and SetHost: the observer starts blind, with the gate open.
Init ==
    /\ debounceN = Everywhere(StartN)
    /\ phase = "boot"
    /\ gate = TRUE
    /\ deb = [x \in Subjects |-> NewDebouncer(debounceN[x])]
    /\ view = Everywhere("UNKNOWN")
    /\ at = Everywhere("idle")
    /\ job = Everywhere("UNKNOWN")
    /\ persisted = Everywhere(FALSE)
    /\ blinding = {}
    /\ stored = Everywhere("UNKNOWN")
    /\ health \in {f \in [Subjects -> ProbeResult] :
                      /\ \A s \in Services : f[s] \in Answers
                      /\ \A h \in Hosts : f[h] \in HostAnswers}
    /\ faults = [k \in Faults |-> 0]
    /\ alerted = Everywhere("UNKNOWN")
    /\ lost = Everywhere(FALSE)
    /\ published = Everywhere("UNKNOWN")
    /\ blindSeen = [s \in Services |-> 0]

Fault(k) ==
    /\ faults[k] < MaxFaults[k]
    /\ faults' = [faults EXCEPT ![k] = @ + 1]
-----------------------------------------------------------------------------
(***************************************************************************)
(* Start-up.                                                               *)
(***************************************************************************)

\* Mutation: the debouncers start blind although a Status is stored.
ResumedBlind(x) == NewDebouncer(debounceN[x])

Resumed(x) == NewDebouncerWithStatus(debounceN[x], stored[x])

\* Only a stored DOWN of the Host closes the gate.  Without a Host the
\* Service loops start at once.
Resume ==
    /\ phase = "boot"
    /\ phase' = IF Hosts = {} THEN "run" ELSE "first"
    /\ gate' = \A h \in Hosts : stored[h] # "DOWN"
    /\ deb' = [x \in Subjects |-> Resumed(x)]
    /\ view' = stored
    /\ published' = stored
    /\ UNCHANGED <<debounceN, loops, stored, health, faults, alerted, lost, blindSeen>>

\* Mutation: a new knob forgets the committed Status.
ReconfiguredBlind(x, n) == NewDebouncer(n)

\* A new knob keeps the committed Status and drops the streak.
Reconfigured(x, n) == NewDebouncerWithStatus(n, deb[x].committed)

\* Reconfigure holds the lock for all Services; only a knob that changed
\* replaces a debouncer.  Run's goroutines need not have started yet.
Reconfigure(ns) ==
    /\ phase # "boot"
    /\ Fault("reconfigure")
    /\ deb' = [x \in Subjects |->
                  IF x \in Services /\ ns[x] # debounceN[x]
                  THEN Reconfigured(x, ns[x])
                  ELSE deb[x]]
    /\ debounceN' = [x \in Subjects |-> IF x \in Services THEN ns[x] ELSE debounceN[x]]
    /\ UNCHANGED <<phase, gate, view, loops, stored, health, history>>
-----------------------------------------------------------------------------
(***************************************************************************)
(* Steps shared by the two kinds of loop.                                  *)
(***************************************************************************)
Goto(x, to) == at' = [at EXCEPT ![x] = to]

\* The loop waits for its next tick.  Run starts the Service loops when its
\* own first Host Probe has returned.
Return(x) ==
    /\ Goto(x, "idle")
    /\ job' = [job EXCEPT ![x] = "UNKNOWN"]
    /\ persisted' = [persisted EXCEPT ![x] = FALSE]
    /\ phase' = IF x \in Hosts THEN "run" ELSE phase

\* A Prober that returns an error measured nothing.
ProbeFails(x, from) ==
    /\ at[x] = from
    /\ Fault("probe")
    /\ Return(x)
    /\ UNCHANGED <<gate, debounceN, deb, view, blinding, stored, health, history>>

\* Observe.  The Status of a change is the derived one in hand; without a
\* change the poll ends.
Debounced(x) ==
    /\ deb' = [deb EXCEPT ![x] = Observe(@, job[x])]
    /\ \/ /\ Changed(deb[x], job[x])
          /\ Goto(x, "save")
          /\ UNCHANGED <<phase, job, persisted>>
       \/ ~Changed(deb[x], job[x]) /\ Return(x)

\* SaveCommittedStatus; a failure is logged and the Alert goes out anyway.
Save(x) ==
    /\ at[x] = "save"
    /\ Goto(x, "notify")
    /\ \/ /\ stored' = [stored EXCEPT ![x] = job[x]]
          /\ persisted' = [persisted EXCEPT ![x] = TRUE]
          /\ UNCHANGED faults
       \/ Fault("store") /\ UNCHANGED <<stored, persisted>>
    /\ UNCHANGED <<phase, gate, debounceN, deb, view, job, blinding, health, history>>

\* Mutation: the sink hears of every commit.
PublishesAlways(x) == at[x] = "notify"

Publishes(x) == persisted[x]

\* Notify; a failure is logged.  A commit that was not stored is not
\* handed to the sink.
Alerting(x) ==
    /\ at[x] = "notify"
    /\ \/ /\ alerted' = [alerted EXCEPT ![x] = job[x]]
          /\ lost' = [lost EXCEPT ![x] = ~persisted[x]]
          /\ UNCHANGED faults
       \/ /\ Fault("notify")
          /\ lost' = [lost EXCEPT ![x] = TRUE]
          /\ UNCHANGED alerted
    /\ \/ Publishes(x) /\ Goto(x, "publish") /\ UNCHANGED <<phase, job, persisted>>
       \/ ~Publishes(x) /\ Return(x)
    /\ UNCHANGED <<gate, debounceN, deb, view, blinding, stored, health,
                   published, blindSeen>>

publishCommit(x) ==
    /\ at[x] = "publish"
    /\ published' = [published EXCEPT ![x] = job[x]]
    /\ Return(x)
    /\ UNCHANGED <<gate, debounceN, deb, view, blinding, stored, health, faults,
                   alerted, lost, blindSeen>>
-----------------------------------------------------------------------------
(***************************************************************************)
(* probeOnce.                                                              *)
(***************************************************************************)

\* Mutation: a Service is probed whatever the gate says.
NotBlind == TRUE

Sighted == Hosts = {} \/ gate

StartProbe(s) ==
    /\ phase = "run"
    /\ at[s] = "idle"
    /\ Sighted
    /\ Goto(s, "probing")
    /\ UNCHANGED <<phase, gate, debounceN, deb, view, job, persisted, blinding, stored,
                   health, faults, history>>

\* Mutation: a blind poll leaves the view to the Host loop.
SkipSilently(s) == FALSE /\ s \in Services /\ UNCHANGED vars

\* A blind poll only corrects a view that still claims to know.
SkipProbe(s) ==
    /\ phase = "run"
    /\ at[s] = "idle"
    /\ ~Sighted
    /\ view[s] # "UNKNOWN"
    /\ view' = [view EXCEPT ![s] = "UNKNOWN"]
    /\ UNCHANGED <<phase, gate, debounceN, deb, loops, stored, health, faults, history>>

\* The Prober's answer: a Service behind an unreachable Host looks DOWN.
Probe(s) ==
    /\ at[s] = "probing"
    /\ job' = [job EXCEPT ![s] = IF Reachable THEN DeriveStatus(health[s]) ELSE "DOWN"]
    /\ Goto(s, "observe")
    /\ UNCHANGED <<phase, gate, debounceN, deb, view, persisted, blinding, stored,
                   health, faults, history>>

\* observeService, and setView with the committed Status.  Nobody reads both
\* between the two critical sections, so they are one step.
ObserveService(s) ==
    /\ at[s] = "observe"
    /\ Debounced(s)
    /\ view' = [view EXCEPT ![s] = Observe(deb[s], job[s]).committed]
    /\ blindSeen' = [blindSeen EXCEPT ![s] = IF gate THEN 0 ELSE @ + 1]
    /\ UNCHANGED <<gate, debounceN, blinding, stored, health, faults,
                   alerted, lost, published>>

ServiceLoop(s) ==
    \/ StartProbe(s)
    \/ SkipProbe(s)
    \/ Probe(s)
    \/ ProbeFails(s, "probing")
    \/ ObserveService(s)
    \/ Save(s)
    \/ Alerting(s)
    \/ publishCommit(s)
-----------------------------------------------------------------------------
(***************************************************************************)
(* hostProbeOnce.                                                          *)
(***************************************************************************)
ProbeHost(h) ==
    /\ phase # "boot"
    /\ at[h] = "idle"
    /\ job' = [job EXCEPT ![h] = health[h].status]
    /\ Goto(h, "gate")
    /\ UNCHANGED <<phase, gate, debounceN, deb, view, persisted, blinding, stored,
                   health, faults, history>>

HostProbeFails(h) == phase # "boot" /\ ProbeFails(h, "idle")

\* The rows that turn UNKNOWN when the gate closes.
BlindedRows == Services

\* The gate follows this very Probe, not the debounced Status.
SwapGate(h) ==
    LET reachable == job[h] # "DOWN"
    IN  /\ at[h] = "gate"
        /\ gate' = reachable
        /\ view' = [view EXCEPT ![h] = job[h]]
        /\ blinding' = IF gate /\ ~reachable THEN BlindedRows ELSE {}
        /\ blindSeen' = [s \in Services |-> IF reachable THEN 0 ELSE blindSeen[s]]
        /\ Goto(h, "blind")
        /\ UNCHANGED <<phase, debounceN, deb, job, persisted, stored, health, faults,
                       alerted, lost, published>>

\* One turn of the loop that shows every Service as UNKNOWN.
Blind(s) ==
    /\ s \in blinding
    /\ blinding' = blinding \ {s}
    /\ view' = [view EXCEPT ![s] = "UNKNOWN"]
    /\ UNCHANGED <<phase, gate, debounceN, deb, at, job, persisted, stored, health,
                   faults, history>>

\* The debouncer governs the Host's Alert only.
ObserveHost(h) ==
    /\ at[h] = "blind"
    /\ blinding = {}
    /\ Debounced(h)
    /\ UNCHANGED <<gate, debounceN, view, blinding, stored, health, faults, history>>

HostLoop(h) ==
    \/ ProbeHost(h)
    \/ HostProbeFails(h)
    \/ SwapGate(h)
    \/ \E s \in Services : Blind(s)
    \/ ObserveHost(h)
    \/ Save(h)
    \/ Alerting(h)
    \/ publishCommit(h)
-----------------------------------------------------------------------------
(***************************************************************************)
(* The world: subjects change, and the process may die.                    *)
(***************************************************************************)
HealthChanges(x, a) ==
    /\ health' = [health EXCEPT ![x] = a]
    /\ UNCHANGED <<phase, gate, debounceN, deb, view, loops, stored, faults, history>>

\* The table and the config file are all that is left.  An Alert that was
\* stored and not sent is lost.
Crash ==
    /\ Fault("crash")
    /\ phase # "boot"
    /\ phase' = "boot"
    /\ gate' = TRUE
    /\ deb' = [x \in Subjects |-> NewDebouncer(debounceN[x])]
    /\ view' = Everywhere("UNKNOWN")
    /\ at' = Everywhere("idle")
    /\ job' = Everywhere("UNKNOWN")
    /\ persisted' = Everywhere(FALSE)
    /\ blinding' = {}
    /\ lost' = [x \in Subjects |-> lost[x] \/ (at[x] = "notify" /\ persisted[x])]
    /\ blindSeen' = [s \in Services |-> 0]
    /\ UNCHANGED <<debounceN, stored, health, alerted, published>>

World ==
    \/ \E s \in Services, a \in Answers : HealthChanges(s, a)
    \/ \E h \in Hosts, a \in HostAnswers : HealthChanges(h, a)

Next ==
    \/ Resume
    \/ \E s \in Services : ServiceLoop(s)
    \/ \E h \in Hosts : HostLoop(h)
    \/ \E ns \in [Services -> DebounceNs] : Reconfigure(ns)
    \/ World
    \/ Crash

Spec == Init /\ [][Next]_vars

(***************************************************************************)
(* Fairness.  Every loop is driven by a ticker and every call in it has a  *)
(* timeout, so a loop that can move does; a process that died is started   *)
(* again.  The world and the Operator's config file owe nothing.           *)
(***************************************************************************)
FairSpec ==
    /\ Spec
    /\ WF_vars(Resume)
    /\ \A s \in Services : WF_vars(ServiceLoop(s))
    /\ \A h \in Hosts : WF_vars(HostLoop(h))
=============================================================================
