--------------------------- MODULE MonitorProofs ---------------------------
(***************************************************************************)
(* Proofs about Monitor for any Services, any knobs, any number of         *)
(* failures, crashes and reconfigurations, with or without a Host.         *)
(***************************************************************************)
EXTENDS MonitorProperties, TLAPS

(***************************************************************************)
(* The debouncer.                                                          *)
(***************************************************************************)
\* A new debouncer is well-formed for every knob, 0 included.
LEMMA NewDebouncerType ==
    ASSUME NEW ns, ns \subseteq Nat, NEW n \in ns, NEW st \in Status
    PROVE  /\ NewDebouncerWithStatus(n, st) \in Debouncers(ns \cup {1})
           /\ NewDebouncerWithStatus(n, st).committed = st
           /\ NewDebouncer(n) \in Debouncers(ns \cup {1})
  BY DEF NewDebouncerWithStatus, NewDebouncer, Debouncers, Status, Derived

\* A result keeps a debouncer well-formed, and only ever commits itself.
LEMMA ObserveFacts ==
    ASSUME NEW ns, ns \subseteq Nat, NEW d \in Debouncers(ns), NEW st \in Status
    PROVE  /\ Observe(d, st) \in Debouncers(ns)
           /\ Changed(d, st) => Observe(d, st).committed = st /\ st # d.committed
           /\ ~Changed(d, st) => Observe(d, st).committed = d.committed
<1> DEFINE streak == IF st # d.candidate THEN 1
                     ELSE IF d.streak < d.n THEN d.streak + 1 ELSE d.n
           committed == IF streak >= d.n THEN st ELSE d.committed
<1>0. /\ d.n \in Nat /\ d.streak \in Nat /\ d.committed \in Status
  BY DEF Debouncers
<1>1. streak \in Nat /\ committed \in Status
  BY <1>0
<1>2. Observe(d, st) = [d EXCEPT !.candidate = st, !.streak = streak, !.committed = committed]
  BY DEF Observe
<1>3. /\ Observe(d, st) = [n |-> d.n, committed |-> committed, candidate |-> st, streak |-> streak]
      /\ committed \in {st, d.committed}
  BY <1>2 DEF Debouncers
<1> HIDE DEF streak, committed
<1> QED
  BY <1>1, <1>3 DEF Changed, Debouncers

(***************************************************************************)
(* Types.                                                                  *)
(***************************************************************************)
LEMMA TypeInit == Init => TypeOK
<1> SUFFICES ASSUME Init
             PROVE  TypeOK
  OBVIOUS
<1>1. deb \in [Subjects -> Debouncers(DebounceNs \cup {1})]
  BY KnobAssumption, NewDebouncerType DEF Init, Everywhere, Status
<1> QED
  BY <1>1, KnobAssumption DEF Init, TypeOK, Everywhere, Status, Steps

LEMMA FaultType ==
    ASSUME TypeOK, NEW k \in Faults, Fault(k)
    PROVE  faults' \in [Faults -> Nat]
  BY DEF TypeOK, Fault

\* A poll that ends.
LEMMA ReturnType ==
    ASSUME TypeOK, NEW x \in Subjects, Return(x)
    PROVE  /\ phase' \in {"boot", "first", "run"} /\ at' \in [Subjects -> Steps]
           /\ job' \in [Subjects -> Status] /\ persisted' \in [Subjects -> BOOLEAN]
  BY DEF TypeOK, Return, Goto, Steps, Status

\* A loop's Observe, in a well-typed spine.
LEMMA ObserveCommits ==
    ASSUME TypeOK, NEW x \in Subjects
    PROVE  /\ Observe(deb[x], job[x]) \in Debouncers(DebounceNs \cup {1})
           /\ Changed(deb[x], job[x]) =>
                 Observe(deb[x], job[x]).committed = job[x] /\ job[x] # deb[x].committed
           /\ ~Changed(deb[x], job[x]) => Observe(deb[x], job[x]).committed = deb[x].committed
<1> DEFINE ns == DebounceNs \cup {1}
<1>1. deb[x] \in Debouncers(ns) /\ job[x] \in Status
  BY DEF TypeOK
<1>2. ns \subseteq Nat
  BY KnobAssumption
<1> HIDE DEF ns
<1>3. /\ Observe(deb[x], job[x]) \in Debouncers(ns)
      /\ Changed(deb[x], job[x]) =>
            Observe(deb[x], job[x]).committed = job[x] /\ job[x] # deb[x].committed
      /\ ~Changed(deb[x], job[x]) => Observe(deb[x], job[x]).committed = deb[x].committed
  BY <1>1, <1>2, ObserveFacts
<1> QED
  BY <1>3 DEF ns

LEMMA DebouncedType ==
    ASSUME TypeOK, NEW x \in Subjects, Debounced(x)
    PROVE  /\ deb' \in [Subjects -> Debouncers(DebounceNs \cup {1})]
           /\ phase' \in {"boot", "first", "run"} /\ at' \in [Subjects -> Steps]
           /\ job' \in [Subjects -> Status] /\ persisted' \in [Subjects -> BOOLEAN]
<1>1. deb' \in [Subjects -> Debouncers(DebounceNs \cup {1})]
  BY ObserveCommits DEF Debounced, TypeOK
<1> QED
  BY <1>1, ReturnType DEF Debounced, Goto, TypeOK, Steps

LEMMA TypeStep ==
    ASSUME TypeOK, [Next]_vars
    PROVE  TypeOK'
<1> USE DEF loops, history
<1>1. CASE Resume
  <2>1. deb' \in [Subjects -> Debouncers(DebounceNs \cup {1})]
    BY <1>1, KnobAssumption, NewDebouncerType DEF Resume, Resumed, TypeOK
  <2> QED
    BY <1>1, <2>1 DEF Resume, TypeOK
<1>2. ASSUME NEW ns \in [Services -> DebounceNs], Reconfigure(ns)
      PROVE  TypeOK'
  <2>1. \A x \in Subjects : deb[x].committed \in Status
    BY DEF TypeOK, Debouncers
  <2>2. deb' \in [Subjects -> Debouncers(DebounceNs \cup {1})]
    BY <1>2, <2>1, KnobAssumption, NewDebouncerType DEF Reconfigure, Reconfigured, TypeOK
  <2>3. faults' \in [Faults -> Nat]
    BY <1>2, FaultType DEF Reconfigure, Faults
  <2>4. debounceN' \in [Subjects -> DebounceNs]
    BY <1>2 DEF Reconfigure, TypeOK
  <2> QED
    BY <1>2, <2>2, <2>3, <2>4 DEF Reconfigure, TypeOK
<1>3. ASSUME NEW x \in Subjects, NEW from, ProbeFails(x, from)
      PROVE  TypeOK'
  <2>1. faults' \in [Faults -> Nat]
    BY <1>3, FaultType DEF ProbeFails, Faults
  <2> QED
    BY <1>3, <2>1, ReturnType DEF ProbeFails, TypeOK
<1>4. ASSUME NEW x \in Subjects, Save(x)
      PROVE  TypeOK'
  <2>1. faults' \in [Faults -> Nat]
    BY <1>4, FaultType DEF Save, Faults, TypeOK
  <2>2. stored' \in [Subjects -> Status] /\ persisted' \in [Subjects -> BOOLEAN]
    BY <1>4 DEF Save, TypeOK
  <2> QED
    BY <1>4, <2>1, <2>2 DEF Save, Goto, TypeOK, Steps
<1>5. ASSUME NEW x \in Subjects, Alerting(x)
      PROVE  TypeOK'
  <2>1. alerted' \in [Subjects -> Status] /\ lost' \in [Subjects -> BOOLEAN]
    BY <1>5 DEF Alerting, TypeOK
  <2>3. faults' \in [Faults -> Nat]
    BY <1>5, FaultType DEF Alerting, Faults, TypeOK
  <2>2. /\ phase' \in {"boot", "first", "run"} /\ at' \in [Subjects -> Steps]
        /\ job' \in [Subjects -> Status] /\ persisted' \in [Subjects -> BOOLEAN]
    BY <1>5, ReturnType DEF Alerting, Goto, TypeOK, Steps
  <2> QED
    BY <1>5, <2>1, <2>2, <2>3 DEF Alerting, TypeOK
<1>6. ASSUME NEW x \in Subjects, publishCommit(x)
      PROVE  TypeOK'
  BY <1>6, ReturnType DEF publishCommit, TypeOK
<1>7. ASSUME NEW s \in Services, StartProbe(s) \/ SkipProbe(s) \/ Probe(s)
      PROVE  TypeOK'
  <2>1. DeriveStatus(health[s]) \in Status
    BY DEF TypeOK, DeriveStatus, ProbeResult, Status, Derived, Subjects
  <2> QED
    BY <1>7, <2>1 DEF StartProbe, SkipProbe, Probe, Goto, TypeOK, Steps, Status, Derived
<1>8. ASSUME NEW s \in Services, ObserveService(s)
      PROVE  TypeOK'
  <2>1. deb' \in [Subjects -> Debouncers(DebounceNs \cup {1})] /\ s \in Subjects
    BY <1>8, DebouncedType DEF ObserveService, Subjects
  <2>2. view' \in [Subjects -> Status]
    <3>1. deb'[s] = Observe(deb[s], job[s])
      BY <1>8, <2>1 DEF ObserveService, Debounced, TypeOK
    <3>2. deb'[s].committed \in Status
      BY <2>1 DEF Debouncers
    <3> QED
      BY <1>8, <3>1, <3>2 DEF ObserveService, TypeOK
  <2>3. blindSeen' \in [Services -> Nat]
    BY <1>8 DEF ObserveService, TypeOK
  <2> QED
    BY <1>8, <2>2, <2>3, DebouncedType DEF ObserveService, TypeOK, Subjects
<1>9. ASSUME NEW h \in Hosts, ProbeHost(h) \/ SwapGate(h)
      PROVE  TypeOK'
  <2>1. health[h].status \in Status
    BY DEF TypeOK, ProbeResult, Status, Subjects
  <2>2. CASE ProbeHost(h)
    BY <2>1, <2>2 DEF ProbeHost, Goto, TypeOK, Steps
  <2>3. CASE SwapGate(h)
    BY <2>3 DEF SwapGate, BlindedRows, Goto, TypeOK, Steps, Subjects
  <2> QED
    BY <1>9, <2>2, <2>3
<1>10. ASSUME NEW s \in Services, Blind(s)
      PROVE  TypeOK'
  BY <1>10 DEF Blind, TypeOK, Status
<1>11. ASSUME NEW h \in Hosts, ObserveHost(h)
      PROVE  TypeOK'
  BY <1>11, DebouncedType DEF ObserveHost, TypeOK, Subjects
<1>12. ASSUME NEW x \in Subjects, NEW a \in ProbeResult, HealthChanges(x, a)
      PROVE  TypeOK'
  BY <1>12 DEF HealthChanges, TypeOK
<1>13. CASE Crash
  <2>1. deb' \in [Subjects -> Debouncers(DebounceNs \cup {1})]
    BY <1>13, KnobAssumption, NewDebouncerType DEF Crash, TypeOK, Status
  <2>2. faults' \in [Faults -> Nat]
    BY <1>13, FaultType DEF Crash, Faults
  <2>3. lost' \in [Subjects -> BOOLEAN]
    BY <1>13 DEF Crash, TypeOK
  <2> QED
    BY <1>13, <2>1, <2>2, <2>3 DEF Crash, Everywhere, TypeOK, Steps, Status
<1>14. CASE UNCHANGED vars
  BY <1>14 DEF vars, TypeOK
<1>15. CASE World
  <2>1. Answers \subseteq ProbeResult /\ HostAnswers \subseteq ProbeResult
    BY AnswersAssumption DEF HostAnswers, ProbeResult
  <2> QED
    BY <1>12, <1>15, <2>1 DEF World, Subjects
<1> QED
  BY <1>1, <1>2, <1>3, <1>4, <1>5, <1>6, <1>7, <1>8, <1>9, <1>10, <1>11, <1>13, <1>14, <1>15
     DEF Next, ServiceLoop, HostLoop, HostProbeFails, Subjects

\* The memory of the spine, its loops and its table keep their types
\* (monitor.go).
THEOREM MonitorTypes == Spec => []TypeOK
  BY TypeInit, TypeStep, PTL DEF Spec

(***************************************************************************)
(* Commits: what is stored, alerted and handed to the sink.                *)
(***************************************************************************)
\* What CommitOK reads of a subject is as it was.
Same(x) ==
    /\ at'[x] = at[x] /\ job'[x] = job[x] /\ persisted'[x] = persisted[x]
    /\ deb'[x].committed = deb[x].committed
    /\ stored'[x] = stored[x] /\ alerted'[x] = alerted[x]
    /\ lost'[x] = lost[x] /\ published'[x] = published[x]
    /\ phase = "boot" <=> phase' = "boot"

LEMMA SameKeepsCommit ==
    ASSUME NEW x \in Subjects, CommitOK(x), Same(x)
    PROVE  CommitOK(x)'
  BY DEF CommitOK, Same, Committing

\* A loop that is not idle runs in a booted process, and ends its poll in one.
LEMMA ReturnPhase ==
    ASSUME NEW y \in Subjects, phase # "boot", Return(y)
    PROVE  phase' # "boot"
  BY DEF Return

\* The end of an Observe: a change is taken up, anything else ends the poll.
LEMMA DebouncedKeepsCommit ==
    ASSUME TypeOK, CommitInv, NEW y \in Subjects, phase # "boot",
           at[y] \notin Committing, Debounced(y),
           UNCHANGED <<stored, alerted, lost, published>>, NEW x \in Subjects
    PROVE  CommitOK(x)'
<1>0. CommitOK(x) /\ CommitOK(y) /\ x \in Subjects
  BY DEF CommitInv
<1>1. CASE x # y
  <2>1. Same(x)
    BY <1>1, ReturnPhase DEF Debounced, Return, Goto, TypeOK, Same
  <2> QED
    BY <1>0, <2>1, SameKeepsCommit
<1>2. CASE x = y
  <2>1. /\ deb'[x] = Observe(deb[x], job[x])
        /\ Changed(deb[x], job[x]) => deb'[x].committed = job[x] /\ job[x] # deb[x].committed
        /\ ~Changed(deb[x], job[x]) => deb'[x].committed = deb[x].committed
    <3>1. deb'[x] = Observe(deb[x], job[x])
      BY <1>2 DEF Debounced, TypeOK
    <3> QED
      BY <3>1, ObserveCommits
  <2>2. CASE Changed(deb[x], job[x])
    <3>1. at'[x] = "save" /\ UNCHANGED <<phase, job, persisted>>
      BY <1>2, <2>2 DEF Debounced, Goto, TypeOK
    <3> QED
      BY <1>0, <1>2, <2>1, <2>2, <3>1 DEF CommitOK, Committing
  <2>3. CASE ~Changed(deb[x], job[x])
    <3>1. at'[x] = "idle" /\ persisted'[x] = FALSE /\ phase' # "boot"
      BY <1>2, <2>3, ReturnPhase DEF Debounced, Return, Goto, TypeOK
    <3> QED
      BY <1>0, <1>2, <2>1, <2>3, <3>1 DEF CommitOK, Committing
  <2> QED
    BY <2>2, <2>3
<1> QED
  BY <1>1, <1>2

LEMMA SaveKeepsCommit ==
    ASSUME TypeOK, CommitInv, NEW y \in Subjects, Save(y), NEW x \in Subjects
    PROVE  CommitOK(x)'
<1>0. CommitOK(x)
  BY DEF CommitInv
<1>1. CASE x # y
  <2>1. Same(x)
    BY <1>1 DEF Save, Goto, TypeOK, Same, history
  <2> QED
    BY <1>0, <2>1, SameKeepsCommit
<1>2. CASE x = y
  <2>1. /\ at[x] = "save" /\ at'[x] = "notify" /\ UNCHANGED <<phase, deb, job, history>>
        /\ \/ stored'[x] = job[x] /\ persisted'[x] = TRUE
           \/ UNCHANGED <<stored, persisted>>
    BY <1>2 DEF Save, Goto, TypeOK
  <2> QED
    BY <1>0, <2>1 DEF CommitOK, Committing, history
<1> QED
  BY <1>1, <1>2

LEMMA AlertingKeepsCommit ==
    ASSUME TypeOK, CommitInv, NEW y \in Subjects, Alerting(y), NEW x \in Subjects
    PROVE  CommitOK(x)'
<1>0. CommitOK(x) /\ CommitOK(y)
  BY DEF CommitInv
<1>1. phase # "boot" /\ phase' # "boot"
  BY <1>0, ReturnPhase DEF Alerting, CommitOK
<1>2. CASE x # y
  <2>1. Same(x)
    BY <1>1, <1>2 DEF Alerting, Return, Goto, TypeOK, Same
  <2> QED
    BY <1>0, <2>1, SameKeepsCommit
<1>3. CASE x = y
  <2>1. /\ at[x] = "notify" /\ UNCHANGED <<deb, stored, published>>
        /\ \/ alerted'[x] = job[x] /\ lost'[x] = ~persisted[x]
           \/ lost'[x] = TRUE
    BY <1>3 DEF Alerting, TypeOK
  <2>2. \/ persisted[x] /\ at'[x] = "publish" /\ UNCHANGED <<job, persisted>>
        \/ ~persisted[x] /\ at'[x] = "idle" /\ persisted'[x] = FALSE
    BY <1>3 DEF Alerting, Publishes, Return, Goto, TypeOK
  <2> QED
    BY <1>0, <1>1, <2>1, <2>2 DEF CommitOK, Committing
<1> QED
  BY <1>2, <1>3

LEMMA PublishKeepsCommit ==
    ASSUME TypeOK, CommitInv, NEW y \in Subjects, publishCommit(y), NEW x \in Subjects
    PROVE  CommitOK(x)'
<1>0. CommitOK(x) /\ CommitOK(y)
  BY DEF CommitInv
<1>1. phase # "boot" /\ phase' # "boot"
  BY <1>0, ReturnPhase DEF publishCommit, CommitOK
<1>2. CASE x # y
  <2>1. Same(x)
    BY <1>1, <1>2 DEF publishCommit, Return, Goto, TypeOK, Same
  <2> QED
    BY <1>0, <2>1, SameKeepsCommit
<1>3. CASE x = y
  <2>1. /\ at[x] = "publish" /\ UNCHANGED <<deb, stored, alerted, lost>>
        /\ published'[x] = job[x] /\ at'[x] = "idle" /\ persisted'[x] = FALSE
    BY <1>3 DEF publishCommit, Return, Goto, TypeOK
  <2> QED
    BY <1>0, <1>1, <2>1 DEF CommitOK, Committing
<1> QED
  BY <1>2, <1>3

\* The steps of a poll before its Observe touch no commit.
LEMMA ProbingKeepsCommit ==
    ASSUME TypeOK, CommitInv, NEW y \in Subjects, phase # "boot",
           at[y] \in {"idle", "probing", "gate"},
           at' = [at EXCEPT ![y] = at'[y]], at'[y] \notin Committing,
           \A x \in Subjects : x # y => job'[x] = job[x],
           phase' # "boot", UNCHANGED <<stored, alerted, lost, published, deb>>,
           UNCHANGED persisted \/ persisted' = [persisted EXCEPT ![y] = FALSE],
           NEW x \in Subjects
    PROVE  CommitOK(x)'
<1>0. CommitOK(x) /\ CommitOK(y)
  BY DEF CommitInv
<1>1. CASE x # y
  <2>1. Same(x)
    BY <1>1 DEF TypeOK, Same
  <2> QED
    BY <1>0, <2>1, SameKeepsCommit
<1>2. CASE x = y
  <2>1. ~persisted[x] /\ ~persisted'[x] /\ at[x] \notin Committing /\ at'[x] \notin Committing
    BY <1>0, <1>2 DEF CommitOK, Committing, TypeOK
  <2> QED
    BY <1>0, <1>2, <2>1 DEF CommitOK, Committing
<1> QED
  BY <1>1, <1>2

LEMMA CommitInit == Init => CommitInv
  BY DEF Init, Everywhere, CommitInv, CommitOK, Committing

LEMMA CommitStep ==
    ASSUME TypeOK, CommitInv, [Next]_vars
    PROVE  CommitInv'
<1> USE DEF loops, history
<1> SUFFICES ASSUME NEW x \in Subjects
             PROVE  CommitOK(x)'
  BY DEF CommitInv
<1>0. CommitOK(x)
  BY DEF CommitInv
<1>1. CASE Resume
  <2>1. deb'[x].committed = stored[x] /\ published'[x] = stored[x] /\ phase' # "boot"
    BY <1>1 DEF Resume, Resumed, NewDebouncerWithStatus, TypeOK
  <2> QED
    BY <1>0, <1>1, <2>1 DEF Resume, CommitOK, Committing
<1>2. ASSUME NEW ns \in [Services -> DebounceNs], Reconfigure(ns)
      PROVE  CommitOK(x)'
  <2>1. deb'[x].committed = deb[x].committed
    BY <1>2 DEF Reconfigure, Reconfigured, NewDebouncerWithStatus
  <2>2. Same(x)
    BY <1>2, <2>1 DEF Reconfigure, Same
  <2> QED
    BY <1>0, <2>2, SameKeepsCommit
<1>3. ASSUME NEW s \in Services, ServiceLoop(s)
      PROVE  CommitOK(x)'
  <2>0. s \in Subjects /\ CommitOK(s)
    BY DEF Subjects, CommitInv
  <2>1. CASE StartProbe(s)
    BY <2>0, <2>1, ProbingKeepsCommit DEF StartProbe, Goto, TypeOK, Committing
  <2>2. CASE SkipProbe(s)
    <3>1. Same(x)
      BY <2>2 DEF SkipProbe, Same
    <3> QED
      BY <1>0, <3>1, SameKeepsCommit
  <2>3. CASE Probe(s)
    <3>1. phase # "boot" /\ at' = [at EXCEPT ![s] = "observe"] /\ at'[s] = "observe"
      BY <2>0, <2>3 DEF Probe, Goto, CommitOK, TypeOK
    <3>2. \A y \in Subjects : y # s => job'[y] = job[y]
      BY <2>3 DEF Probe, TypeOK
    <3> QED
      BY <2>0, <2>3, <3>1, <3>2, ProbingKeepsCommit DEF Probe, Committing
  <2>4. CASE ProbeFails(s, "probing")
    <3>1. phase # "boot" /\ phase' # "boot" /\ at' = [at EXCEPT ![s] = "idle"] /\ at'[s] = "idle"
      BY <2>0, <2>4, ReturnPhase DEF ProbeFails, Return, Goto, CommitOK, TypeOK
    <3>2. \A y \in Subjects : y # s => job'[y] = job[y]
      BY <2>4 DEF ProbeFails, Return, TypeOK
    <3> QED
      BY <2>0, <2>4, <3>1, <3>2, ProbingKeepsCommit DEF ProbeFails, Return, Committing
  <2>5. CASE ObserveService(s)
    BY <2>0, <2>5, DebouncedKeepsCommit DEF ObserveService, CommitOK, Committing
  <2>6. CASE Save(s) \/ Alerting(s) \/ publishCommit(s)
    BY <2>0, <2>6, SaveKeepsCommit, AlertingKeepsCommit, PublishKeepsCommit
  <2> QED
    BY <1>3, <2>1, <2>2, <2>3, <2>4, <2>5, <2>6 DEF ServiceLoop
<1>4. ASSUME NEW h \in Hosts, HostLoop(h)
      PROVE  CommitOK(x)'
  <2>0. h \in Subjects /\ CommitOK(h)
    BY DEF Subjects, CommitInv
  <2>1. CASE ProbeHost(h)
    <3>1. phase # "boot" /\ at' = [at EXCEPT ![h] = "gate"] /\ at'[h] = "gate"
      BY <2>0, <2>1 DEF ProbeHost, Goto, TypeOK
    <3>2. \A y \in Subjects : y # h => job'[y] = job[y]
      BY <2>1 DEF ProbeHost, TypeOK
    <3> QED
      BY <2>0, <2>1, <3>1, <3>2, ProbingKeepsCommit DEF ProbeHost, Committing
  <2>2. CASE HostProbeFails(h)
    <3>1. phase # "boot" /\ phase' # "boot" /\ at' = [at EXCEPT ![h] = "idle"] /\ at'[h] = "idle"
      BY <2>0, <2>2, ReturnPhase DEF HostProbeFails, ProbeFails, Return, Goto, TypeOK
    <3>2. \A y \in Subjects : y # h => job'[y] = job[y]
      BY <2>2 DEF HostProbeFails, ProbeFails, Return, TypeOK
    <3> QED
      BY <2>0, <2>2, <3>1, <3>2, ProbingKeepsCommit
         DEF HostProbeFails, ProbeFails, Return, Committing
  <2>3. CASE SwapGate(h)
    <3>1. phase # "boot" /\ at' = [at EXCEPT ![h] = "blind"] /\ at'[h] = "blind"
      BY <2>0, <2>3 DEF SwapGate, Goto, CommitOK, TypeOK
    <3> QED
      BY <2>0, <2>3, <3>1, ProbingKeepsCommit DEF SwapGate, Committing
  <2>4. ASSUME NEW s \in Services, Blind(s)
        PROVE  CommitOK(x)'
    <3>1. Same(x)
      BY <2>4 DEF Blind, Same
    <3> QED
      BY <1>0, <3>1, SameKeepsCommit
  <2>5. CASE ObserveHost(h)
    BY <2>0, <2>5, DebouncedKeepsCommit DEF ObserveHost, CommitOK, Committing
  <2>6. CASE Save(h) \/ Alerting(h) \/ publishCommit(h)
    BY <2>0, <2>6, SaveKeepsCommit, AlertingKeepsCommit, PublishKeepsCommit
  <2> QED
    BY <1>4, <2>1, <2>2, <2>3, <2>4, <2>5, <2>6 DEF HostLoop
<1>5. CASE World \/ UNCHANGED vars
  <2>1. Same(x)
    BY <1>5 DEF World, HealthChanges, vars, Same
  <2> QED
    BY <1>0, <2>1, SameKeepsCommit
<1>6. CASE Crash
  <2>1. /\ at'[x] = "idle" /\ persisted'[x] = FALSE /\ phase' = "boot" /\ phase # "boot"
        /\ lost'[x] = (lost[x] \/ (at[x] = "notify" /\ persisted[x]))
        /\ UNCHANGED <<stored, alerted>>
    BY <1>6 DEF Crash, Everywhere
  <2>2. ~lost'[x] => stored[x] = alerted[x]
    BY <1>0, <2>1 DEF CommitOK, Committing
  <2> QED
    BY <2>1, <2>2 DEF CommitOK, Committing
<1> QED
  BY <1>1, <1>2, <1>3, <1>4, <1>5, <1>6 DEF Next

\* The invariant behind the next two theorems (monitor.go, commit and Resume).
THEOREM CommitInvariant == Spec => []CommitInv
  BY MonitorTypes, CommitInit, CommitStep, PTL DEF Spec

\* No restart, blind window or reconfiguration makes the spine repeat an Alert
\* the Operator already has (monitor.go, Resume and commit).
THEOREM AlertsAreNotRepeated == Spec => []NoReAlert
<1>1. CommitInv => NoReAlert
  BY DEF CommitInv, CommitOK, NoReAlert
<1> QED
  BY <1>1, CommitInvariant, PTL

\* Between two commits the sink's last word is what a restart would resume
\* (monitor.go, commit and publishCommit).
THEOREM SinkAgreesWithStore == Spec => []SinkTracksStore
<1>1. CommitInv => SinkTracksStore
  BY DEF CommitInv, CommitOK, SinkTracksStore
<1> QED
  BY <1>1, CommitInvariant, PTL

(***************************************************************************)
(* The reachability gate.                                                  *)
(***************************************************************************)
LEMMA BlindStep ==
    ASSUME TypeOK, CommitInv, BlindInv, [Next]_vars
    PROVE  BlindInv'
<1> USE DEF loops, history
<1>0. /\ Hosts = {} \/ phase = "boot" => gate
      /\ \A s \in Services : /\ blindSeen[s] \in {0, 1} /\ s \in Subjects
                             /\ gate \/ at[s] \in {"probing", "observe"} => blindSeen[s] = 0
      /\ blindSeen \in [Services -> Nat] /\ at \in [Subjects -> Steps]
  BY DEF BlindInv, TypeOK, Subjects
<1>1. \A x \in Subjects : phase = "boot" => at[x] = "idle"
  BY DEF CommitInv, CommitOK
<1>2. ASSUME NEW x \in Subjects, Return(x), UNCHANGED <<gate, blindSeen>>, phase # "boot"
      PROVE  BlindInv'
  BY <1>0, <1>2 DEF Return, Goto, BlindInv
<1>3. ASSUME NEW x \in Subjects, Goto(x, at'[x]), at'[x] # "probing", at'[x] # "observe",
             UNCHANGED <<phase, gate, blindSeen>>
      PROVE  BlindInv'
  BY <1>0, <1>3 DEF Goto, BlindInv
<1>4. CASE Resume
  BY <1>0, <1>4 DEF Resume, BlindInv
<1>5. CASE UNCHANGED <<phase, gate, blindSeen, at>>
  BY <1>0, <1>5 DEF BlindInv
<1>6. ASSUME NEW x \in Subjects, Save(x) \/ Alerting(x) \/ publishCommit(x)
      PROVE  BlindInv'
  <2>1. phase # "boot"
    BY <1>1, <1>6 DEF Save, Alerting, publishCommit
  <2>2. CASE Return(x)
    BY <1>2, <1>6, <2>1, <2>2 DEF Save, Alerting, publishCommit
  <2>3. CASE ~Return(x)
    <3>1. Goto(x, "notify") \/ Goto(x, "publish")
      BY <1>6, <2>3 DEF Save, Alerting, publishCommit
    <3>2. UNCHANGED <<phase, gate, blindSeen>>
      BY <1>6, <2>3 DEF Save, Alerting, publishCommit
    <3>3. Goto(x, at'[x]) /\ at'[x] # "probing" /\ at'[x] # "observe"
      BY <1>0, <3>1 DEF Goto
    <3> QED
      BY <1>3, <3>2, <3>3
  <2> QED
    BY <2>2, <2>3
<1>7. ASSUME NEW s \in Services, StartProbe(s) \/ Probe(s)
      PROVE  BlindInv'
  <2>1. UNCHANGED <<phase, gate, blindSeen>> /\ \A t \in Services : t # s => at'[t] = at[t]
    BY <1>0, <1>7 DEF StartProbe, Probe, Goto
  <2>2. blindSeen[s] = 0
    BY <1>0, <1>7 DEF StartProbe, Probe, Sighted
  <2> QED
    BY <1>0, <2>1, <2>2 DEF BlindInv
<1>8. ASSUME NEW s \in Services, ObserveService(s)
      PROVE  BlindInv'
  <2>1. phase # "boot" /\ phase' # "boot" /\ gate' = gate
    BY <1>0, <1>1, <1>8, ReturnPhase DEF ObserveService, Debounced
  <2>2. at'[s] \in {"save", "idle"} /\ \A t \in Services : t # s => at'[t] = at[t]
    BY <1>0, <1>8 DEF ObserveService, Debounced, Return, Goto
  <2>3. blindSeen[s] = 0 /\ blindSeen' = [blindSeen EXCEPT ![s] = IF gate THEN 0 ELSE @ + 1]
    BY <1>0, <1>8 DEF ObserveService
  <2>4. blindSeen'[s] \in {0, 1} /\ (gate => blindSeen'[s] = 0)
           /\ \A t \in Services : t # s => blindSeen'[t] = blindSeen[t]
    BY <1>0, <2>3
  <2> QED
    BY <1>0, <2>1, <2>2, <2>4 DEF BlindInv
<1>9. ASSUME NEW h \in Hosts, ProbeHost(h)
      PROVE  BlindInv'
  <2>1. Goto(h, at'[h]) /\ at'[h] = "gate" /\ h \in Subjects
    BY <1>0, <1>9 DEF ProbeHost, Goto, Subjects
  <2> QED
    BY <1>3, <1>9, <2>1 DEF ProbeHost
<1>10. ASSUME NEW h \in Hosts, SwapGate(h)
      PROVE  BlindInv'
  <2>1. phase # "boot" /\ phase' = phase
    BY <1>1, <1>10 DEF SwapGate, Subjects
  <2>2. \A s \in Services : at'[s] = at[s]
    BY <1>0, <1>10, HostsAssumption DEF SwapGate, Goto
  <2>3. \A s \in Services : blindSeen'[s] = IF gate' THEN 0 ELSE blindSeen[s]
    BY <1>10 DEF SwapGate
  <2> QED
    BY <1>0, <2>1, <2>2, <2>3 DEF BlindInv
<1>11. ASSUME NEW h \in Hosts, ObserveHost(h)
      PROVE  BlindInv'
  <2>1. phase # "boot" /\ h \in Subjects
    BY <1>1, <1>11 DEF ObserveHost, Subjects
  <2>2. CASE Return(h)
    BY <1>2, <1>11, <2>1, <2>2 DEF ObserveHost
  <2>3. CASE ~Return(h)
    BY <1>0, <1>3, <1>11, <2>1, <2>3 DEF ObserveHost, Debounced, Goto
  <2> QED
    BY <2>2, <2>3
<1>12. CASE Crash
  BY <1>12 DEF Crash, BlindInv
<1>13. ASSUME NEW s \in Services, ServiceLoop(s)
      PROVE  BlindInv'
  <2>1. CASE ProbeFails(s, "probing")
    BY <1>0, <1>1, <1>2, <2>1 DEF ProbeFails
  <2>2. CASE SkipProbe(s)
    BY <1>5, <2>2 DEF SkipProbe
  <2> QED
    BY <1>0, <1>6, <1>7, <1>8, <1>13, <2>1, <2>2 DEF ServiceLoop
<1>14. ASSUME NEW h \in Hosts, HostLoop(h)
      PROVE  BlindInv'
  <2>1. CASE HostProbeFails(h)
    BY <1>2, <2>1 DEF HostProbeFails, ProbeFails, Subjects
  <2>2. CASE \E s \in Services : Blind(s)
    BY <1>5, <2>2 DEF Blind
  <2> QED
    BY <1>6, <1>9, <1>10, <1>11, <1>14, <2>1, <2>2 DEF HostLoop, Subjects
<1>15. CASE World \/ UNCHANGED vars
  BY <1>5, <1>15 DEF World, HealthChanges, vars
<1>16. CASE \E ns \in [Services -> DebounceNs] : Reconfigure(ns)
  BY <1>5, <1>16 DEF Reconfigure
<1> QED
  BY <1>4, <1>12, <1>13, <1>14, <1>15, <1>16 DEF Next

\* Behind a closed gate no Probe starts, so only the one that was on its way can
\* still be counted, for any number of Services (monitor.go, the gate's swap and
\* probeOnce).
THEOREM BlindInvariant == Spec => []BlindInv
<1>1. Init => BlindInv
  BY DEF Init, BlindInv, Everywhere
<1> QED
  BY <1>1, BlindStep, MonitorTypes, CommitInvariant, PTL DEF Spec

\* The three parts together, the invariant every step of the spine keeps
\* (monitor.go, both loops, Resume and Reconfigure).
THEOREM MonitorInvariant == Spec => []MonitorInv
  BY MonitorTypes, CommitInvariant, BlindInvariant, PTL DEF MonitorInv

\* Behind a closed gate a Service's debouncer takes in at most the result that
\* was on its way when the gate closed (monitor.go, probeOnce).
THEOREM BlindResultsAreBounded == Spec => []OneBlindResult
<1>1. BlindInv => OneBlindResult
  BY DEF BlindInv, OneBlindResult
<1> QED
  BY <1>1, BlindInvariant, PTL
=============================================================================
