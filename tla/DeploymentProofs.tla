-------------------------- MODULE DeploymentProofs --------------------------
(***************************************************************************)
(* Proofs about Deployment and Commands for any configuration files, any   *)
(* number of edits, crashes and clicks.                                    *)
(***************************************************************************)
EXTENDS Commands, FiniteSetTheorems, TLAPS

(***************************************************************************)
(* What validate guarantees of a configuration.                            *)
(***************************************************************************)

\* The sequence of a finite set names every element once.
LEMMA SetToSeqFacts ==
    ASSUME NEW S, IsFiniteSet(S)
    PROVE  SetToSeq(S) \in Seq(S) /\ IsInjective(SetToSeq(S))
<1> DEFINE n == Cardinality(S)
<1>1. n \in Nat /\ ExistsBijection(1..n, S)
  BY FS_CardinalityType
<1>2. \E f \in [1..n -> S] : IsInjective(f)
  BY <1>1 DEF ExistsBijection, Bijection, Injection
<1>3. SetToSeq(S) \in [1..n -> S] /\ IsInjective(SetToSeq(S))
  BY <1>2 DEF SetToSeq
<1> HIDE DEF n
<1> QED
  BY <1>1, <1>3

Names(c) == {c.services[i].name : i \in DOMAIN c.services}

\* Counting the names is enough: as many names as Services means that no two
\* Services share one.
LEMMA NamesAreUnique ==
    ASSUME NEW c \in Configs \cup Edits, Load(c)
    PROVE  \A i, j \in DOMAIN c.services : c.services[i].name = c.services[j].name => i = j
<1> DEFINE n == Len(c.services)
           f == [i \in 1..n |-> c.services[i].name]
<1>1. n \in Nat /\ DOMAIN c.services = 1..n
  BY ConfigsAssumption
<1>2. Cardinality(Names(c)) = n
  BY DEF Load, validate, Names
<1>3. f \in Surjection(1..n, Names(c))
  BY <1>1 DEF Surjection, Names
<1>4. IsFiniteSet(1..n) /\ Cardinality(1..n) = n
  BY <1>1, FS_Interval
<1>5. IsFiniteSet(Names(c))
  BY <1>3, <1>4, FS_Surjection
<1>6. f \in Injection(1..n, Names(c))
  BY <1>2, <1>3, <1>4, <1>5, FS_SurjSameCardinalityImpliesInj
<1> QED
  BY <1>1, <1>6 DEF Injection, IsInjective

\* The knobs a reload would hand over are those of the file's Service.
LEMMA KnobOfService ==
    ASSUME NEW c \in Configs \cup Edits, Load(c), NEW i \in DOMAIN c.services
    PROVE  reloadKnobs(c)[c.services[i].name] = Knob(c.services[i])
<1> DEFINE x == c.services[i].name
           s == CHOOSE s \in Range(c.services) : s.name = x
<1>1. c.services[i] \in Range(c.services) /\ x \in Names(c)
  BY DEF Range, Names
<1>2. s \in Range(c.services) /\ s.name = x
  BY <1>1
<1>3. s = c.services[i]
  BY <1>2, NamesAreUnique DEF Range
<1>4. reloadKnobs(c)[x] = Knob(s)
  BY <1>1 DEF reloadKnobs, Names
<1> QED
  BY <1>3, <1>4

LEMMA KnobType ==
    ASSUME NEW s \in ServiceSection
    PROVE  Knob(s) \in Knobs
  BY DEF ServiceSection, Knob, Knobs, debounceDefault, parseDurationDefault, DefaultPoll

LEMMA ReloadType ==
    ASSUME NEW c \in Configs \cup Edits
    PROVE  \A x \in DOMAIN reloadKnobs(c) : reloadKnobs(c)[x] \in Knobs
<1> SUFFICES ASSUME NEW x \in Names(c)
             PROVE  Knob(CHOOSE s \in Range(c.services) : s.name = x) \in Knobs
  BY DEF reloadKnobs, Names
<1>1. Range(c.services) \subseteq ServiceSection
  BY ConfigsAssumption DEF Range
<1>2. \E s \in Range(c.services) : s.name = x
  BY DEF Names, Range
<1> QED
  BY <1>1, <1>2, KnobType

\* Whoever probes over SSH has the runner.
LEMMA SSHIsThere ==
    ASSUME NEW c \in Configs \cup Edits, Load(c), c.harness.mode # "off" => c.ssh # {},
           sshProbes(c) # {}
    PROVE  c.ssh # {}
<1>1. \A i \in DOMAIN c.services : "container" \in c.services[i].kinds => c.ssh # {}
  BY DEF Load, validate
<1>2. \A h \in c.host : h.metrics => c.ssh # {}
  BY DEF Load, validate
<1>3. \A i \in DOMAIN c.services :
         proberOf(c.services[i]) = "container" => "container" \in c.services[i].kinds
  BY DEF proberOf
<1> QED
  BY <1>1, <1>2, <1>3 DEF sshProbes

\* In live mode the Actuator exists, is allowed its targets and does not use
\* the credential that reads.
LEMMA ActuatorIsSafe ==
    ASSUME NEW c \in Configs \cup Edits, Load(c), c.harness.mode = "live"
    PROVE  /\ actuatorOf(c) # None
           /\ \A a \in actuatorOf(c), s \in DOMAIN c.harness.targets : c.harness.targets[s] \in a.allow
           /\ \A a \in actuatorOf(c), r \in c.ssh : <<a.ssh.user, a.ssh.secret>> # <<r.user, r.secret>>
<1>1. LiveResolves(c.harness, c.ssh)
  BY DEF Load, validate, HarnessResolves
<1>2. actuatorOf(c) = {[ssh |-> w, allow |-> c.harness.allow] : w \in c.harness.write}
  BY DEF actuatorOf
<1>3. actuatorOf(c) # None
  BY <1>1, <1>2 DEF LiveResolves, None
<1>4. ASSUME NEW a \in actuatorOf(c)
      PROVE  a.allow = c.harness.allow /\ a.ssh \in c.harness.write
  BY <1>2
<1>5. \A s \in DOMAIN c.harness.targets : c.harness.targets[s] \in c.harness.allow
  BY <1>1 DEF LiveResolves
<1>6. \A w \in c.harness.write, r \in c.ssh : <<w.user, w.secret>> # <<r.user, r.secret>>
  BY <1>1 DEF LiveResolves
<1> QED
  BY <1>3, <1>4, <1>5, <1>6

\* No two subjects share a row, except with the Harness.
LEMMA SubjectsAreApart ==
    ASSUME NEW c \in Configs \cup Edits, Load(c),
           NEW i \in DOMAIN subjects(c), NEW j \in DOMAIN subjects(c), i # j,
           subjects(c)[i] = subjects(c)[j]
    PROVE  subjects(c)[i] = "harness"
<1> DEFINE A == [k \in DOMAIN c.services |-> c.services[k].name]
           B == IF c.harness.mode = "off" THEN <<>> ELSE <<"harness">>
           H == {h.name : h \in c.host}
           C == SetToSeq(H)
<1>1. /\ A \in Seq(STRING) /\ DOMAIN A = 1..Len(A) /\ Len(A) \in Nat
      /\ \A k \in DOMAIN A : A[k] \in Names(c)
      /\ \A k, l \in DOMAIN A : A[k] = A[l] => k = l
  <2>1. c.services \in Seq(ServiceSection)
    BY ConfigsAssumption
  <2>0. ASSUME NEW k \in DOMAIN c.services
        PROVE  c.services[k] \in ServiceSection
    BY <2>1
  <2>2. \A k \in DOMAIN c.services : c.services[k].name \in STRING
    BY <2>0 DEF ServiceSection
  <2>3. A \in Seq(STRING) /\ DOMAIN A = 1..Len(A) /\ Len(A) \in Nat
    BY <2>1, <2>2
  <2> QED
    BY <2>3, NamesAreUnique DEF Names
<1>2. /\ B \in Seq({"harness"}) /\ DOMAIN B = 1..Len(B) /\ Len(B) \in Nat
      /\ \A k \in DOMAIN B : B[k] = "harness"
  <2>1. CASE c.harness.mode = "off"
    <3>1. B = <<>>
      BY <2>1
    <3> HIDE DEF B
    <3> QED
      BY <3>1
  <2>2. CASE c.harness.mode # "off"
    <3>1. B = <<"harness">>
      BY <2>2
    <3> HIDE DEF B
    <3> QED
      BY <3>1
  <2> QED
    BY <2>1, <2>2
<1>3. /\ C \in Seq(H) /\ DOMAIN C = 1..Len(C) /\ Len(C) \in Nat
      /\ \A k \in DOMAIN C : C[k] \in H
      /\ \A k, l \in DOMAIN C : C[k] = C[l] => k = l
  <2> DEFINE f == [h \in c.host |-> h.name]
  <2>1. f \in Surjection(c.host, H) /\ IsFiniteSet(c.host)
    BY ConfigsAssumption DEF Surjection
  <2>2. IsFiniteSet(H)
    BY <2>1, FS_Surjection
  <2>3. C \in Seq(H) /\ IsInjective(C)
    BY <2>2, SetToSeqFacts
  <2> HIDE DEF C, H
  <2> QED
    BY <2>3 DEF IsInjective
<1>4. \A x \in H : x \notin Names(c)
  BY DEF Load, validate, Names
<1>5. subjects(c) = (A \o B) \o C
  BY DEF subjects
<1> HIDE DEF A, B, H, C
<1>6. ASSUME NEW k \in DOMAIN subjects(c)
      PROVE  \/ k \in DOMAIN A /\ subjects(c)[k] = A[k]
             \/ subjects(c)[k] = "harness"
             \/ /\ k - (Len(A) + Len(B)) \in DOMAIN C
                /\ subjects(c)[k] = C[k - (Len(A) + Len(B))]
  <2>1. /\ DOMAIN (A \o B) = 1..Len(A) + Len(B) /\ Len(A \o B) = Len(A) + Len(B)
        /\ \A l \in 1..Len(A) + Len(B) : (A \o B)[l] = IF l <= Len(A) THEN A[l] ELSE B[l - Len(A)]
    BY <1>1, <1>2
  <2>2. A \o B \in Seq(STRING \cup {"harness"})
    BY <1>1, <1>2
  <2>3. /\ DOMAIN subjects(c) = 1..Len(A \o B) + Len(C)
        /\ subjects(c)[k] = IF k <= Len(A \o B) THEN (A \o B)[k] ELSE C[k - Len(A \o B)]
    BY <1>3, <1>5, <2>2
  <2> QED
    BY <1>1, <1>2, <1>3, <2>1, <2>3
<1> QED
  BY <1>1, <1>3, <1>4, <1>6

\* Together: what BootIsWired asks of a configuration that run accepted.
LEMMA AcceptedIsWired ==
    ASSUME NEW c \in Configs \cup Edits, Load(c), c.harness.mode # "off" => c.ssh # {}
    PROVE  /\ sshProbes(c) # {} => c.ssh # {}
           /\ c.harness.mode = "live" =>
                 /\ actuatorOf(c) # None
                 /\ \A a \in actuatorOf(c), s \in DOMAIN c.harness.targets : c.harness.targets[s] \in a.allow
                 /\ \A a \in actuatorOf(c), r \in c.ssh : <<a.ssh.user, a.ssh.secret>> # <<r.user, r.secret>>
           /\ \A i, j \in DOMAIN subjects(c) :
                 (i # j /\ subjects(c)[i] = subjects(c)[j]) => subjects(c)[i] = "harness"
  BY SSHIsThere, ActuatorIsSafe, SubjectsAreApart

(***************************************************************************)
(* What the steps do to the loops and their knobs.                         *)
(***************************************************************************)

\* LoopInv for one loop.
LoopOK(r) ==
    /\ r.at = "wait" /\ r.ticker # r.poll => r.signal
    /\ r.at = "reset" /\ r.hand # r.poll => r.signal

SameKnobs(r, q) == q.name = r.name /\ q.n = r.n /\ q.poll = r.poll

LEMMA LoopEffect ==
    ASSUME DeploymentTypes, LoopInv, NEW i \in DOMAIN rt, Loop(i)
    PROVE  /\ rt' \in Seq(Runtimes) /\ DOMAIN rt' = DOMAIN rt
           /\ \A j \in DOMAIN rt : SameKnobs(rt[j], rt'[j]) /\ LoopOK(rt'[j])
           /\ proc = "up" /\ UNCHANGED <<file, proc, boot, watcher, hidden>>
<1> DEFINE r == rt[i]
<1>0. r \in Runtimes /\ LoopOK(r) /\ DOMAIN rt = 1..Len(rt) /\ Len(rt) \in Nat
  BY DEF DeploymentTypes, LoopInv, LoopOK
<1>1. ASSUME NEW to \in Runtimes, rt' = [rt EXCEPT ![i] = to], SameKnobs(r, to), LoopOK(to)
      PROVE  /\ rt' \in Seq(Runtimes) /\ DOMAIN rt' = DOMAIN rt
             /\ \A j \in DOMAIN rt : SameKnobs(rt[j], rt'[j]) /\ LoopOK(rt'[j])
  BY <1>1 DEF DeploymentTypes, LoopInv, LoopOK, SameKnobs
<1>2. ASSUME NEW from, NEW to, LoopStep(i, from, to)
      PROVE  /\ rt' = [rt EXCEPT ![i] = to] /\ r.at = from
             /\ proc = "up" /\ UNCHANGED <<file, proc, boot, watcher, hidden>>
  BY <1>2 DEF LoopStep
<1> HIDE DEF r
<1>3. CASE StartLoop(i)
  <2> DEFINE to == [r EXCEPT !.hand = r.poll, !.at = "reset"]
  <2>1. LoopStep(i, "new", to)
    BY <1>3 DEF StartLoop, r
  <2>2. to \in Runtimes /\ SameKnobs(r, to) /\ LoopOK(to)
    BY <1>0 DEF Runtimes, SameKnobs, LoopOK
  <2> HIDE DEF to
  <2> QED
    BY <1>1, <1>2, <2>1, <2>2
<1>4. CASE Probe(i)
  <2> DEFINE to == [r EXCEPT !.at = "read"]
  <2>1. LoopStep(i, "wait", to)
    BY <1>4 DEF Probe, r
  <2>2. to \in Runtimes /\ SameKnobs(r, to) /\ LoopOK(to)
    BY <1>0 DEF Runtimes, SameKnobs, LoopOK
  <2> HIDE DEF to
  <2> QED
    BY <1>1, <1>2, <2>1, <2>2
<1>5. CASE Notice(i)
  <2> DEFINE to == [r EXCEPT !.signal = FALSE, !.at = "read"]
  <2>1. LoopStep(i, "wait", to)
    BY <1>5 DEF Notice, r
  <2>2. to \in Runtimes /\ SameKnobs(r, to) /\ LoopOK(to)
    BY <1>0 DEF Runtimes, SameKnobs, LoopOK
  <2> HIDE DEF to
  <2> QED
    BY <1>1, <1>2, <2>1, <2>2
<1>6. CASE ReadPoll(i)
  <2> DEFINE to == [r EXCEPT !.hand = r.poll, !.at = "reset"]
  <2>1. LoopStep(i, "read", to)
    BY <1>6 DEF ReadPoll, r
  <2>2. to \in Runtimes /\ SameKnobs(r, to) /\ LoopOK(to)
    BY <1>0 DEF Runtimes, SameKnobs, LoopOK
  <2> HIDE DEF to
  <2> QED
    BY <1>1, <1>2, <2>1, <2>2
<1>7. CASE ResetTicker(i)
  <2> DEFINE to == [r EXCEPT !.ticker = r.hand, !.hand = 0, !.at = "wait"]
  <2>1. LoopStep(i, "reset", to)
    BY <1>7 DEF ResetTicker, r
  <2>2. r.at = "reset"
    BY <1>2, <2>1
  <2>6. to \in Runtimes
    <3> DEFINE m == [r EXCEPT !.ticker = r.hand]
               q == [m EXCEPT !.hand = 0]
    <3>1. m \in Runtimes
      BY <1>0 DEF Runtimes
    <3> HIDE DEF m
    <3>2. q \in Runtimes
      BY <3>1 DEF Runtimes
    <3> HIDE DEF q
    <3>3. [q EXCEPT !.at = "wait"] \in Runtimes
      BY <3>2 DEF Runtimes
    <3> QED
      BY <3>3 DEF q, m
  <2>4. SameKnobs(r, to)
    BY <1>0 DEF Runtimes, SameKnobs
  <2>5. to.at = "wait" /\ to.ticker = r.hand /\ to.poll = r.poll /\ to.signal = r.signal
    BY <1>0 DEF Runtimes
  <2>3. to \in Runtimes /\ SameKnobs(r, to) /\ LoopOK(to)
    BY <1>0, <2>2, <2>4, <2>5, <2>6 DEF LoopOK
  <2> HIDE DEF to
  <2> QED
    BY <1>1, <1>2, <2>1, <2>3
<1> QED
  BY <1>3, <1>4, <1>5, <1>6, <1>7 DEF Loop

\* Reconfigure hands every loop the knobs of its Service and a signal where
\* the interval differs.
LEMMA ApplyEffect ==
    ASSUME DeploymentTypes, LoopInv, Apply
    PROVE  /\ rt' \in Seq(Runtimes) /\ DOMAIN rt' = DOMAIN rt
           /\ \A j \in DOMAIN rt :
                 /\ rt'[j].name = rt[j].name /\ LoopOK(rt'[j])
                 /\ rt[j].name \in DOMAIN incoming =>
                       incoming[rt[j].name] = [n |-> rt'[j].n, poll |-> rt'[j].poll]
<1>0. DOMAIN rt = 1..Len(rt) /\ Len(rt) \in Nat
  BY DEF DeploymentTypes
<1>1. ASSUME NEW r \in Runtimes, NEW k \in Knobs, LoopOK(r)
      PROVE  /\ reconfigure(r, k) \in Runtimes /\ reconfigure(r, k).name = r.name
             /\ k = [n |-> reconfigure(r, k).n, poll |-> reconfigure(r, k).poll]
             /\ LoopOK(reconfigure(r, k))
  <2> DEFINE q == reconfigure(r, k)
  <2>0. PICK b \in BOOLEAN : b = (r.signal \/ r.poll # k.poll)
    OBVIOUS
  <2>1. q = [r EXCEPT !.n = k.n, !.poll = k.poll, !.signal = b]
    BY <2>0 DEF reconfigure
  <2>2. /\ q.name = r.name /\ q.n = k.n /\ q.poll = k.poll /\ q.ticker = r.ticker
        /\ q.signal = b /\ q.at = r.at /\ q.hand = r.hand
    BY <2>1 DEF Runtimes
  <2>3. q \in Runtimes /\ q.name = r.name
    BY <2>0, <2>1 DEF Runtimes, Knobs
  <2>4. k = [n |-> q.n, poll |-> q.poll]
    BY <2>2 DEF Knobs
  <2> HIDE DEF q
  <2>5. LoopOK(q)
    BY <1>1, <2>0, <2>2 DEF LoopOK
  <2> QED
    BY <2>3, <2>4, <2>5 DEF q
<1>2. ASSUME NEW j \in DOMAIN rt
      PROVE  /\ rt'[j] \in Runtimes /\ rt'[j].name = rt[j].name /\ LoopOK(rt'[j])
             /\ rt[j].name \in DOMAIN incoming =>
                   incoming[rt[j].name] = [n |-> rt'[j].n, poll |-> rt'[j].poll]
  <2>1. rt[j] \in Runtimes /\ LoopOK(rt[j])
    BY DEF DeploymentTypes, LoopInv, LoopOK
  <2>2. CASE rt[j].name \in DOMAIN incoming
    <3>1. rt'[j] = reconfigure(rt[j], incoming[rt[j].name])
      BY <2>2 DEF Apply
    <3>2. incoming[rt[j].name] \in Knobs
      BY <2>2 DEF DeploymentTypes
    <3> QED
      BY <1>1, <2>1, <3>1, <3>2
  <2>3. CASE rt[j].name \notin DOMAIN incoming
    <3>1. rt'[j] = rt[j]
      BY <2>3 DEF Apply
    <3> QED
      BY <2>1, <2>3, <3>1
  <2> QED
    BY <2>2, <2>3
<1>3. DOMAIN rt' = DOMAIN rt /\ rt' \in [DOMAIN rt -> Runtimes]
  <2>1. rt' = [j \in DOMAIN rt |-> rt'[j]]
    BY DEF Apply
  <2> QED
    BY <1>2, <2>1
<1> QED
  BY <1>0, <1>2, <1>3

\* What Wire builds for each Service.
Wired(c) ==
    [i \in DOMAIN c.services |-> Runtime(c.services[i].name, Knob(c.services[i]))]
        \o (IF c.harness.mode = "off" THEN <<>> ELSE <<Runtime("harness", harnessKnob)>>)

LEMMA WireEffect ==
    ASSUME NEW c \in Configs \cup Edits, rt' = Wired(c)
    PROVE  /\ rt' \in Seq(Runtimes)
           /\ \A i \in DOMAIN rt' : rt'[i].at = "new"
           /\ \A i \in DOMAIN c.services :
                 /\ i \in DOMAIN rt' /\ rt'[i].name = c.services[i].name
                 /\ [n |-> rt'[i].n, poll |-> rt'[i].poll] = Knob(c.services[i])
<1> DEFINE A == [i \in DOMAIN c.services |-> Runtime(c.services[i].name, Knob(c.services[i]))]
           B == IF c.harness.mode = "off" THEN <<>> ELSE <<Runtime("harness", harnessKnob)>>
           New == {r \in Runtimes : r.at = "new"}
<1>1. ASSUME NEW x \in STRING \cup {"harness"}, NEW k \in Knobs
      PROVE  /\ Runtime(x, k) \in New /\ Runtime(x, k).name = x
             /\ [n |-> Runtime(x, k).n, poll |-> Runtime(x, k).poll] = k
  BY DEF Runtime, Runtimes, Knobs
<1>2. c.services \in Seq(ServiceSection) /\ DOMAIN c.services = 1..Len(c.services)
      /\ Len(c.services) \in Nat
  BY ConfigsAssumption
<1>3. ASSUME NEW i \in DOMAIN c.services
      PROVE  /\ A[i] \in New /\ A[i].name = c.services[i].name
             /\ [n |-> A[i].n, poll |-> A[i].poll] = Knob(c.services[i])
  <2>1. c.services[i] \in ServiceSection
    BY <1>2
  <2>2. c.services[i].name \in STRING /\ Knob(c.services[i]) \in Knobs
    BY <2>1, KnobType DEF ServiceSection
  <2> QED
    BY <1>1, <2>2
<1>4. harnessKnob \in Knobs
  BY DEF harnessKnob, Knobs, harnessProbePoll
<1> HIDE DEF New
<1>5. Runtime("harness", harnessKnob) \in New
  BY <1>1, <1>4
<1>6. A \in Seq(New) /\ DOMAIN A = 1..Len(A) /\ Len(A) = Len(c.services)
  <2>1. A = [i \in DOMAIN c.services |-> A[i]]
    OBVIOUS
  <2> HIDE DEF A
  <2>2. A \in [1..Len(c.services) -> New]
    BY <1>2, <1>3, <2>1
  <2> QED
    BY <1>2, <2>2
<1>7. B \in Seq(New)
  <2>1. CASE c.harness.mode = "off"
    BY <2>1
  <2>2. CASE c.harness.mode # "off"
    BY <1>5, <2>2
  <2> QED
    BY <2>1, <2>2
<1>8. rt' = A \o B
  BY DEF Wired
<1> HIDE DEF A, B
<1>9. rt' \in Seq(New) /\ \A i \in DOMAIN A : i \in DOMAIN rt' /\ rt'[i] = A[i]
  <2>1. A \o B \in Seq(New) /\ Len(B) \in Nat /\ Len(A) \in Nat
    BY <1>6, <1>7
  <2>2. /\ DOMAIN (A \o B) = 1..Len(A) + Len(B)
        /\ \A i \in 1..Len(A) : (A \o B)[i] = A[i]
    BY <1>6, <1>7
  <2> QED
    BY <1>6, <1>8, <2>1, <2>2
<1>10. \A i \in DOMAIN rt' : rt'[i] \in New
  BY <1>9
<1>11. rt' \in Seq(Runtimes) /\ \A i \in DOMAIN rt' : rt'[i].at = "new"
  BY <1>9, <1>10 DEF New
<1> QED
  BY <1>2, <1>3, <1>6, <1>9, <1>11

(***************************************************************************)
(* The daemon: one lemma per kind of step.                                 *)
(***************************************************************************)
Daemon == DeploymentTypes /\ BootInv /\ SyncInv /\ LoopInv

LEMMA EditStep ==
    ASSUME Daemon, NEW c \in Edits, NEW t \in Times, Edit(c, t)
    PROVE  Daemon'
<1> USE DEF Daemon, watcher
<1>1. /\ file' = [cfg |-> c, mtime |-> t] /\ file'.mtime = t /\ hidden' = Hides(t)
      /\ file' \in [cfg : Configs \cup Edits, mtime : Times] /\ hidden' \in BOOLEAN
      /\ UNCHANGED <<proc, boot, rt, watcher>>
  BY DEF Edit, Hides
<1>2. DeploymentTypes'
  BY <1>1 DEF DeploymentTypes
<1>3. SyncInv'
  BY <1>1 DEF Hides, SyncInv
<1>4. BootInv'
  BY <1>1 DEF Hides, BootInv
<1>5. LoopInv'
  BY DEF Edit, LoopInv
<1> QED
  BY <1>2, <1>3, <1>4, <1>5

LEMMA StopStep ==
    ASSUME Daemon, Stop
    PROVE  Daemon'
<1> USE DEF Daemon
<1>1. /\ boot' = {} /\ rt' = <<>> /\ proc' = "down" /\ lastMod' = 0 /\ seen' = 0
      /\ watch' = "idle" /\ DOMAIN incoming' = {} /\ file' = file /\ hidden' = FALSE
  BY DEF Stop, None, NoKnobs
<1>2. rt' \in Seq(Runtimes) /\ DOMAIN rt' = {}
  BY <1>1
<1>3. DeploymentTypes'
  BY <1>1, <1>2 DEF DeploymentTypes
<1>4. file.mtime \in Nat \ {0}
  BY TimesAssumption DEF DeploymentTypes
<1>5. BootInv' /\ SyncInv' /\ LoopInv'
  BY <1>1, <1>2, <1>4 DEF BootInv, SyncInv, LoopInv
<1> QED
  BY <1>3, <1>5

LEMMA LoadStep ==
    ASSUME Daemon, LoadConfig
    PROVE  Daemon'
<1> USE DEF Daemon, watcher
<1>1. DeploymentTypes'
  BY DEF LoadConfig, DeploymentTypes
<1>2. BootInv' /\ SyncInv' /\ LoopInv'
  BY DEF LoadConfig, BootInv, SyncInv, LoopInv
<1> QED
  BY <1>1, <1>2

LEMMA WireStep ==
    ASSUME Daemon, Wire
    PROVE  Daemon'
<1> USE DEF Daemon, watcher
<1>1. PICK c \in boot : /\ c.harness.mode # "off" => c.ssh # {}
                        /\ rt' = Wired(c)
  BY DEF Wire, Wired
<1>2. c \in Configs \cup Edits
  BY DEF DeploymentTypes
<1>3. boot' = boot /\ proc' = "wired" /\ proc = "loaded" /\ UNCHANGED <<file, watcher, hidden>>
  BY DEF Wire
<1>4. boot = {c}
  BY DEF BootInv
<1>5. DeploymentTypes'
  BY <1>1, <1>2, <1>3, WireEffect DEF DeploymentTypes
<1>6. BootInv'
  BY <1>1, <1>2, <1>3, <1>4, WireEffect DEF BootInv
<1>7. SyncInv'
  BY <1>3 DEF SyncInv
<1>8. LoopInv'
  BY <1>1, <1>2, WireEffect DEF LoopInv
<1> QED
  BY <1>5, <1>6, <1>7, <1>8

LEMMA StatStep ==
    ASSUME Daemon, Stat
    PROVE  Daemon'
<1> USE DEF Daemon, watcher
<1>1. /\ proc = "wired" /\ proc' = "up" /\ lastMod' \in {0, file.mtime} /\ watch = "idle"
      /\ UNCHANGED <<file, boot, rt, watch, seen, incoming>>
      /\ hidden' = (hidden /\ lastMod' = file.mtime) /\ file.mtime \in Nat \ {0}
  BY TimesAssumption DEF Stat, SyncInv, DeploymentTypes
<1>2. DeploymentTypes' /\ BootInv' /\ LoopInv'
  BY <1>1 DEF DeploymentTypes, BootInv, LoopInv
<1>3. ASSUME ~hidden
      PROVE  Agrees(file.cfg)'
  <2>1. boot = {file.cfg} /\ file.cfg \in Configs \cup Edits /\ Load(file.cfg)
    BY <1>1, <1>3 DEF BootInv, DeploymentTypes
  <2>2. file.cfg.services \in Seq(ServiceSection)
    BY <2>1, ConfigsAssumption
  <2>3. ASSUME NEW i \in Configured
        PROVE  reloadKnobs(file.cfg)[rt[i].name] = [n |-> rt[i].n, poll |-> rt[i].poll]
    <3>1. i \in DOMAIN file.cfg.services
      BY <2>1, <2>2 DEF Configured, DeploymentTypes, None
    <3>2. rt[i].name = file.cfg.services[i].name
          /\ [n |-> rt[i].n, poll |-> rt[i].poll] = Knob(file.cfg.services[i])
      BY <1>1, <2>1, <3>1 DEF BootInv
    <3> QED
      BY <2>1, <3>1, <3>2, KnobOfService
  <2>4. Agrees(file.cfg)
    BY <2>3 DEF Agrees
  <2> QED
    BY <1>1, <2>4 DEF Agrees, Configured
<1>4. SyncInv'
  BY <1>1, <1>3 DEF SyncInv
<1> QED
  BY <1>2, <1>4

LEMMA WatcherStep ==
    ASSUME Daemon, Watcher
    PROVE  Daemon'
<1> USE DEF Daemon
<1>0. /\ file.mtime \in Nat \ {0} /\ seen \in Nat /\ file.cfg \in Configs \cup Edits
  BY TimesAssumption DEF DeploymentTypes
<1>1. CASE Tick
  <2>1. DeploymentTypes' /\ BootInv' /\ LoopInv'
    BY <1>0, <1>1 DEF Tick, DeploymentTypes, BootInv, LoopInv
  <2>2. proc' = "up" /\ watch' = "changed" /\ hidden' = hidden /\ ~hidden
    BY <1>1 DEF Tick, SyncInv
  <2>3. SyncInv'
    BY <2>2 DEF SyncInv
  <2> QED
    BY <2>1, <2>3
<1>2. CASE Reload
  <2>1. UNCHANGED <<file, proc, boot, rt, seen, hidden>> /\ watch = "changed"
    BY <1>2 DEF Reload
  <2>2. BootInv' /\ LoopInv'
    BY <2>1 DEF BootInv, LoopInv
  <2>3. CASE Load(file.cfg)
    <3>1. watch' = "loaded" /\ incoming' = reloadKnobs(file.cfg) /\ lastMod' = lastMod
      BY <1>2, <2>3 DEF Reload
    <3>2. DeploymentTypes'
      BY <1>0, <2>1, <3>1, ReloadType DEF DeploymentTypes
    <3>3. SyncInv'
      BY <1>0, <2>1, <3>1 DEF SyncInv
    <3> QED
      BY <2>2, <3>2, <3>3
  <2>4. CASE ~Load(file.cfg)
    <3>1. watch' = "idle" /\ incoming' = incoming /\ lastMod' = seen
      BY <1>2, <2>4 DEF Reload
    <3>2. DeploymentTypes'
      BY <1>0, <2>1, <3>1 DEF DeploymentTypes
    <3>3. SyncInv'
      BY <1>0, <2>1, <2>4, <3>1 DEF SyncInv
    <3> QED
      BY <2>2, <3>2, <3>3
  <2> QED
    BY <2>3, <2>4
<1>3. CASE Apply
  <2>1. /\ UNCHANGED <<file, proc, boot, seen, hidden>> /\ watch = "loaded" /\ watch' = "idle"
        /\ lastMod' = seen /\ DOMAIN incoming' = {} /\ proc = "up"
    BY <1>3 DEF Apply, NoKnobs, SyncInv
  <2>2. DeploymentTypes'
    BY <1>0, <1>3, <2>1, ApplyEffect DEF DeploymentTypes
  <2>3. LoopInv'
    BY <1>3, ApplyEffect DEF LoopInv, LoopOK
  <2>4. BootInv'
    BY <2>1 DEF BootInv
  <2>5. ASSUME seen = file.mtime, ~hidden
        PROVE  Agrees(file.cfg)'
    <3>1. incoming = reloadKnobs(file.cfg)
      BY <2>1, <2>5 DEF SyncInv
    <3>2. Configured' \subseteq DOMAIN rt
      BY <1>3, ApplyEffect DEF Configured
    <3> QED
      BY <1>3, <2>1, <3>1, <3>2, ApplyEffect DEF Agrees
  <2>6. SyncInv'
    BY <1>0, <2>1, <2>5 DEF SyncInv
  <2> QED
    BY <2>2, <2>3, <2>4, <2>6
<1>4. CASE ReadFails
  <2>1. /\ UNCHANGED <<file, proc, boot, rt, seen, incoming>> /\ watch' = "idle"
        /\ lastMod' = seen /\ hidden' = (file.mtime = seen)
    BY <1>4 DEF ReadFails
  <2>2. DeploymentTypes' /\ LoopInv'
    BY <1>0, <2>1 DEF DeploymentTypes, LoopInv
  <2>3. BootInv' /\ SyncInv'
    BY <1>4, <2>1 DEF ReadFails, BootInv, SyncInv
  <2> QED
    BY <2>2, <2>3
<1> QED
  BY <1>1, <1>2, <1>3, <1>4 DEF Watcher

LEMMA LoopsStep ==
    ASSUME Daemon, NEW i \in DOMAIN rt, Loop(i)
    PROVE  Daemon'
<1> USE DEF Daemon, watcher
<1>1. DeploymentTypes'
  BY LoopEffect DEF DeploymentTypes
<1>2. BootInv'
  BY LoopEffect DEF BootInv
<1>3. LoopInv'
  BY LoopEffect DEF LoopInv, LoopOK
<1>4. ASSUME Agrees(file.cfg)
      PROVE  Agrees(file.cfg)'
  <2>1. Configured' = Configured /\ Configured \subseteq DOMAIN rt
    BY LoopEffect DEF Configured
  <2> QED
    BY <1>4, <2>1, LoopEffect DEF Agrees, SameKnobs
<1>5. SyncInv'
  BY <1>4, LoopEffect DEF SyncInv
<1> QED
  BY <1>1, <1>2, <1>3, <1>5

(***************************************************************************)
(* The command handlers.                                                   *)
(***************************************************************************)

\* CommandInv: its types, and what it says of one click.
CommandTypes ==
    /\ click \in [Clicks -> {"new", "resolve", "docker", "audit", "answered", "lost"}]
    /\ target \in [Clicks -> Containers \cup {"none"}]
    /\ outcome \in [Clicks -> {"none", "refused", "ok", "failed"}]
    /\ engine \in [Clicks -> {"none", "sent", "restarted", "failed"}]
    /\ answer \in [Clicks -> {"none", "ok", "failed"}] /\ DOMAIN audited = Clicks

ClickOK(k) ==
    /\ click[k] \in {"new", "resolve"} => engine[k] = "none"
    /\ click[k] = "docker" => engine[k] # "none"
    /\ click[k] \in {"audit", "answered"} =>
          /\ outcome[k] # "none" /\ (outcome[k] = "refused" <=> engine[k] = "none")
          /\ outcome[k] = "ok" => engine[k] = "restarted"
    /\ audited[k] = IF click[k] = "answered" THEN {AuditLine(k)} ELSE {}
    /\ answer[k] = "ok" => click[k] = "answered" /\ outcome[k] = "ok"

LEMMA CommandParts == CommandInv <=> CommandTypes /\ \A k \in Clicks : ClickOK(k)
  BY DEF CommandInv, CommandTypes, ClickOK

\* A step of one click, its handler's or the engine's.
LEMMA HandlerStep ==
    ASSUME CommandInv, NEW k \in Clicks, Handler(k) \/ Engine(k)
    PROVE  CommandInv' /\ UNCHANGED deployment
<1>0. CommandTypes /\ \A j \in Clicks : ClickOK(j)
  BY CommandParts
<1>1. CASE Click(k)
  <2>1. CommandTypes' /\ UNCHANGED deployment
    BY <1>0, <1>1 DEF Click, Goto, CommandTypes
  <2>2. ASSUME NEW j \in Clicks
        PROVE  ClickOK(j)'
    BY <1>0, <1>1 DEF Click, Goto, CommandTypes, ClickOK, AuditLine
  <2> QED
    BY <2>1, <2>2, CommandParts DEF CommandInv, CommandTypes, ClickOK
<1>2. CASE resolveTarget(k)
  <2>1. CommandTypes' /\ UNCHANGED deployment
    BY <1>0, <1>2 DEF resolveTarget, Goto, Hold, CommandTypes
  <2>2. ASSUME NEW j \in Clicks
        PROVE  ClickOK(j)'
    BY <1>0, <1>2 DEF resolveTarget, Goto, Hold, CommandTypes, ClickOK, AuditLine
  <2> QED
    BY <2>1, <2>2, CommandParts DEF CommandInv, CommandTypes, ClickOK
<1>3. CASE Restart(k)
  <2>1. CommandTypes' /\ UNCHANGED deployment
    BY <1>0, <1>3 DEF Restart, Goto, Hold, CommandTypes
  <2>2. ASSUME NEW j \in Clicks
        PROVE  ClickOK(j)'
    BY <1>0, <1>3 DEF Restart, Goto, Hold, CommandTypes, ClickOK, AuditLine
  <2> QED
    BY <2>1, <2>2, CommandParts DEF CommandInv, CommandTypes, ClickOK
<1>4. CASE GiveUp(k)
  <2>1. CommandTypes' /\ UNCHANGED deployment
    BY <1>0, <1>4 DEF GiveUp, Goto, Hold, CommandTypes
  <2>2. ASSUME NEW j \in Clicks
        PROVE  ClickOK(j)'
    BY <1>0, <1>4 DEF GiveUp, Goto, Hold, CommandTypes, ClickOK, AuditLine
  <2> QED
    BY <2>1, <2>2, CommandParts DEF CommandInv, CommandTypes, ClickOK
<1>5. CASE Audit(k)
  <2>1. CommandTypes' /\ UNCHANGED deployment
    BY <1>0, <1>5 DEF Audit, Goto, CommandTypes
  <2>2. ASSUME NEW j \in Clicks
        PROVE  ClickOK(j)'
    BY <1>0, <1>5 DEF Audit, Goto, CommandTypes, ClickOK, AuditLine
  <2> QED
    BY <2>1, <2>2, CommandParts DEF CommandInv, CommandTypes, ClickOK
<1>6. CASE Engine(k)
  <2>1. CommandTypes' /\ UNCHANGED deployment
    BY <1>0, <1>6 DEF Engine, CommandTypes
  <2>2. ASSUME NEW j \in Clicks
        PROVE  ClickOK(j)'
    BY <1>0, <1>6 DEF Engine, CommandTypes, ClickOK, AuditLine
  <2> QED
    BY <2>1, <2>2, CommandParts DEF CommandInv, CommandTypes, ClickOK
<1> QED
  BY <1>1, <1>2, <1>3, <1>4, <1>5, <1>6 DEF Handler

LEMMA CommandStutter ==
    ASSUME CommandInv, UNCHANGED commands
    PROVE  CommandInv'
  BY DEF commands, CommandInv, AuditLine

LEMMA DaemonStutter ==
    ASSUME Daemon, UNCHANGED deployment
    PROVE  Daemon'
<1> USE DEF deployment, process, watcher
<1>1. DeploymentTypes' /\ BootInv' /\ LoopInv'
  BY DEF Daemon, DeploymentTypes, BootInv, LoopInv
<1>2. SyncInv'
  BY DEF Daemon, SyncInv, Agrees, Configured
<1> QED
  BY <1>1, <1>2 DEF Daemon

\* A handler that dies with the process leaves no line.
LEMMA CrashStep ==
    ASSUME CommandInv, CrashAll
    PROVE  CommandInv'
<1>1. CommandTypes /\ \A j \in Clicks : ClickOK(j)
  BY CommandParts
<1>2. CommandTypes'
  BY <1>1 DEF CrashAll, CommandTypes
<1>3. ASSUME NEW j \in Clicks
      PROVE  ClickOK(j)'
  BY <1>1 DEF CrashAll, CommandTypes, ClickOK, AuditLine
<1> QED
  BY <1>2, <1>3 DEF CommandInv, CommandTypes, ClickOK

(***************************************************************************)
(* The theorems.                                                           *)
(***************************************************************************)
LEMMA DaemonInit == Init => DaemonInv
<1> SUFFICES ASSUME Init
             PROVE  DaemonInv
  OBVIOUS
<1>1. PICK c \in Configs, t \in Times : file = [cfg |-> c, mtime |-> t]
  BY DEF Init, DeploymentInit
<1>2. /\ proc = "down" /\ boot = {} /\ rt = <<>> /\ lastMod = 0 /\ watch = "idle" /\ seen = 0
      /\ DOMAIN incoming = {} /\ hidden = FALSE
  BY DEF Init, DeploymentInit, None, NoKnobs
<1>3. rt \in Seq(Runtimes) /\ DOMAIN rt = {}
  BY <1>2
<1>4. DeploymentTypes
  BY <1>1, <1>2, <1>3 DEF DeploymentTypes
<1>5. BootInv /\ SyncInv /\ LoopInv
  BY <1>1, <1>2, <1>3 DEF BootInv, SyncInv, LoopInv
<1>6. CommandInv
  BY DEF Init, CommandsInit, CommandInv
<1> QED
  BY <1>4, <1>5, <1>6 DEF DaemonInv

LEMMA DaemonStep == DaemonInv /\ [Next]_vars => DaemonInv'
<1> SUFFICES ASSUME DaemonInv, [Next]_vars
             PROVE  DaemonInv'
  OBVIOUS
<1>0. Daemon /\ CommandInv
  BY DEF DaemonInv, Daemon
<1>q. Daemon' /\ CommandInv' => DaemonInv'
  BY DEF DaemonInv, Daemon
<1>1. CASE (\E c \in Edits, t \in Times : Edit(c, t)) /\ UNCHANGED commands
  BY <1>0, <1>q, <1>1, EditStep, CommandStutter
<1>2. CASE StartUp /\ UNCHANGED commands
  BY <1>0, <1>q, <1>2, LoadStep, WireStep, StopStep, StatStep, CommandStutter
     DEF StartUp, WireRefuses
<1>3. CASE Watcher /\ UNCHANGED commands
  BY <1>0, <1>q, <1>3, WatcherStep, CommandStutter
<1>4. CASE (\E i \in DOMAIN rt : Loop(i)) /\ UNCHANGED commands
  BY <1>0, <1>q, <1>4, LoopsStep, CommandStutter
<1>5. CASE CrashAll
  <2>1. Stop
    BY <1>5 DEF CrashAll, Crash
  <2> QED
    BY <1>0, <1>q, <1>5, <2>1, StopStep, CrashStep
<1>6. CASE \E k \in Clicks : Handler(k) \/ Engine(k)
  BY <1>0, <1>q, <1>6, HandlerStep, DaemonStutter
<1>7. CASE UNCHANGED vars
  BY <1>0, <1>q, <1>7, CommandStutter, DaemonStutter DEF vars
<1> QED
  BY <1>1, <1>2, <1>3, <1>4, <1>5, <1>6, <1>7 DEF Next

\* Whatever the operator writes, and however often the daemon ends, the
\* process, its watcher, its loops and its command handlers stay in step with
\* the file as DaemonInv says (main.go run, monitor.go Reconfigure, commands.go Run).
THEOREM DaemonInvariant == Spec => []DaemonInv
  BY DaemonInit, DaemonStep, PTL DEF Spec

\* Every configuration that validate and run let through gives what run's
\* comments rely on: an SSH runner for whoever probes with it, an Actuator that
\* may restart its targets with a credential of its own, and a row per subject
\* (main.go:193-237), for every configuration and not a list of examples.
THEOREM BootsAreWired == Spec => []BootIsWired
<1>1. DaemonInv => BootIsWired
  <2> SUFFICES ASSUME DaemonInv, proc \in {"wired", "up"}, NEW c \in boot
               PROVE  /\ sshProbes(c) # {} => c.ssh # {}
                      /\ c.harness.mode = "live" =>
                            /\ actuatorOf(c) # None
                            /\ \A a \in actuatorOf(c), s \in DOMAIN c.harness.targets : c.harness.targets[s] \in a.allow
                            /\ \A a \in actuatorOf(c), r \in c.ssh : <<a.ssh.user, a.ssh.secret>> # <<r.user, r.secret>>
                      /\ \A i, j \in DOMAIN subjects(c) :
                            (i # j /\ subjects(c)[i] = subjects(c)[j]) => subjects(c)[i] = "harness"
    BY DEF BootIsWired
  <2>1. c \in Configs \cup Edits /\ Load(c) /\ (c.harness.mode # "off" => c.ssh # {})
    BY DEF DaemonInv, DeploymentTypes, BootInv
  <2> QED
    BY <2>1, AcceptedIsWired
<1> QED
  BY <1>1, DaemonInvariant, PTL

\* A watcher that remembers the file's time runs the file's knobs, with any
\* number of writes at any times and reads that fail, except where the content
\* hides behind that time: written between run's load and its stat, rewritten
\* under the time of a content already read, or not readable at that time
\* (main.go:159, 397, 438, 442-443; monitor.go Reconfigure).
THEOREM KnobsAreTheFiles == Spec => []InSync
<1>1. DaemonInv => InSync
  BY DEF DaemonInv, SyncInv, InSync
<1> QED
  BY <1>1, DaemonInvariant, PTL

\* No loop waits on an old interval without a signal to wake it, although it
\* reads the interval and resets its ticker in two steps (monitor.go:296-300).
THEOREM NoPollIsLost == Spec => []NoLostPoll
<1>1. DaemonInv => NoLostPoll
  BY DEF DaemonInv, LoopInv, NoLostPoll
<1> QED
  BY <1>1, DaemonInvariant, PTL

\* A restart that the engine makes for a button is on an audit line once its
\* handler is done, and no line or answer says ok of a restart that was not
\* made, with any number of clicks and crashes (commands.go Run).
THEOREM RestartsLeaveALine == Spec => []RestartsAreAudited
<1>1. DaemonInv => RestartsAreAudited
  <2> SUFFICES ASSUME DaemonInv, NEW k \in Clicks
               PROVE  /\ (engine[k] # "none" /\ click[k] = "answered") =>
                            \E o \in {"ok", "failed"} : audited[k] = {[target |-> target[k], outcome |-> o]}
                      /\ \A line \in audited[k] : line.outcome = "ok" => engine[k] = "restarted"
                      /\ answer[k] = "ok" => [target |-> target[k], outcome |-> "ok"] \in audited[k]
    BY DEF RestartsAreAudited
  <2>1. CommandTypes /\ ClickOK(k)
    BY CommandParts DEF DaemonInv
  <2>2. audited[k] = IF click[k] = "answered" THEN {AuditLine(k)} ELSE {}
    BY <2>1 DEF ClickOK
  <2>3. outcome[k] \in {"none", "refused", "ok", "failed"} /\ AuditLine(k).outcome = outcome[k]
    BY <2>1 DEF CommandTypes, AuditLine
  <2>4. outcome[k] # "refused" => AuditLine(k) = [target |-> target[k], outcome |-> outcome[k]]
    BY DEF AuditLine
  <2> QED
    BY <2>1, <2>2, <2>3, <2>4 DEF ClickOK
<1> QED
  BY <1>1, DaemonInvariant, PTL
=============================================================================
