----------------------------- MODULE Deployment -----------------------------
(***************************************************************************)
(* The daemon's life around its config file: run of                        *)
(* cmd/server-assistant/main.go, which loads the file, wires the parts,    *)
(* takes the file's modification time and starts the loops; the watcher    *)
(* goroutine that reloads the knobs when that time changes; and the poll   *)
(* loops of internal/monitor/monitor.go, which must notice a new interval  *)
(* while they wait for the old one.                                        *)
(*                                                                         *)
(* Only threshold, interval and debounce count are reloaded, so the        *)
(* interval and the count stand for the knobs.  A write that an editor     *)
(* makes in two steps is two edits, the first of a truncated file.         *)
(*                                                                         *)
(* The file's time is whatever the file system says: two writes within a   *)
(* tick share one, and a restored copy brings an older one with it.  Of    *)
(* times the code only asks whether they are equal.                        *)
(***************************************************************************)
EXTENDS Config

CONSTANTS
    Configs,    \* what the file may hold before the first boot
    Edits,      \* what the operator may write later, broken files included
    Times,      \* the modification times a write may leave; 0 is time.Time's zero
    MaxEdits,   \* bound on the writes of the file
    MaxCrashes  \* bound on the ends of the process

ServiceSection == [name : STRING, kinds : SUBSET STRING, poll : SUBSET Int, n : Int]

ASSUME ConfigsAssumption ==
    \A c \in Configs \cup Edits : c.services \in Seq(ServiceSection) /\ IsFiniteSet(c.host)

ASSUME TimesAssumption == Times \subseteq Nat \ {0} /\ MaxEdits \in Nat

VARIABLES
    file,      \* the config file: [cfg, mtime]
    proc,      \* "down", "loaded", "wired" or "up"
    boot,      \* the configuration the process loaded at start
    rt,        \* Monitor.svcs: the knobs of each Service and its loop
    lastMod,   \* lastConfigMod
    watch,     \* the watcher: "idle", "changed" or "loaded"
    seen,      \* the modification time it read
    incoming,  \* the knobs it read
    edits,     \* writes of the file so far
    crashes,   \* ends of the process so far
    hidden     \* history: the file's content goes with a time the daemon took
               \* without having read it

watcher == <<lastMod, watch, seen, incoming>>
process == <<proc, boot, rt, watcher, hidden>>
deployment == <<file, edits, process, crashes>>

None == {}
NoKnobs == [x \in {} |-> x]

DeploymentInit ==
    /\ \E c \in Configs, t \in Times : file = [cfg |-> c, mtime |-> t]
    /\ proc = "down"
    /\ boot = None
    /\ rt = <<>>
    /\ lastMod = 0 /\ watch = "idle" /\ seen = 0 /\ incoming = NoKnobs
    /\ edits = 0 /\ crashes = 0
    /\ hidden = FALSE

\* A write at time t goes unnoticed: the process has loaded the file and not
\* yet taken its time, or it remembers, or is about to, the time t of a
\* content it read before.
Hides(t) ==
    \/ proc \in {"loaded", "wired"}
    \/ proc = "up" /\ watch = "idle" /\ t = lastMod
    \/ proc = "up" /\ watch = "loaded" /\ t = seen

\* The operator saves the file or puts another in its place.
Edit(c, t) ==
    /\ edits < MaxEdits
    /\ edits' = edits + 1
    /\ file' = [cfg |-> c, mtime |-> t]
    /\ hidden' = Hides(t)
    /\ UNCHANGED <<proc, boot, rt, watcher, crashes>>
-----------------------------------------------------------------------------
(***************************************************************************)
(* Start-up.                                                               *)
(***************************************************************************)
proberOf(s) ==
    CASE "container" \in s.kinds -> "container"
      [] "tcp" \in s.kinds /\ "container" \notin s.kinds -> "tcp"
      [] OTHER -> "http"

\* The parts run builds: who probes over SSH, and what the Actuator may do.
sshProbes(c) ==
    {c.services[i].name : i \in {j \in DOMAIN c.services : proberOf(c.services[j]) = "container"}}
        \cup {h.name : h \in {k \in c.host : k.metrics}}
        \cup (IF c.harness.mode = "off" THEN {} ELSE {"harness"})
actuatorOf(c) ==
    IF c.harness.mode = "off" THEN None ELSE {[ssh |-> w, allow |-> c.harness.allow] : w \in c.harness.write}
subjects(c) ==
    [i \in DOMAIN c.services |-> c.services[i].name]
        \o (IF c.harness.mode = "off" THEN <<>> ELSE <<"harness">>)
        \o SetToSeq({h.name : h \in c.host})

Runtime(name, k) ==
    [name |-> name, n |-> k.n, poll |-> k.poll,
     ticker |-> 0, signal |-> FALSE, at |-> "new", hand |-> 0]
harnessProbePoll == 60
harnessKnob == [n |-> 2, poll |-> harnessProbePoll]

\* A file that cannot be read or is refused leaves the process down.
LoadConfig ==
    /\ proc = "down"
    /\ Load(file.cfg)
    /\ proc' = "loaded"
    /\ boot' = {file.cfg}
    /\ hidden' = FALSE
    /\ UNCHANGED <<file, edits, rt, watcher, crashes>>

Stop ==
    /\ proc' = "down"
    /\ boot' = None
    /\ rt' = <<>>
    /\ lastMod' = 0 /\ watch' = "idle" /\ seen' = 0 /\ incoming' = NoKnobs
    /\ hidden' = FALSE
    /\ UNCHANGED <<file, edits>>

\* The diagnosis tools of the Harness need the ssh block; validate does not
\* ask for it, run does.  The Harness is monitored after the Services.
Wire ==
    /\ proc = "loaded"
    /\ \E c \in boot :
          /\ c.harness.mode # "off" => c.ssh # {}
          /\ rt' = [i \in DOMAIN c.services |-> Runtime(c.services[i].name, Knob(c.services[i]))]
                       \o (IF c.harness.mode = "off" THEN <<>> ELSE <<Runtime("harness", harnessKnob)>>)
    /\ proc' = "wired"
    /\ UNCHANGED <<file, boot, watcher, edits, crashes, hidden>>

WireRefuses ==
    /\ proc = "loaded"
    /\ \E c \in boot : c.harness.mode # "off" /\ c.ssh = {}
    /\ Stop
    /\ UNCHANGED crashes

\* The file's time is taken when everything is wired; a stat that fails
\* leaves the zero time, which differs from every file's.
Stat ==
    /\ proc = "wired"
    /\ proc' = "up"
    /\ lastMod' \in {0, file.mtime}
    /\ hidden' = (hidden /\ lastMod' = file.mtime)
    /\ UNCHANGED <<file, boot, rt, watch, seen, incoming, edits, crashes>>

\* A signal, an error of an opened part or a crash ends the process.
Crash ==
    /\ proc # "down"
    /\ crashes < MaxCrashes
    /\ crashes' = crashes + 1
    /\ Stop
-----------------------------------------------------------------------------
(***************************************************************************)
(* The watcher.                                                            *)
(***************************************************************************)
\* A stat that fails, or finds the time it remembers, changes nothing.
Tick ==
    /\ proc = "up"
    /\ watch = "idle"
    /\ file.mtime # lastMod
    /\ watch' = "changed"
    /\ seen' = file.mtime
    /\ UNCHANGED <<file, proc, boot, rt, lastMod, incoming, edits, crashes, hidden>>

\* Mutation: the watcher returns when it rejects a file.
ReloadStops ==
    /\ watch = "changed"
    /\ IF Load(file.cfg)
       THEN watch' = "loaded" /\ incoming' = reloadKnobs(file.cfg) /\ UNCHANGED lastMod
       ELSE watch' = "stopped" /\ lastMod' = seen /\ UNCHANGED incoming
    /\ UNCHANGED <<file, proc, boot, rt, seen, edits, crashes, hidden>>

\* A file that is refused is not tried again until its time changes.
Reload ==
    /\ watch = "changed"
    /\ IF Load(file.cfg)
       THEN watch' = "loaded" /\ incoming' = reloadKnobs(file.cfg) /\ UNCHANGED lastMod
       ELSE watch' = "idle" /\ lastMod' = seen /\ UNCHANGED incoming
    /\ UNCHANGED <<file, proc, boot, rt, seen, edits, crashes, hidden>>

\* os.ReadFile fails: the time is remembered all the same.
ReadFails ==
    /\ watch = "changed"
    /\ watch' = "idle"
    /\ lastMod' = seen
    /\ hidden' = (file.mtime = seen)
    /\ UNCHANGED <<file, proc, boot, rt, seen, incoming, edits, crashes>>

\* Mutation: the loops take the signal only if they happen to wait for it.
reconfigureUnbuffered(r, k) ==
    [r EXCEPT !.n = k.n, !.poll = k.poll,
              !.signal = @ \/ (r.poll # k.poll /\ r.at = "wait")]

\* Reconfigure for one Service; the channel holds one signal.
reconfigure(r, k) ==
    [r EXCEPT !.n = k.n, !.poll = k.poll, !.signal = @ \/ r.poll # k.poll]

\* Mutation: the time is read again after the reload.
ApplyRestats ==
    /\ watch = "loaded"
    /\ rt' = [i \in DOMAIN rt |->
                 IF rt[i].name \in DOMAIN incoming THEN reconfigure(rt[i], incoming[rt[i].name]) ELSE rt[i]]
    /\ watch' = "idle"
    /\ lastMod' = file.mtime
    /\ incoming' = NoKnobs
    /\ UNCHANGED <<file, proc, boot, seen, edits, crashes, hidden>>

\* Services the file added or lost are ignored until a restart.
Apply ==
    /\ watch = "loaded"
    /\ rt' = [i \in DOMAIN rt |->
                 IF rt[i].name \in DOMAIN incoming THEN reconfigure(rt[i], incoming[rt[i].name]) ELSE rt[i]]
    /\ watch' = "idle"
    /\ lastMod' = seen
    /\ incoming' = NoKnobs
    /\ UNCHANGED <<file, proc, boot, seen, edits, crashes, hidden>>
-----------------------------------------------------------------------------
(***************************************************************************)
(* A poll loop and its ticker.  Reading the interval and setting the       *)
(* ticker to it are two steps: Reconfigure may come between them.          *)
(***************************************************************************)
LoopStep(i, from, to) ==
    /\ proc = "up"
    /\ rt[i].at = from
    /\ rt' = [rt EXCEPT ![i] = to]
    /\ UNCHANGED <<file, proc, boot, watcher, edits, crashes, hidden>>

StartLoop(i) == LoopStep(i, "new", [rt[i] EXCEPT !.hand = rt[i].poll, !.at = "reset"])
Probe(i) == LoopStep(i, "wait", [rt[i] EXCEPT !.at = "read"])
Notice(i) == rt[i].signal /\ LoopStep(i, "wait", [rt[i] EXCEPT !.signal = FALSE, !.at = "read"])
ReadPoll(i) == LoopStep(i, "read", [rt[i] EXCEPT !.hand = rt[i].poll, !.at = "reset"])
ResetTicker(i) == LoopStep(i, "reset", [rt[i] EXCEPT !.ticker = rt[i].hand, !.hand = 0, !.at = "wait"])

Watcher == Tick \/ Reload \/ ReadFails \/ Apply
Loop(i) == StartLoop(i) \/ Probe(i) \/ Notice(i) \/ ReadPoll(i) \/ ResetTicker(i)
StartUp == LoadConfig \/ Wire \/ WireRefuses \/ Stat

DeploymentNext ==
    \/ \E c \in Edits, t \in Times : Edit(c, t)
    \/ StartUp
    \/ Watcher
    \/ Crash
    \/ \E i \in DOMAIN rt : Loop(i)
-----------------------------------------------------------------------------
(***************************************************************************)
(* Properties.                                                             *)
(***************************************************************************)
Configured == IF boot = None THEN {} ELSE {i \in DOMAIN rt : \E c \in boot : i <= Len(c.services)}

\* What run's comments take from validate (main.go:193-194, 207, 233-237):
\* whoever probes over SSH has the runner; in live mode the Actuator exists,
\* may restart every target and does not use the reading credential; and no
\* two subjects share a row, except a Service or Host called "harness".
BootIsWired ==
    proc \in {"wired", "up"} => \A c \in boot :
        /\ sshProbes(c) # {} => c.ssh # {}
        /\ c.harness.mode = "live" =>
              /\ actuatorOf(c) # None
              /\ \A a \in actuatorOf(c), s \in DOMAIN c.harness.targets : c.harness.targets[s] \in a.allow
              /\ \A a \in actuatorOf(c), r \in c.ssh : <<a.ssh.user, a.ssh.secret>> # <<r.user, r.secret>>
        /\ \A i, j \in DOMAIN subjects(c) :
              (i # j /\ subjects(c)[i] = subjects(c)[j]) => subjects(c)[i] = "harness"

\* The running knobs of every configured Service are those of cfg.
Agrees(cfg) ==
    \A i \in Configured :
        rt[i].name \in DOMAIN reloadKnobs(cfg) =>
            reloadKnobs(cfg)[rt[i].name] = [n |-> rt[i].n, poll |-> rt[i].poll]

\* The watcher remembers the time the file has: then the running knobs of every
\* configured Service are the file's, whatever was written before, between its
\* stat and its load, or under an older time.  Three exceptions are the code's
\* and are what hidden records: the file was written between run's load and its
\* stat (main.go:159, 397), rewritten under the very time of a content that was
\* read (main.go:438), or could not be read at that time (main.go:442-443).
InSync ==
    (proc = "up" /\ watch = "idle" /\ lastMod = file.mtime /\ Load(file.cfg) /\ ~hidden) =>
        Agrees(file.cfg)

\* A loop that waits on an old interval has a signal to wake it: a shorter
\* interval never has to wait out the longer one (monitor.go:296-300).
NoLostPoll ==
    \A i \in DOMAIN rt :
        (rt[i].at = "wait" /\ rt[i].ticker # rt[i].poll) => rt[i].signal

(***************************************************************************)
(* The parts of the inductive invariant behind them.                       *)
(***************************************************************************)
Knobs == [n : Int, poll : Int]
Runtimes == [name : STRING \cup {"harness"}, n : Int, poll : Int, ticker : Int, signal : BOOLEAN,
             at : {"new", "wait", "read", "reset"}, hand : Int]

DeploymentTypes ==
    /\ file \in [cfg : Configs \cup Edits, mtime : Times] /\ hidden \in BOOLEAN
    /\ proc \in {"down", "loaded", "wired", "up"}
    /\ boot \in SUBSET (Configs \cup Edits) /\ rt \in Seq(Runtimes)
    /\ lastMod \in Nat /\ seen \in Nat /\ watch \in {"idle", "changed", "loaded"}
    /\ \A x \in DOMAIN incoming : incoming[x] \in Knobs

\* What the process was started with passed validate and run's own check, and
\* is what the parts were built from.
BootInv ==
    /\ \A c \in boot : Load(c) /\ boot = {c}
    /\ proc \in {"loaded", "wired"} /\ ~hidden => boot = {file.cfg}
    /\ proc \in {"wired", "up"} => \A c \in boot : c.harness.mode # "off" => c.ssh # {}
    /\ proc = "wired" => \A c \in boot : \A i \in DOMAIN c.services :
          /\ i \in DOMAIN rt /\ rt[i].name = c.services[i].name
          /\ [n |-> rt[i].n, poll |-> rt[i].poll] = Knob(c.services[i])

\* Nothing hides from a load that is still to come, and what hides does so
\* behind the time that is, or will be, remembered.  What was loaded at a time
\* that is still the file's is the file, and once that time is remembered it
\* has been applied.
SyncInv ==
    /\ watch # "idle" => proc = "up"
    /\ hidden /\ proc = "up" =>
          \/ watch = "idle" /\ lastMod = file.mtime
          \/ watch = "loaded" /\ seen = file.mtime
    /\ watch = "loaded" /\ seen = file.mtime /\ ~hidden => incoming = reloadKnobs(file.cfg)
    /\ proc = "up" /\ watch = "idle" /\ lastMod = file.mtime /\ Load(file.cfg) /\ ~hidden =>
          Agrees(file.cfg)

\* A loop that holds or waits on an old interval has a signal to come.
LoopInv ==
    \A i \in DOMAIN rt :
        /\ rt[i].at = "wait" /\ rt[i].ticker # rt[i].poll => rt[i].signal
        /\ rt[i].at = "reset" /\ rt[i].hand # rt[i].poll => rt[i].signal

\* A valid file that stays reaches every knob and every ticker of a daemon
\* that stays up, whatever was written or rejected before and however its time
\* compares with earlier ones.  It may hide from the watcher in the three ways
\* InSync names; then it is never applied.
KnobsSettle ==
    <>[](proc = "up" /\ Load(file.cfg) /\ ~hidden)
        => <>[](\A i \in Configured :
                   rt[i].name \in DOMAIN reloadKnobs(file.cfg) =>
                       reloadKnobs(file.cfg)[rt[i].name] = [n |-> rt[i].n, poll |-> rt[i].ticker])
=============================================================================
