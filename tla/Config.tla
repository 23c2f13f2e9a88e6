------------------------------- MODULE Config -------------------------------
(***************************************************************************)
(* What internal/config/config.go accepts: FileSource.Load parses the      *)
(* file, expands its ${VAR} references and validates every section against *)
(* the others.  All errors are alike (the file is refused), so validation  *)
(* is a predicate; the defaults it fills in are functions.                 *)
(*                                                                         *)
(* A configuration is a record.  An optional section or value is a set of  *)
(* at most one element; durations are numbers of ticks.  Knobs with nothing *)
(* but a range (log lines, ceilings, the Harness timeouts, the history     *)
(* window) are one flag, limits: each is in its range once defaulted.      *)
(***************************************************************************)
EXTENDS Integers, Sequences, FiniteSets, SequencesExt

CONSTANTS
    DashboardNames,  \* names without the characters that break a dashboard row
    ContainerNames   \* names matching containerNameRe

SupportedSchemaVersion == 1

parseDurationDefault(v, def) == IF v = {} THEN def ELSE CHOOSE d \in v : TRUE
IsDuration(v) == \A d \in v : d > 0

DefaultPoll == 30
debounceDefault(n) == IF n = 0 THEN 3 ELSE n

checkDashboardSafeName(name) == name \in DashboardNames

\* Exactly one kind of probe; the empty name is in no set of names.
ServiceResolves(s) ==
    /\ checkDashboardSafeName(s.name)
    /\ Cardinality(s.kinds) = 1
    /\ IsDuration(s.poll)
    /\ debounceDefault(s.n) >= 1

\* A credential is mandatory.
SSHResolves(s) == s.user # "" /\ s.secret # ""

HostResolves(h) ==
    /\ checkDashboardSafeName(h.name)
    /\ IsDuration(h.poll)
    /\ debounceDefault(h.n) >= 1

isLoopbackHost(url) == url = "loopback"

\* What live mode asks for beyond any mode.
LiveResolves(h, readSSH) ==
    /\ \A s \in DOMAIN h.targets : h.targets[s] \in h.allow
    /\ h.write # {}
    /\ \A w \in h.write :
          /\ SSHResolves(w)
          /\ \A r \in readSSH : <<w.user, w.secret>> # <<r.user, r.secret>>

\* Mutation: the live checks are skipped with the egress check.
HarnessResolvesAnyLive(h, names, readSSH) ==
    /\ h.mode \in {"off", "shadow", "live"}
    /\ DOMAIN h.targets \subseteq names
    /\ h.mode # "off" => h.url \in {"loopback", "remote"}

\* Naming and ranges are checked in every mode, the Reasoner's address when
\* the mode is not off, the write path when it is live.
HarnessResolves(h, names, readSSH) ==
    /\ h.mode \in {"off", "shadow", "live"}
    /\ DOMAIN h.targets \subseteq names
    /\ \A s \in DOMAIN h.targets : h.targets[s] \in ContainerNames
    /\ h.allow \subseteq ContainerNames
    /\ h.mode # "off" => h.url # "none" /\ (isLoopbackHost(h.url) <=> ~h.cloud)
    /\ h.mode = "live" => LiveResolves(h, readSSH)

\* Sections made of optional durations.
SamplerResolves(s) == IsDuration(s.interval) /\ IsDuration(s.retention)
ScriptsResolves(s) == \A k \in DOMAIN s : IsDuration(s[k])
UnraidResolves(u) == \A k \in DOMAIN u : IsDuration(u[k])

\* A name ends up in a path of the Docker API.
CommandsResolves(c) == IsDuration(c.timeout) /\ Range(c.allow) \subseteq ContainerNames

resolveSecrets(c) == ~c.unset

validate(c) ==
    LET names == {c.services[i].name : i \in DOMAIN c.services} IN
    /\ c.schema = SupportedSchemaVersion
    /\ \A s \in c.ssh : SSHResolves(s)
    /\ \A i \in DOMAIN c.services :
          /\ ServiceResolves(c.services[i])
          /\ "container" \in c.services[i].kinds => c.ssh # {}
    /\ Cardinality(names) = Len(c.services)
    /\ HarnessResolves(c.harness, names, c.ssh)
    /\ \A h \in c.host :
          /\ HostResolves(h)
          /\ h.name \notin names
          /\ h.metrics => c.ssh # {}
    /\ Cardinality(c.telegram) # 1
    /\ SamplerResolves(c.sampler)
    /\ \A u \in c.unraid : UnraidResolves(u)
    /\ ScriptsResolves(c.scripts)
    /\ CommandsResolves(c.commands)
    /\ c.limits

\* What FileSource.Load makes of a file that it could read and parse.
Load(c) == resolveSecrets(c) /\ validate(c)

\* The per-Service knobs a reload hands to the Monitor (reloadKnobs).
Knob(s) == [n |-> debounceDefault(s.n), poll |-> parseDurationDefault(s.poll, DefaultPoll)]
reloadKnobs(c) ==
    [x \in {c.services[i].name : i \in DOMAIN c.services} |->
        Knob(CHOOSE s \in Range(c.services) : s.name = x)]
=============================================================================
