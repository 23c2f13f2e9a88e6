# server-assistant: formal model

TLA+ models of server-assistant, a Go daemon that watches the Services of an
Unraid Host, alerts its Operator, diagnoses an incident and restarts a container
once the Operator has approved it, keeps a history of disks and shares, offers
tools to a language model over MCP, and runs scripts that were dry-run and
approved. The modules are translated from the Go source; TLC checks them on small
instances, and TLAPS proves the safety results of all parts, two refinements
among them, for every value of the constants.

## The system

| part | state | operations | hard parts |
|---|---|---|---|
| core (`internal/core`) | a debouncer per subject | `DeriveStatus`, `Observe` | boundary of the streak, replacement in mid-streak |
| probers (`internal/prober`) | none | one Probe | telling "down" from "can't tell" |
| monitoring spine (`internal/monitor/monitor.go`) | debouncers, views, the reachability gate, stored Statuses | a poll loop per Service, one for the Host, `Resume`, `Reconfigure` | a gate read before a Probe and trusted after it, loops that overwrite each other's views, crash between write and Alert |
| SSE hub and dashboard (`monitor/hub.go`, `internal/web`) | subscribers with a bounded channel, open tabs | subscribe, broadcast, paint, receive | views dropped, overtaken, or pushed before the first paint |
| harness (`internal/harness`) | the active cycle, cooldowns, last UPs, the halt; the `harness_cycles` table | `ObserveCommit`, `runCycle`, `Approve`, `Deny`, `Halt`, `Rearm`, `Reconcile` | timers racing requests, records written out of order, crashes around a side effect |
| script registry (`internal/scripts`) | proposals, scripts, grants, audit log; the probed capability | propose, edit, approve, deny, expire, execute, grants | read-modify-write without a lock, several writes per operation |
| sampler and trends (`internal/sampler`, `mcp/tools_trends.go`) | `metric_samples` | sample, prune, trend | gaps, a transition log, alternating sources |
| Unraid collectors (`internal/unraid`) | none | array, shares, SMART, restart | fallback between sources |
| config and composition root (`internal/config`, `cmd/server-assistant`) | the boot configuration, the knobs, the file's last time | load, wire, watch, reload | a file that changes between stat and load, times that repeat, a read that fails, a lost wake-up |
| command catalog (`internal/commands`) | commands in progress | run | a deadline racing the engine |
| MCP server and shim (`internal/mcp`, `cmd/sa-mcp-shim`) | requests in flight | dispatch, relay | a request that outlives its caller, two ends that must agree on who is owed a reply |
| store (`internal/store`) | SQLite tables | save, list, prune | failing writes |
| reasoner, actuator, notifier | none, or connections | one call each | errors and timeouts |

How they interact. A poll loop probes, debounces and commits a Status, stores
it, alerts the Operator, pushes the view to the hub and hands the commit to its
sink. The sink is `Harness.ObserveCommit`: a DOWN of a mapped Service opens an
incident, whose goroutine asks the Reasoner, then the Operator (through the
dashboard's HTTP handlers), then calls the Actuator, and is judged by the next
UP the spine commits. The sampler reads the same collectors as the MCP tools and
writes the table the trend tool reads. A model reaches `Registry.Propose` through
the shim and the MCP server; the Operator decides in the dashboard. The Store is
all that survives a crash. At start-up the configuration is loaded once, parts
are wired from it, `Reconcile` runs before `Resume`, and both before the loops;
afterwards only thresholds, intervals and debounce counts follow the file.

## Modules

| module | content | uses |
|---|---|---|
| `Debounce`, `Debouncer`, `DebouncerProofs` | `DeriveStatus` and the debouncer as operators; one debouncer against its reference definition; the proof of it | |
| `Probers` | what each Prober makes of an answer | `Debounce` |
| `Monitor`, `MonitorProperties`, `MonitorProofs` | the spine: both loops, the gate, `Resume`, `Reconfigure`, faults; its properties and their proofs | `Debounce` |
| `Dashboard`, `DashboardProofs` | views, hub, SSE streams and tabs; proofs | |
| `Harness`, `OperatorGate`, `HarnessProperties`, `HarnessProofs` | the incident engine, what it promises in four variables, its properties and their proofs | |
| `DryRun` | the dry run's evidence and predicate, the result of a real run | |
| `ScriptRegistry`, `HashGate`, `RegistryProperties`, `RegistryProofs` | the registry statement by statement, what it promises in three variables, its properties and their proofs | `DryRun` |
| `UnraidSource` | the collectors as operators on answers | |
| `Sampler`, `SamplerProofs` | the sampler's cycle, its table and the trend tool; proofs | `UnraidSource` |
| `Config` | what a configuration must satisfy, and its knobs | |
| `Deployment` | start-up, the watcher and the poll loops' tickers | `Config` |
| `Commands`, `DeploymentProofs` | the operator commands on a running daemon; the proofs about both | `Deployment` |
| `McpServer` | how one MCP request is answered | |
| `McpRelay`, `RelayProofs` | the shim, the server and the lines between them; proofs | `McpServer` |
| `MC...` | small instances | |

Definitions marked *Mutation* are plausible bugs; each replaces the definition
that follows it to show that a property notices.

### Harness and the code

A step is one critical section of `Harness.mu`, one Store write, one channel
operation or one outside call, so every interleaving the Go scheduler can
produce between these is a behaviour. `pc[c]` is the position of the `runCycle`
goroutine of cycle `c`; `cycle[c]` its local `HarnessCycle`, reduced to the
fields the engine branches on; `stored[c]` its row. `awaitingOutcome` is not a
variable: it is true exactly on the steps in `Listening`. `state.cycle`, which
`decide` writes back, equals the goroutine's local cycle as long as the question
is open, so it is not kept twice.

| action | code |
|---|---|
| `Commit`, `ObserveCommit` | the hand-over in `probeOnce`; `ObserveCommit` with its early returns in `Triggers` |
| `PersistStep`, `PersistAlreadyUp` | the `h.persist` calls of `runCycle`, each of which may fail |
| `Diagnose` | sweep, Reasoner or runbook, `validateProposal`, and the branch that closes without an Operator |
| `AskOperator` | the flag is set before the Pending record is written |
| `ReceiveDecision`, `ApprovalTimeout`, `ExpireApproval` | the select; the timer fires before the lock is taken |
| `Dispatch`, `StartWatch`, `AwaitOutcome`, `Resolve`, `EnterCooldown`, `Return` | the rest of `runCycle` |
| `CheckIncident`, `RefuseDecision`, `DecideUnsaved`, `Decide`, `SendDecision` | the HTTP handler, then `decide` up to its unlock, then its send |
| `Halt`, `Rearm` | the two handlers |
| `Crash`, `ReconcileRow`, `StartSpine` | everything but the table is lost; `Reconcile`; the spine starts |

Time is reduced to what the code compares: the `ChangedAt` of an UP against the
`ApprovedAt` of the cycle. A commit is `fresh` if it was stamped after the last
recorded decision and `old` otherwise; recording a decision ages every stamp.
Timers may fire at any moment. History variables: `acked` (the decision `decide`
returned nil for), `fired` (Actuator calls), `upSeen` (the best UP delivered
since the approval).

### Monitor, Probers, Dashboard and the code

`at[x]` is the position of a subject's poll goroutine, `job[x]` the Status it
holds, `health[x]` the answer a Probe would get now; a Service behind an
unreachable Host answers DOWN. The answers of the instances are values of the
operators in `Probers`: an error of a Prober is the fault `probe`. `blinding`
holds the Services whose view the Host loop has still to overwrite.
`observeService` and the `setView` after it are one step there, since nobody
reads both in between. The streak stops at n: only `streak >= n` is ever asked of
it. A missing row of the table is UNKNOWN, which `Resume` treats alike. `lost[x]`
records that a write, a delivery or a crash came between a commit and its Alert,
so that `NoReAlert` can say when it promises something.

`Dashboard` looks at the other half of the same loops: `setView` and `broadcast`
are two steps, a tab loads the page, subscribes, paints a Snapshot and then
receives from a channel of `Buffer` views. What a poll commits is any Status.
`missed[t]` records the rows whose last push tab `t` did not get or whose last
push had been overwritten.

### DryRun, ScriptRegistry and the code

An operation of the registry is a caller with its own copy of a row
(`calls[c]`), which moves through the statements of `transition` (`UpdateRow`,
`AppendAudit`) and back: `Continue` says what follows a completed transition.
`handleAPIProposalDecision` is the handler's look before the decision. `cap` is
the executor's once-probed capability. `dryOK`, `approvals` and `ran` record the
clean dry runs, approvals and runs of a text for a proposal; they are the state
of `HashGate`, so `ImplementsHashGate` is a refinement with the identity for its
mapping. A script's text stands for its hash. `Execute`, `Expire`, `Edit`,
`IssueGrant` and `CheckGrant` are exported and tested, and nothing in the daemon
calls them yet; the model treats them as callable.

### UnraidSource, Sampler and the code

One cycle is `StartCycle`, `ReadArray`, `sampleArrayState`, one `sampleDisk` per
slot, `SampleShares`, `PruneMetricSamples`; every row is a statement that may
fail, and a crash may end the cycle anywhere. `unstored` records the rows of this
cycle that failed. The reader is not a process: the property asks the trend
operator for every window in every state. Clocks do not go backwards and devices
keep their names. `DELETE ... WHERE at < cutoff` drops a prefix of each series
(`Since`), because the rows are in the order of their times: `OldestFirst` is part
of the invariant, and the lemma `PruneIsExact` says that what is dropped are
exactly the rows before the cutoff. A trend picks its points by their places in
the series (the first and the last good reading), as the loop of
`trendSummaryView` does.

### Config, Deployment, Commands and the code

A configuration is a record whose optional sections are sets of at most one
element; everything `validate` checks across sections is spelled out, and knobs
that only have a range are the flag `limits`. `Deployment` splits start-up at the
points between which the file can change (`LoadConfig`, `Wire`, `Stat`), the
watcher at its stat, load and apply, and a poll loop at reading the interval and
setting the ticker. The file's time is any member of `Times`, chosen at each
write: it may repeat, stay or go back, and the code only asks whether it equals
the one it remembers (`main.go:438`). `ReadFails` is an `os.ReadFile` that fails
(`config.go:243-246`) after the watcher saw a new time, which it then remembers
(`main.go:442-443`). `hidden` records that the file's content goes with a time the
daemon took, or is about to take, without having read that content; it is what
`InSync` and `KnobsSettle` exempt, and nothing else is.
`Commands` adds clicks: `engine[k]` is the Docker engine's side of a restart,
which goes on when the caller has given up.

### McpServer, McpRelay and the code

A message is reduced to what either end branches on. `refusals` are the answers
given before dispatch, in the order of the code's checks; `dispatch` gives the
set of possible bodies. In `McpRelay` a scanner goroutine, the relay loop and the
server run concurrently; the server may hang, crash and restart, and finishes a
request whose caller timed out.

## Runs

| run | checks | instance |
|---|---|---|
| `harness_live` | approval before dispatch, one decision, record and answers agree, recovery judged by the own subject | 2 mapped Services, 1 cycle, 2 requests, 1 failed write, 1 crash |
| `harness_crash` | single flight, one dispatch, no orphaned Pending row, final rows, refinement of `OperatorGate`, the inductive invariant | 2 cycles, 1 request, 2 crashes |
| `harness_fair` | every incident ends, every Pending row is resolved, at the latest by the next start | 1 cycle, 2 requests, 1 failed write, 2 crashes, with fairness |
| `debouncer` | the debouncer against its definition | n in 0..3, 7 results between replacements |
| `monitor_writes` | no repeated Alert, the sink hears only what is stored | 1 Service with all answers, n in {0, 1, 2}, one fault of each kind, 2 crashes |
| `monitor_fair` | the inductive invariant, at most one result past a closed gate, blind views end UNKNOWN, a settled Service is committed | Service and Host, n in {1, 2}, one failed Probe, one crash, one reconfiguration, with fairness |
| `dashboard` | a tab that missed nothing is current; a tab that missed something catches up; the inductive invariant | a Service and the Host, 1 tab with a channel of 2 views, with fairness |
| `registry` | refinement of `HashGate`; transient states have an owner; every state is audited or known to be lost; revoked grants; grants need an approval; the inductive invariant | 2 callers, 4 calls, 2 texts, 1 proposal, 1 grant, one failed statement, one cancelled probe, one crash |
| `sampler` | the transition log, no false decline, every disk has a row, the inductive invariant | a disk, an empty slot, the boot device, a share, 3 cycles, retention 1, one fault |
| `deployment` | what boots is wired, a file whose time is remembered is applied unless it hides, no lost wake-up, restarts are audited, knobs settle | the sections alone and with the sections they are checked against, valid and not, 2 edits of 4 kinds at 2 times, failing reads, 1 crash, 1 click, with fairness |
| `mcp` | one reply, true replies, no line stuck | 2 lines of 16 kinds, 1 crash, with fairness |

Where the inductive invariant of a proof is a property of a run (`IInv`,
`MonitorInv`, `TabInv`, `RegistryInv`, `SamplerInv`), TLC evaluates on the instance
the very definition that TLAPS shows every step to keep. These contain the type
invariants.

Bounds. `CycleIds` bounds the incidents (a DOWN that would need one more is not
observed), `Requests`, `Callers`, `Clicks` and `Tabs` the concurrent requests,
`MaxCalls`, `MaxEdits`, `MaxLines`, `MaxCycles` and `MaxProbes` the length of a
behaviour, and the other `Max...` constants the faults. Two incidents show
everything one can leave behind for the next; two requests or callers every race
for one decision; two crashes a crash during recovery from a crash; four calls a
proposal that is approved, executed and edited or decided again at the same time;
three cycles a value, a gap and a value with a prune between them; two edits a
rejected file followed by a good one, a change between stat and load, or an
interval that changes again while the signal of the first change waits; two times
a write that shows, one that hides and a return to an earlier time; two
lines one that holds up another. Symmetry is used for cycle ids, requests and
callers, and not in the runs with liveness. `CHECK_DEADLOCK FALSE` is set where
the bounds end every behaviour or the system may stop (the shim exits, the
calls are used up).

Fairness. `runCycle` is weakly fair: each of its waits has a timer and each of
its calls a context with a deadline. A handler that recorded a decision sends it.
Poll loops and the watcher are weakly fair: they are driven by tickers. The
watcher's fairness is of the goroutine, not of its reads: a changed file may always
be one it fails to read, and a failed stat is a later tick. A tab's
stream is: the handler loops on its channel. `Reconcile` and `Resume` are: the
daemon is supervised, and a `Reconcile` whose write fails ends the process, so
this assumes a start whose writes succeed. The shim's two goroutines are, and its request has its own
deadline. Nothing is assumed of the Operator, of the Services, of the cooldown,
of the Docker engine or of the MCP server.

### Statements the code does not keep

`harness_ack_expired` checks one sentence of a comment, and TLC finds a behaviour
that breaks it: the approval timer fires; an Approve takes the lock first, is
stored and acknowledged; the cycle is then recorded as expired.

These were found while modelling and have no run of their own:

* an Approve lands between opening the question and writing the Pending record,
  which overwrites it; after the dispatch the process dies, and `Reconcile`
  records that nothing was dispatched (`AskOperator`, `ReconcileRow`, against
  `core/harness.go:133`);
* a crash right after `decide` stored its decision leaves a row without outcome
  that `Reconcile` does not match (against `harness.go:119`);
* an UP measured before the approval and handed over late counts as the recovery
  (`AwaitOutcome`, against `core/harness.go:135`); a restart lifts the halt
  (`Crash`, against ADR 0020);
* the Host fails, its Services are polled n times before the next Host Probe and
  commit DOWN (against `monitor.go:314-316`); a Probe that passed the gate check
  moves the debouncer after the gate closed, which `OneBlindResult` bounds to one
  result (against `monitor.go:397`); the Service loops start behind the default
  open gate when the first Host Probe errs (`HostProbeFails`, against
  `monitor.go:258`);
* a Service's push that was overtaken by the Host loop's UNKNOWN stays in the tab
  while the gate is closed, since a blind poll pushes nothing for a row that is
  UNKNOWN already (`PollBlind`, against `monitor.go:355-356`);
* of two overlapping decisions on one proposal both may succeed, the second
  overwriting the first, so that a stored denial becomes an approval (`UpdateRow`
  on a copy, against `domain.go:106`: "a destination not listed under it, is not
  reachable"); `Edit` is refused from `proposed`, `dry_run_ok` and
  `running` (`transitions`, against `registry.go:166-168`), so a proposal that a
  crash left there stays there;
* a violation whose target holds a blank, or one behind an over-long line, is not
  seen by the predicate (`parseTranscript`); `ImplementsHashGate` is therefore
  checked for `Readable` evidence;
* the command allowlist is the one of the start, not the current file's
  (`Catalog`, against `commands.go:93-98`);
* a valid file that stays is never applied if it was written between load and stat,
  rewritten under the time of the content read before, or could not be read at the
  one tick that saw its time (`Hides`, `ReadFails`, against
  `docs/issues/0008-per-service-config-and-hot-reload.md:6`: "hot-reload the config
  file on change");
* a DOWN committed under a halt and handed over after `Rearm` opens an incident
  (`Commit`, `Rearm`, `ObserveCommit`): the halt is read at the hand-over;
* a Service or a Host may be called `harness` (`BootIsWired`); a reload accepts a
  file that a start would refuse (`Wire`).

Smaller facts that the definitions show: smartctl's bit 1 also means that a
device could not be opened, and the bits of a failing disk turn its reading into
a gap (`runSmartctl`); a malformed size is sampled as zero (`kibField`); pruning
may delete the only row of the state log; a script that exits with 97 or 98 is
taken for a failed guard (`RunResult`); a line over the shim's cap ends the shim
(`Scan`); the Reasoner may propose another mapped Service than the one that is
down (`Diagnose`).

## Proofs

Every safety invariant, action property and refinement that a passing run checks
is also a theorem, for all values of the constants: any number of Services, tabs,
callers, texts, lines, slots and clicks, and any number of faults and crashes.
Each proof follows one pattern: the property is not inductive, an invariant that
is one is stated beside it, one lemma per part shows that every action keeps it,
and the property follows. The assumptions named below are in the modules that
declare the constants.

### HarnessProofs

`InductiveInvariant`, and from it `TypeCorrect`, `SingleFlightHolds`,
`OperatorGateHolds`, `DispatchOnce`, `RecoveryHolds`, `NoOrphans`,
`DecisionsAreOnRecord`; the action properties `DecisionOnce` and `FinalRows`; and
`GateRefinement`: the engine implements `OperatorGate`. The theorems hold for all three modes; the runs
are in live mode.

That only an approved incident reaches the Actuator needs to know that what
travels in `decisionCh` is what was recorded, that a request about to send holds
the recorded decision, and that the question is open only while nothing was
recorded: `QuestionInv`. That the dispatch happens once needs the positions at
which it cannot have happened yet: `DispatchInv`. `RecoveredSawUp` needs every
place a recovery can be read from (the channel, `lastUp`, the local cycle):
`RecoveryInv`. Final rows need that a resolved outcome is stored only on the last
steps: `RowInv`. `NoOrphanPending` needs that a cycle comes to its last write with
a resolved outcome, and that a row whose goroutine is past that write is settled
as long as no write failed: `SettledInv`. `DecisionOnRecord` needs, besides, that
the copies of a decision (the row and the goroutine's cycle) are Pending, Expired
or the recorded answer, and that the cycle's copy is Pending for as long as the
question may be open: `RecordInv`. All rest on `FlightInv`, which ties
positions to `active`. `IInv` is their conjunction with the types.

Assumptions: `Targets` maps Services only, `None` is neither a cycle id nor a
container, the mode is one of the three, the bounds are natural numbers.

### RegistryProofs

`RegistryTypes`, `RegistryInvariant`, `GrantIsBacked`, `RevocationHolds`,
`AuditIsComplete`, `PassingStatesAreOwned`, and `RegistryRefinesHashGate`: the
registry implements `HashGate`.

Operations read a row, decide on their copy and write it back without a lock, so
the truth has to be carried by the copies. `ShapeInv` says that rows and copies
keep their shape, that what an operation refers to is not deleted and that a
revoked grant stays revoked; `TruthInv`, that a row or a copy in a state from
`dry_run_ok` on has a clean dry run of its text behind it, and one from `approved`
on an approval, except for the copy that `Edit` is about to write back as
`proposed`. An overlapping write may replace a newer state by an older one, but
never by one its text has not earned: the refinement survives the races that
*Statements the code does not keep* lists.

`RegistryInvariant`, `GrantIsBacked` and `RegistryRefinesHashGate` have the
hypothesis `EvidenceIsReadable`, because the predicate does let a script pass
whose violation it cannot read (`predicate.go:48`); the others hold without it.
Other assumptions: `RegistryAssumption` and `NoneIsNoRow` (`None` is not a row, a
grant, an id or a text; the evidence has its type; the bounds are natural
numbers).

### MonitorProofs and DebouncerProofs

`MonitorInvariant`, `AlertsAreNotRepeated`, `SinkAgreesWithStore` and
`BlindResultsAreBounded`. `CommitInv` says, for each position of a loop, how far
the commit in hand has got: before the write the table still has what was
alerted, after it the table has the commit, and the debouncer has it all along.
`NoReAlert` alone does not survive a crash between write and Alert, nor a new
debouncer; `CommitInv` does, as long as `lost` is false. `BlindInv` says that the
count of results past the gate is zero as long as a Probe is on its way or the
gate is open. `MonitorInv` is both with the types.

`StreakInvariant` and `CommitIsTheLastStable`: for every n and every history of
results, the committed Status is that of the last window of n equal results.
`StreakInv` says what candidate and streak encode: the streak is the run at the
end of the history, up to n, and the result before it differs when it is shorter
than n. `ProbeWindow` shows that one more result keeps this, `ProbeStep` that the
largest stable index moves exactly when the streak reaches n.

Assumptions: at most one Host, which is not a Service; knobs are natural numbers
(0 is what `NewDebouncer` clamps to 1); answers are those of the `Probers`.

### DashboardProofs

`TabInvariant` and `TabsAreCurrent`. Whether a tab is current depends on what is
still in its channel: `TabInv` says that the last queued view of a row is what the
Monitor shows, or, with none queued, that the tab shows it already, unless a push
is still to come or is known to have been missed. The lemmas `LastOfAppend` and
`LastOfTail` say what a broadcast and a receive do to "the last view of a row".

Assumptions: the Services are finitely many (the Host loop goes through them in
some order), the Host is none of them, a channel has room for a view.

### SamplerProofs

`SamplerInvariant`, `LogHoldsTransitions`, `DisksAreAccounted` and
`NoDeclineIsInvented`. `OldestFirst` keeps a series in the order of its times
(`PruneIsExact` rests on it); `CountersGrow` says that the good readings of a
counter grow along its series, up to the present count, which survives gaps, lost
rows and prunes; `CycleInv` says which listed disks a cycle has behind it. For the
trend, `LeastOf` and `GreatestOf` give the first and the last good reading of a
window, from the well-foundedness of the natural numbers.

Assumption: `SamplerAssumption` (there is an array state, temperatures are
integers but for the mark of a missing one, a counter belongs to a listed device,
capacity fields and bounds are natural numbers).

### DeploymentProofs

About `Deployment` and `Commands` together: `DaemonInvariant`, `BootsAreWired`,
`KnobsAreTheFiles`, `NoPollIsLost`, `RestartsLeaveALine`. `AcceptedIsWired` shows
that what `validate` and `run` accept satisfies `BootIsWired`, check by check;
`BootInv` carries it from the load to the end of the process. `SyncInv` says what
the watcher has in hand at each of its steps, and that a content can hide only
behind the time that is, or is about to be, remembered: it knows nothing of an
order of times. `KnobsAreTheFiles` is what is left of "the knobs are the file's"
when `hidden` takes out the three exceptions of the code. `LoopInv` says that a
loop which holds or waits on an old interval has a signal to come, and
`CommandInv`, that a click's audit line and the engine's side of its restart
agree. `DaemonInv` is all of them with the types.

Assumptions: `ConfigsAssumption` (a configuration lists its Services in a sequence
and has finitely many Hosts) and `TimesAssumption` (a file's time is never the
zero time that the process starts with).

### RelayProofs

`RelayInvariant`, `RepliesAreTruthful` and `EveryLineAnsweredOnce`. `QueueInv`
says that a line is with the scanner, in the relay loop or handled, never two of
them; `ServerOK`, `ResponseOK` and `StdoutOK` follow a line through the server,
the response and the reply and say at each point how many proposals it has
stored. A request that outlives its caller is why `ServerOK` speaks of handled
lines too: the proposal of a line that got the shim's own error may still be
stored, once. Assumption: the bounds are natural numbers.

### Only model-checked

Liveness: `CycleTerminates`, `PendingIsResolved`, `BlindShowsUnknown`,
`SettledIsCommitted`, `TabCatchesUp`, `KnobsSettle`, `EveryLineHandled`. Proofs
under fairness need `ENABLED`, which the prover does not handle. `Probers` and
`UnraidSource` have no theorem of their own: they are tables of answers, and the
proofs use only the sets their values lie in.


## Not modelled

Prompt text, tool output, page rendering, YAML, field-by-field parsing of Unraid
data, /proc readings, the reachability self-check, the ssh and HTTP transports,
retention of probe samples, the text and detail views of trends, the scrubbing
of secrets and the extraction of the Reasoner's reply: text processing or I/O on
which no state of the modelled parts depends beyond success and failure. The
1000-row limit of `Reconcile` is not modelled: an interrupted cycle is among the
newest rows. `Monitor` and `Harness` are not composed into one state space: each has around a
million states or more at the bounds that make it interesting. `Harness` takes
any sequence of commits instead, which includes those of `Monitor`. The Host of
the liveness run is UP or DOWN; the third Status of a host-metrics Probe leaves
the gate open as UP does.

## Plan

What the proofs so far leave open, in the order of its worth:

1. Action properties that follow from the invariants at hand: a revoked grant is
   never restored, an audit line is never taken back, a reply once written stays,
   a stored proposal is stored once.
2. Abstract specifications for the relay (a line is answered or not, a proposal
   stored or not) and for the spine's commits (a log of Statuses, each stored
   before it is heard), and the refinements of both.
3. What the liveness runs rest on and safety can say: in every state of an
   incident some step of its goroutine or a timer is possible, stated without
   `ENABLED` as a condition on the positions.
4. The composition of the spine with the engine as a theorem: the commits that
   `Monitor` hands over are commits `Harness` accepts.
