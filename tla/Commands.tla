------------------------------ MODULE Commands ------------------------------
(***************************************************************************)
(* The operator commands of the dashboard on a running daemon: the handler *)
(* of internal/web/commands.go, the bridge of commands_wiring.go, the      *)
(* closed catalog of internal/commands/commands.go and the Docker client   *)
(* it restarts containers with.                                            *)
(*                                                                         *)
(* The engine works on its own: it may restart a container after the       *)
(* caller gave up on it, or after the daemon ended.                        *)
(***************************************************************************)
EXTENDS Deployment

CONSTANTS
    Clicks,     \* presses of a Run button
    Containers  \* the names a button's id may carry

VARIABLES
    click,      \* a click: "new", "resolve", "docker", "audit", "answered", "lost"
    target,     \* the container its id names
    outcome,    \* what Run has in hand: "none", "refused", "ok" or "failed"
    engine,     \* its request at the Docker engine: "none", "sent", "restarted", "failed"
    audited,    \* the audit line written for it, if any: a set of [target, outcome]
    answer      \* what the browser was told

commands == <<click, target, outcome, engine, audited, answer>>
vars == <<deployment, commands>>

CommandsInit ==
    /\ click = [k \in Clicks |-> "new"]
    /\ target = [k \in Clicks |-> "none"]
    /\ outcome = [k \in Clicks |-> "none"]
    /\ engine = [k \in Clicks |-> "none"]
    /\ audited = [k \in Clicks |-> {}]
    /\ answer = [k \in Clicks |-> "none"]

Goto(k, from, to) == click[k] = from /\ click' = [click EXCEPT ![k] = to]
Hold(k, o) == outcome' = [outcome EXCEPT ![k] = o]

\* The catalog is the one the process was started with.
Catalog == UNION {Range(c.commands.allow) : c \in boot}

\* Without an unraid section there is no route; the id may come from a page
\* that an earlier process rendered.
Click(k) ==
    /\ proc = "up"
    /\ \E c \in boot : c.unraid # {}
    /\ Goto(k, "new", "resolve")
    /\ \E name \in Containers : target' = [target EXCEPT ![k] = name]
    /\ UNCHANGED <<deployment, outcome, engine, audited, answer>>

\* resolveTarget, then the request to the engine.
resolveTarget(k) ==
    /\ click[k] = "resolve"
    /\ IF target[k] \in Catalog
       THEN /\ Goto(k, "resolve", "docker")
            /\ engine' = [engine EXCEPT ![k] = "sent"]
            /\ UNCHANGED outcome
       ELSE /\ Goto(k, "resolve", "audit")
            /\ Hold(k, "refused")
            /\ UNCHANGED engine
    /\ UNCHANGED <<deployment, target, audited, answer>>

\* External: the engine restarts the container or refuses to.
Engine(k) ==
    /\ engine[k] = "sent"
    /\ \E e \in {"restarted", "failed"} : engine' = [engine EXCEPT ![k] = e]
    /\ UNCHANGED <<deployment, click, target, outcome, audited, answer>>

\* Restart returns with the engine's answer ...
Restart(k) ==
    /\ engine[k] \in {"restarted", "failed"}
    /\ Goto(k, "docker", "audit")
    /\ Hold(k, IF engine[k] = "restarted" THEN "ok" ELSE "failed")
    /\ UNCHANGED <<deployment, target, engine, audited, answer>>

\* ... or without it, when commands.timeout passes, the browser disconnects
\* or the socket fails.
GiveUp(k) ==
    /\ Goto(k, "docker", "audit")
    /\ Hold(k, "failed")
    /\ UNCHANGED <<deployment, target, engine, audited, answer>>

\* A refusal is written down without a target.
AuditLine(k) ==
    [target |-> IF outcome[k] = "refused" THEN "none" ELSE target[k], outcome |-> outcome[k]]

\* Mutation: an attempt that failed is not written down.
AuditSuccess(k) ==
    /\ Goto(k, "audit", "answered")
    /\ audited' = IF outcome[k] = "failed" THEN audited
                  ELSE [audited EXCEPT ![k] = @ \cup {AuditLine(k)}]
    /\ answer' = [answer EXCEPT ![k] = IF outcome[k] = "ok" THEN "ok" ELSE "failed"]
    /\ UNCHANGED <<deployment, target, outcome, engine>>

\* audit precedes every return of Run; the handler shows a refusal and a
\* failure alike.
Audit(k) ==
    /\ Goto(k, "audit", "answered")
    /\ audited' = [audited EXCEPT ![k] = @ \cup {AuditLine(k)}]
    /\ answer' = [answer EXCEPT ![k] = IF outcome[k] = "ok" THEN "ok" ELSE "failed"]
    /\ UNCHANGED <<deployment, target, outcome, engine>>

\* The end of the process takes the handlers that run with it.
CrashAll ==
    /\ Crash
    /\ click' = [k \in Clicks |-> IF click[k] \in {"new", "answered"} THEN click[k] ELSE "lost"]
    /\ UNCHANGED <<target, outcome, engine, audited, answer>>

Handler(k) == Click(k) \/ resolveTarget(k) \/ Restart(k) \/ GiveUp(k) \/ Audit(k)

Init == DeploymentInit /\ CommandsInit

Next ==
    \/ (\E c \in Edits, t \in Times : Edit(c, t)) /\ UNCHANGED commands
    \/ StartUp /\ UNCHANGED commands
    \/ Watcher /\ UNCHANGED commands
    \/ (\E i \in DOMAIN rt : Loop(i)) /\ UNCHANGED commands
    \/ CrashAll
    \/ \E k \in Clicks : Handler(k) \/ Engine(k)

\* More loops than any configuration of the instance has.
Slots == 1..3

\* The watcher's ticker and the loops' tickers fire for as long as the daemon
\* is up.
Fairness ==
    /\ WF_vars(Watcher /\ UNCHANGED commands)
    /\ \A i \in Slots : WF_vars(i \in DOMAIN rt /\ Loop(i) /\ UNCHANGED commands)

Spec == Init /\ [][Next]_vars /\ Fairness

\* Every restart the engine makes for a button can be traced: once its
\* handler is done, exactly one line names the target, and it says ok only
\* if the container was restarted.  Only the end of the process loses a line.
RestartsAreAudited ==
    \A k \in Clicks :
        /\ (engine[k] # "none" /\ click[k] = "answered") =>
              \E o \in {"ok", "failed"} : audited[k] = {[target |-> target[k], outcome |-> o]}
        /\ \A line \in audited[k] : line.outcome = "ok" => engine[k] = "restarted"
        /\ answer[k] = "ok" => [target |-> target[k], outcome |-> "ok"] \in audited[k]

\* Where a click stands: a line is written when its handler is done and not
\* before, and what Run has in hand by then is what became of the request.
CommandInv ==
    /\ click \in [Clicks -> {"new", "resolve", "docker", "audit", "answered", "lost"}]
    /\ target \in [Clicks -> Containers \cup {"none"}]
    /\ outcome \in [Clicks -> {"none", "refused", "ok", "failed"}]
    /\ engine \in [Clicks -> {"none", "sent", "restarted", "failed"}]
    /\ answer \in [Clicks -> {"none", "ok", "failed"}] /\ DOMAIN audited = Clicks
    /\ \A k \in Clicks :
          /\ click[k] \in {"new", "resolve"} => engine[k] = "none"
          /\ click[k] = "docker" => engine[k] # "none"
          /\ click[k] \in {"audit", "answered"} =>
                /\ outcome[k] # "none" /\ (outcome[k] = "refused" <=> engine[k] = "none")
                /\ outcome[k] = "ok" => engine[k] = "restarted"
          /\ audited[k] = IF click[k] = "answered" THEN {AuditLine(k)} ELSE {}
          /\ answer[k] = "ok" => click[k] = "answered" /\ outcome[k] = "ok"

\* The inductive invariant of the daemon: its start, its watcher, its loops and
\* its command handlers (main.go run, monitor.go Reconfigure and the loops,
\* commands.go Run).
DaemonInv == DeploymentTypes /\ BootInv /\ SyncInv /\ LoopInv /\ CommandInv
=============================================================================
