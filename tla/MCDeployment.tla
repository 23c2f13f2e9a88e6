---------------------------- MODULE MCDeployment ----------------------------
(***************************************************************************)
(* Small instances of Commands, and with it of Deployment, for TLC.        *)
(***************************************************************************)
EXTENDS Commands, TLC

Svc(name, kind, n) == [name |-> name, kinds |-> kind, poll |-> {}, n |-> n]
Cred(u) == [user |-> u, secret |-> "key"]
HarnessAs(mode) ==
    [mode |-> mode, targets |-> [x \in {} |-> x], allow |-> {}, url |-> "loopback",
     cloud |-> FALSE, write |-> {}]

Base ==
    [schema |-> 1, unset |-> FALSE, ssh |-> {Cred("reader")},
     services |-> <<Svc("web", {"url"}, 0)>>, host |-> {}, harness |-> HarnessAs("off"),
     telegram |-> {}, unraid |-> {},
     sampler |-> [interval |-> {}, retention |-> {}], scripts |-> [dryRun |-> {}, run |-> {}],
     commands |-> [timeout |-> {}, allow |-> <<"app">>], limits |-> TRUE]

\* Only with an unraid section has the dashboard its commands.
Unraid == {[smart |-> {}, docker |-> {}]}
Full == [Base EXCEPT !.unraid = Unraid]

\* Sections as an operator may write them, valid and not.
ServiceLists ==
    {<<Svc("web", {"url"}, 0)>>,
     <<Svc("web", {"container"}, 1)>>,
     <<Svc("web", {"url", "tcp"}, 1)>>,
     <<Svc("web", {"tcp"}, -1)>>,
     <<Svc("web", {"url"}, 1), Svc("web", {"tcp"}, 1)>>,
     <<Svc("harness", {"tcp"}, 1)>>,
     <<Svc("a,b", {"tcp"}, 1)>>}
SSHs == {{}, {Cred("reader")}, {[user |-> "reader", secret |-> ""]}}
HostSections ==
    {{}} \cup {{[name |-> x, metrics |-> m, poll |-> {}, n |-> 1]} : x \in {"box", "web"}, m \in BOOLEAN}
Live == [HarnessAs("live") EXCEPT !.targets = [x \in {"web"} |-> "app"], !.allow = {"app"}, !.write = {Cred("writer")}]
Harnesses ==
    {HarnessAs("off"), HarnessAs("shadow"), HarnessAs("bogus"), Live,
     [Live EXCEPT !.allow = {}], [Live EXCEPT !.write = {}], [Live EXCEPT !.write = {Cred("reader")}],
     [Live EXCEPT !.targets = [x \in {"db"} |-> "app"]], [Live EXCEPT !.url = "remote"]}

AllConfigs ==
    {[Base EXCEPT !.services = s] : s \in ServiceLists}
    \cup {[Base EXCEPT !.services = <<Svc("web", {"container"}, 1)>>, !.ssh = r] : r \in SSHs}
    \cup {[Base EXCEPT !.services = <<Svc("harness", {"tcp"}, 1)>>,
                       !.host = {[name |-> "web", metrics |-> FALSE, poll |-> {}, n |-> 1]}]}
    \cup {[Base EXCEPT !.host = h] : h \in HostSections}
    \cup {[Base EXCEPT !.ssh = r, !.host = {[name |-> "box", metrics |-> TRUE, poll |-> {}, n |-> 1]}] : r \in SSHs}
    \cup {[Base EXCEPT !.ssh = r, !.harness = e] : r \in SSHs, e \in Harnesses}
    \cup {[Base EXCEPT !.schema = 0], [Base EXCEPT !.unset = TRUE],
          [Base EXCEPT !.telegram = {"bot_token"}], [Base EXCEPT !.limits = FALSE],
          Full, [Base EXCEPT !.unraid = {[smart |-> {-1}]}],
          [Base EXCEPT !.sampler.retention = {0}], [Base EXCEPT !.scripts.run = {0}],
          [Base EXCEPT !.commands.allow = <<"a/b">>]}

\* Another count and another interval, twice, so that a second signal may find
\* the first; a file without Services and commands; and a truncated one.
AllEdits ==
    {[Full EXCEPT !.services = <<[Svc("web", {"url"}, n) EXCEPT !.poll = {n}]>>] : n \in {2, 3}}
    \cup
    {[Full EXCEPT !.services = <<>>, !.commands.allow = <<>>],
     [Base EXCEPT !.schema = 0]}
=============================================================================
