----------------------------- MODULE MCMonitor -----------------------------
(***************************************************************************)
(* Small instances of Monitor for TLC.                                     *)
(***************************************************************************)
EXTENDS MonitorProperties, Probers, TLC

\* What the Probers of a Service, of a port and of a Host can measure.
AllAnswers ==
    UNION {HTTP(d, c, s) : d \in Dials, c \in {200, 503}, s \in BOOLEAN}
    \cup UNION {ContainerProbe(r, s, h) : r \in Runs, s \in {"running", "exited", "garbled"},
                                          h \in {"", "starting"}}
UpOrDown == UNION {TCP(d, FALSE) : d \in Dials}
TCPStates == {r.status : r \in UpOrDown}

Report == [mdState |-> "STARTED", mdNumDisabled |-> 0, mdNumInvalid |-> 0,
           load1 |-> 8, cpus |-> 4, memTotal |-> 100, memAvailable |-> 5]
Reports ==
    {Report, [Report EXCEPT !.mdState = "STOPPED"], [Report EXCEPT !.mdNumInvalid = 1],
     [Report EXCEPT !.load1 = 9], [Report EXCEPT !.memAvailable = 4]}
    \cup {[k \in DOMAIN Report \ {f} |-> Report[k]] : f \in DOMAIN Report}
HostMeasures == {r.status : r \in UNION {HostMetricsProbe(run, kv) : run \in Runs, kv \in Reports}}

NoFaults == [k \in Faults |-> 0]
WritesFail == [k \in Faults |-> IF k = "crash" THEN 2 ELSE 1]
Outages == [NoFaults EXCEPT !["crash"] = 1, !["probe"] = 1, !["reconfigure"] = 1]
=============================================================================
