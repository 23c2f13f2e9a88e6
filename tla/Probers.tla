------------------------------ MODULE Probers ------------------------------
(***************************************************************************)
(* The Probers (internal/prober): what one Probe makes of the answer of    *)
(* the remote side.  The result is a set: empty for an error, which the    *)
(* spine skips as "can't tell", else the one measurement.                  *)
(***************************************************************************)
EXTENDS Debounce

Error == {}
Measured(status, slow) == {[status |-> status, slow |-> slow]}

\* A dial or a request: it succeeds, fails (a timeout is a failure) or is
\* cancelled with the daemon.
Dials == {"ok", "failed", "canceled"}

HTTP(dial, code, slow) ==
    CASE dial = "canceled" -> Error
      [] dial = "failed" -> Measured("DOWN", slow)
      [] dial = "ok" -> Measured(IF code \in 200 .. 299 THEN "UP" ELSE "DOWN", slow)

TCP(dial, slow) ==
    CASE dial = "canceled" -> Error
      [] dial = "failed" -> Measured("DOWN", slow)
      [] dial = "ok" -> Measured("UP", slow)

\* SSHClient.Run: no connection, another failure (a cancelled dial, the
\* handshake, the command, the deadline after the dial), or output.
Runs == {"unreachable", "failed", "output"}

\* A state that docker does not have, or no separator, stands for output that
\* makes no sense.
Stopped == {"exited", "restarting", "created", "dead", "paused", "removing"}
ContainerProbe(run, state, health) ==
    CASE run # "output" \/ state \notin Stopped \cup {"running"} -> Error
      [] run = "output" /\ state \in Stopped -> Measured("DOWN", FALSE)
      [] run = "output" /\ state = "running" ->
            Measured(IF health \in {"unhealthy", "starting"} THEN "DEGRADED" ELSE "UP", FALSE)

\* Of a report, the fields that are there and parse: kv.  They are asked for
\* one after the other, so a bad array is DEGRADED whatever follows it.
HostMetricsProbe(run, kv) ==
    LET has(keys) == keys \subseteq DOMAIN kv
        overloaded == kv.cpus > 0 /\ kv.load1 > 2 * kv.cpus
        starved == kv.memTotal > 0 /\ 20 * kv.memAvailable < kv.memTotal
    IN  IF run = "unreachable" THEN Measured("DOWN", FALSE)
        ELSE IF run = "failed" \/ ~has({"mdState"}) THEN Error
        ELSE IF kv.mdState # "STARTED" THEN Measured("DOWN", FALSE)
        ELSE IF ~has({"mdNumDisabled", "mdNumInvalid"}) THEN Error
        ELSE IF kv.mdNumDisabled > 0 \/ kv.mdNumInvalid > 0 THEN Measured("DEGRADED", FALSE)
        ELSE IF ~has({"load1", "cpus"}) THEN Error
        ELSE IF overloaded THEN Measured("DEGRADED", FALSE)
        ELSE IF ~has({"memTotal", "memAvailable"}) THEN Error
        ELSE Measured(IF starved THEN "DEGRADED" ELSE "UP", FALSE)

\* The harness as a subject of its own: DOWN when the Reasoner or, live, the
\* Actuator is not healthy; never an error.
harnessProber(reasonerOK, mode, actuatorOK, slow) ==
    Measured(IF reasonerOK /\ (mode = "live" => actuatorOK) THEN "UP" ELSE "DOWN", slow)
=============================================================================
