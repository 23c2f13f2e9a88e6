------------------------- MODULE MonitorProperties -------------------------
(***************************************************************************)
(* What the spine guarantees.                                              *)
(***************************************************************************)
EXTENDS Monitor

\* A restart never repeats an Alert: as long as no write and no delivery
\* failed since the last one, an Alert about to go out differs from the last
\* one the Operator got, over any number of crashes, blind windows and
\* reconfigurations.
NoReAlert == \A x \in Subjects : at[x] = "notify" /\ ~lost[x] => job[x] # alerted[x]

\* Between two commits the sink's last word is the stored Status: a commit
\* whose write failed is never handed over, so the Harness does not act on
\* a Status that a restart would forget.
SinkTracksStore ==
    \A x \in Subjects :
        phase # "boot" /\ at[x] \notin {"notify", "publish"} => published[x] = stored[x]

\* The steps of a loop that has a commit in hand.
Committing == {"save", "notify", "publish"}

\* Where the debouncer, the table, the sink and the Operator stand relative to
\* the commit in hand.
CommitOK(x) ==
    /\ phase = "boot" => at[x] = "idle" /\ ~persisted[x] /\ (~lost[x] => stored[x] = alerted[x])
    /\ persisted[x] => at[x] \in {"notify", "publish"} /\ stored[x] = job[x]
    /\ at[x] = "publish" => persisted[x]
    /\ at[x] \in Committing => deb[x].committed = job[x]
    /\ phase # "boot" /\ ~persisted[x] => published[x] = stored[x]
    /\ phase # "boot" /\ at[x] \notin Committing /\ ~lost[x] =>
          deb[x].committed = alerted[x] /\ stored[x] = alerted[x]
    /\ at[x] \in {"save", "notify"} /\ ~lost[x] => job[x] # alerted[x]
    /\ at[x] \in {"save", "notify"} /\ ~persisted[x] /\ ~lost[x] => stored[x] = alerted[x]
    /\ at[x] = "publish" /\ ~lost[x] => alerted[x] = job[x]

\* They stand so at every step of every loop: the strengthening that makes
\* NoReAlert and SinkTracksStore inductive (monitor.go, commit and Resume).
CommitInv == \A x \in Subjects : CommitOK(x)

\* While the gate is closed a Service's debouncer takes in at most one
\* result: that of the Probe which was on its way when the gate closed.
OneBlindResult == \A s \in Services : blindSeen[s] <= 1

\* Why: a Probe starts only while the gate is open, the count is 0 while it is
\* open, and only a Probe that was on its way can raise it (probeOnce).
BlindInv ==
    /\ Hosts = {} \/ phase = "boot" => gate
    /\ \A s \in Services :
          /\ blindSeen[s] <= 1
          /\ gate \/ at[s] \in {"probing", "observe"} => blindSeen[s] = 0

\* The inductive invariant of the spine: the types, the commits and the gate
\* (monitor.go, both loops, Resume and Reconfigure).
MonitorInv == TypeOK /\ CommitInv /\ BlindInv

\* A gate that stays closed turns every Service UNKNOWN for good, although
\* a Probe on its way may write its Status over the Host loop's UNKNOWN.
BlindShowsUnknown ==
    \A s \in Services : (<>[](~gate)) => <>[](view[s] = "UNKNOWN")

\* A Service that keeps its Status, behind a Host that stays reachable, is
\* committed with it in the end and keeps it: flaps, blind windows and
\* reconfigurations only delay the commit.
SettledIsCommitted ==
    \A s \in Services, st \in Derived :
        (<>[](Reachable /\ DeriveStatus(health[s]) = st)) => <>[](deb[s].committed = st)
=============================================================================
