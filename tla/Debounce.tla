------------------------------ MODULE Debounce ------------------------------
(***************************************************************************)
(* The pure part of internal/core that the spine runs on: a Status derived *)
(* from one Probe (status.go) and the debouncer (debounce.go), as          *)
(* operators on values.                                                    *)
(***************************************************************************)
EXTENDS Naturals

\* What a Probe can say; UNKNOWN is the observer's own blindness.
Derived == {"UP", "DEGRADED", "DOWN"}
Status == Derived \cup {"UNKNOWN"}

\* A core.ProbeResult, with its latency compared to the threshold.
ProbeResult == [status : Derived, slow : BOOLEAN]

DeriveStatus(r) == IF r.status = "UP" /\ r.slow THEN "DEGRADED" ELSE r.status

Debouncers(ns) == [n : ns, committed : Status, candidate : Status, streak : Nat]

\* The zero candidate is UNKNOWN, which no Probe reports.
NewDebouncerWithStatus(n, committed) ==
    [n |-> IF n < 1 THEN 1 ELSE n, committed |-> committed,
     candidate |-> "UNKNOWN", streak |-> 0]

NewDebouncer(n) == NewDebouncerWithStatus(n, "UNKNOWN")

\* Mutation: a candidate that returns keeps the streak it had.
ObserveKeepingStreak(d, s) ==
    LET streak == IF d.streak < d.n THEN d.streak + 1 ELSE d.n
    IN  [d EXCEPT !.candidate = s, !.streak = streak,
                  !.committed = IF streak >= d.n THEN s ELSE @]

\* Mutation: one agreeing Probe more than n is asked for.
ObserveBeyondN(d, s) ==
    LET streak == IF s # d.candidate THEN 1 ELSE IF d.streak < d.n THEN d.streak + 1 ELSE d.n
    IN  [d EXCEPT !.candidate = s, !.streak = streak,
                  !.committed = IF streak > d.n THEN s ELSE @]

\* The debouncer after one more result.  Only streak >= n is ever asked of
\* the streak, and n is fixed for a debouncer's life, so it stops at n.
Observe(d, s) ==
    LET streak == IF s # d.candidate THEN 1 ELSE IF d.streak < d.n THEN d.streak + 1 ELSE d.n
    IN  [d EXCEPT !.candidate = s, !.streak = streak,
                  !.committed = IF streak >= d.n THEN s ELSE @]

\* Observe's second result: this Probe changed the committed Status.
Changed(d, s) == Observe(d, s).committed # d.committed
=============================================================================
