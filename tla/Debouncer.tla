----------------------------- MODULE Debouncer -----------------------------
(***************************************************************************)
(* One core.Debouncer fed with arbitrary results and now and then replaced *)
(* the way Reconfigure and Resume replace it, next to the results it was   *)
(* fed since, so that the incremental code can be compared with what       *)
(* debouncing means.                                                       *)
(***************************************************************************)
EXTENDS Debounce, Sequences, FiniteSetsExt

CONSTANTS
    DebounceNs,  \* the configured values of n
    MaxProbes    \* bound on the results between two replacements

ASSUME DebounceNsAssumption == DebounceNs \subseteq Nat /\ DebounceNs # {}

VARIABLES
    deb,    \* the debouncer
    start,  \* the Status it was created with
    seen    \* every result it observed

vars == <<deb, start, seen>>

Init ==
    \E n \in DebounceNs :
        /\ deb = NewDebouncer(n)
        /\ start = "UNKNOWN"
        /\ seen = <<>>

Probe(s) ==
    /\ Len(seen) < MaxProbes
    /\ deb' = Observe(deb, s)
    /\ seen' = Append(seen, s)
    /\ UNCHANGED start

\* The committed Status survives a replacement, the streak does not.
Replace(n) ==
    /\ deb' = NewDebouncerWithStatus(n, deb.committed)
    /\ start' = deb.committed
    /\ seen' = <<>>

Next == (\E s \in Derived : Probe(s)) \/ (\E n \in DebounceNs : Replace(n))

Spec == Init /\ [][Next]_vars
-----------------------------------------------------------------------------
\* The last n results up to the i-th agree.
Stable(i) == i >= deb.n /\ \A j \in (i - deb.n + 1)..i : seen[j] = seen[i]

\* The committed Status is that of the last n agreeing consecutive results,
\* however the results flapped before and since, and the initial Status as
\* long as there were none: candidate and streak of debounce.go encode just
\* that window.
CommittedIsLastStable ==
    LET stable == {i \in 1..Len(seen) : Stable(i)}
    IN  deb.committed = IF stable = {} THEN start ELSE seen[Max(stable)]

\* What candidate and streak encode: the streak is the run of equal results at
\* the end of what was seen, as far as it matters, and the last stable result
\* is one of a finite history.
StreakInv ==
    LET stable == {i \in 1..Len(seen) : Stable(i)}
        len == Len(seen)
    IN  /\ deb \in Debouncers(Nat \ {0}) /\ start \in Status /\ seen \in Seq(Derived)
        /\ deb.streak <= deb.n /\ deb.streak <= len /\ (seen # <<>> => deb.streak >= 1)
        /\ deb.candidate = IF seen = <<>> THEN "UNKNOWN" ELSE seen[len]
        /\ \A j \in (len - deb.streak + 1)..len : seen[j] = deb.candidate
        /\ deb.streak < deb.n /\ deb.streak < len => seen[len - deb.streak] # deb.candidate
        /\ stable # {} => \E m \in stable : \A i \in stable : i <= m
        /\ CommittedIsLastStable
=============================================================================
