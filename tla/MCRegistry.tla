----------------------------- MODULE MCRegistry -----------------------------
(***************************************************************************)
(* Small instances of ScriptRegistry for TLC.                              *)
(***************************************************************************)
EXTENDS RegistryProperties, TLC

\* One dry run per branch of the predicate, and two that pass: one with and
\* one without a trace.
Passed == [exit |-> 0, timedOut |-> FALSE, traced |-> TRUE,
           execs |-> {"shim", "safe"}, lines |-> <<"cmd">>]
ReadableEvidence ==
    {Passed,
     [Passed EXCEPT !.traced = FALSE, !.execs = {"unlisted"}],
     [Passed EXCEPT !.exit = 1],
     [Passed EXCEPT !.timedOut = TRUE],
     [Passed EXCEPT !.execs = {"unlisted"}],
     [Passed EXCEPT !.execs = {"safe", "mutating"}],
     [Passed EXCEPT !.lines = <<"cmd", "violation">>]}

\* Callers are interchangeable.
Symmetry == Permutations(Callers)
=============================================================================
