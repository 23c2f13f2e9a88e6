------------------------------- MODULE DryRun -------------------------------
(***************************************************************************)
(* The dry run of a proposed script (internal/scripts/sandbox.go and       *)
(* predicate.go): the evidence one attempt leaves behind, the predicate    *)
(* that judges it, and the result of a real run.                           *)
(***************************************************************************)
EXTENDS Naturals, Sequences

\* What strace can report: a shimmed binary, one of the read-only list, a
\* mutating one called by its path, any other.
Execs == {"shim", "safe", "mutating", "unlisted"}

\* Lines of the transcript the shims write. A "spaced" violation names a
\* target that contains a blank; "long" exceeds the scanner's buffer.
Lines == {"cmd", "violation", "spaced", "long"}

\* What a dry run leaves behind: the exit status of the shell, whether it was
\* killed, whether strace ran, what was executed, and the transcript.
EvidenceType ==
    [exit : Nat, timedOut : BOOLEAN, traced : BOOLEAN,
     execs : SUBSET Execs, lines : Seq(Lines)]

\* The scanner stops at a line that does not fit; its error is dropped.
Scanned(e) == {i \in DOMAIN e.lines : \A j \in 1..i : e.lines[j] # "long"}

\* violationLineRE wants a target without blanks.
parseTranscript(e) == {i \in Scanned(e) : e.lines[i] = "violation"}

\* Mutation: a deny-list instead of the allow-list.
DenyListed(e) == IF e.traced THEN e.execs \cap {"mutating"} ELSE {}

\* Predicate branch (b): everything outside the shims and the allow-list.
unshimmedMutationReasons(e) == IF e.traced THEN e.execs \ {"shim", "safe"} ELSE {}

\* APPROVED-FOR-REVIEW: none of the branches (a), (b), (c) has a reason.
verdict(e) ==
    /\ ~e.timedOut
    /\ e.exit = 0
    /\ unshimmedMutationReasons(e) = {}
    /\ parseTranscript(e) = {}

\* What the predicate is documented to mean: the script ended well, strace saw
\* nothing but shims and read-only binaries, no shim reported a violation.
Clean(e) ==
    /\ e.exit = 0 /\ ~e.timedOut
    /\ e.traced => e.execs \subseteq {"shim", "safe"}
    /\ \A i \in DOMAIN e.lines : e.lines[i] \notin {"violation", "spaced"}

\* Evidence the predicate reads as it was meant.
Readable(e) == \A i \in DOMAIN e.lines : e.lines[i] \notin {"spaced", "long"}

(***************************************************************************)
(* The real run. Its shell mounts every protected path read-only and then  *)
(* becomes the script; guard is the step that failed, if any.              *)
(***************************************************************************)
Guards == {"held", "bind_failed", "ro_failed"}

\* Exit codes the inner shell reserves for a guard that failed.
bootGuardExits == {97, 98}

\* The exit status the daemon sees.
ExitSeen(guard, exit) ==
    CASE guard = "held" -> exit
      [] guard = "bind_failed" -> 97
      [] guard = "ro_failed" -> 98

\* "error" stands for ErrProtectedPathGuardFailed, the others for RunResult.
RunResult(guard, exit, timedOut) ==
    CASE ~timedOut /\ ExitSeen(guard, exit) \in bootGuardExits -> "error"
      [] ~timedOut /\ ExitSeen(guard, exit) = 0 -> "succeeded"
      [] OTHER -> "failed"
=============================================================================
