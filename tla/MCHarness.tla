----------------------------- MODULE MCHarness -----------------------------
(***************************************************************************)
(* Small instances of Harness for TLC.                                     *)
(***************************************************************************)
EXTENDS HarnessProperties, TLC

\* Services that are mapped to a container.
OneService == {"media"}
TwoMapped == {"media", "files"}
OneTarget == [media |-> "plex"]
TwoTargets == [media |-> "plex", files |-> "nas"]

\* Cycle ids and requests are interchangeable.
Symmetry == Permutations(CycleIds) \cup Permutations(Requests)
=============================================================================
