------------------------- MODULE RegistryProperties -------------------------
(***************************************************************************)
(* What the script registry guarantees although no operation holds a lock. *)
(***************************************************************************)
EXTENDS ScriptRegistry

\* The tables and the copies the operations hold have their types; a grant, a
\* row and a copy always carry the hash of a known text.
TypeOK ==
    /\ rows \in [ProposalIds -> Row \cup {None}]
    /\ scripts \subseteq Bodies
    /\ audit \in [ProposalIds -> SUBSET States]
    /\ grants \in [GrantIds -> Grant \cup {None}]
    /\ calls \in [Callers -> Call]
    /\ cap \in {"unprobed", "present", "missing"}
    /\ spent \in [calls : Nat, store : Nat, cancel : Nat, crash : Nat]
    /\ dryOK \subseteq ProposalIds \X Bodies
    /\ approvals \subseteq ProposalIds \X Bodies
    /\ ran \subseteq ProposalIds \X Bodies
    /\ lost \subseteq ProposalIds \X States
    /\ abandoned \subseteq ProposalIds
    /\ revoked \subseteq GrantIds
    /\ usable \subseteq Bodies

Gate == INSTANCE HashGate

\* Approval binds to the text: whatever edits, decisions and executions
\* overlap, a text runs only if that text was approved for its proposal, and
\* is approved only if that text had a clean dry run there (registry.go,
\* Approve, Edit and Execute on copies of a row that is written back whole).
ImplementsHashGate == Gate!Spec

\* A state a proposal only passes through: the operation that put it there
\* must move it on.
Transient == {"proposed", "dry_run_ok", "running", "precondition_failed"}

\* The operation in c wrote the row as it is now and is bound to move it on.
Owns(c, p) ==
    /\ calls[c].id = p /\ calls[c].row = rows[p]
    /\ \/ calls[c].at \in {"audit", "dryrun", "run"}
       \/ /\ calls[c].at = "update"
          /\ CanTransitionTo(calls[c].row.state, calls[c].next)

\* A proposal stands in a passing state only while the operation that put it
\* there is still at work; it is stranded by nothing but a crash or an error
\* of the Store or the sandbox (runDryRunAndAdvance, Execute).
TransientIsOwned ==
    \A p \in ProposalIds :
        Stored(p) /\ rows[p].state \in Transient =>
            p \in abandoned \/ \E c \in Callers : Owns(c, p)

\* The state of every proposal is in its audit log, is about to be, or was
\* stored by a call that failed or died before the entry (transition, Propose).
AuditedUnlessLost ==
    \A p \in ProposalIds :
        Stored(p) =>
            \/ rows[p].state \in audit[p]
            \/ <<p, rows[p].state>> \in lost
            \/ \E c \in Callers : /\ calls[c].at = "audit" /\ calls[c].id = p
                                  /\ calls[c].row.state = rows[p].state

\* A check that begins after the grant was revoked is refused, whatever writes
\* to the grant come in between (CheckGrant, RevokeGrant, TouchGrant).
RevokedIsRefused == \A c \in Callers : calls[c].at = "grant" => ~calls[c].flag

\* A grant alone authorises nothing: CheckGrant accepts one only for a text
\* that an Operator approved after a clean dry run (grants.go, CheckGrant).
GrantedWasApproved ==
    \A b \in usable : \E p \in ProposalIds : <<p, b>> \in approvals \cap dryOK

(***************************************************************************)
(* The inductive invariant behind them.                                    *)
(***************************************************************************)
\* The states a proposal reaches only through a passed dry run, and those it
\* reaches only through an approval.
Judged == States \ {"proposed", "dry_run_failed"}
Decided == {"approved", "running", "succeeded", "failed", "precondition_failed"}

\* What the state of a row, or of a copy of it, says has happened to its text.
Sound(p, row) ==
    /\ row.state \in Judged => <<p, row.hash>> \in dryOK
    /\ row.state \in Decided => <<p, row.hash>> \in approvals

\* The positions in which an operation holds a copy of a row.
Holding == {"insert", "update", "audit", "dryrun", "precond", "run"}

\* What the position of an operation says about the copy it holds.
WellFormed(call) ==
    /\ IF call.at \in Holding THEN call.id \in ProposalIds /\ call.row \in Row
                              ELSE call.row = None
    /\ call.at = "update" => call.next \in States
    /\ call.at \in {"insert", "dryrun"} => call.row.state = "proposed"
    /\ call.at = "run" => call.row.state = "running"

\* The rows the operations refer to exist.
RefersTo(call) ==
    /\ call.at \in {"approve", "deny"} => call.id \in ProposalIds /\ Stored(call.id)
    /\ call.at = "grant" => call.id \in GrantIds /\ grants[call.id] # None

\* A copy is as sound as the row it was read from; only Edit exchanges its
\* text, and that copy goes back to "proposed".
CopySound(call) ==
    call.at \in Holding =>
        /\ Sound(call.id, call.row) \/ (call.at = "update" /\ call.next = "proposed")
        /\ call.at = "update" /\ call.next = "dry_run_ok" =>
              <<call.id, call.row.hash>> \in dryOK

\* Rows and copies keep their shape, what an operation refers to is not
\* deleted, and a grant once revoked stays revoked (store.go, grants.go).
ShapeInv ==
    /\ TypeOK
    /\ \A c \in Callers : WellFormed(calls[c]) /\ RefersTo(calls[c])
    /\ \A g \in revoked : grants[g] # None /\ grants[g].revoked

\* Rows and copies say the truth about their text, and no text is approved
\* without a clean dry run.
TruthInv ==
    /\ \A c \in Callers : CopySound(calls[c])
    /\ \A p \in ProposalIds : Stored(p) => Sound(p, rows[p])
    /\ approvals \subseteq dryOK

\* Every step of every operation keeps this, whatever the others do
\* (registry.go, transition on a copy of the row; grants.go).
RegistryInv == ShapeInv /\ TruthInv

\* The predicate reads every evidence as it was meant: no violation names a
\* target with a blank, no line is too long for the scanner.
EvidenceIsReadable == \A e \in Evidence : Readable(e)
=============================================================================
