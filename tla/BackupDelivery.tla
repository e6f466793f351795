--------------------------- MODULE BackupDelivery ---------------------------
(***************************************************************************)
(* What one run of mongo-archive promises about the backends, whatever     *)
(* fails on the way: README.md, "Multi-Backend Archive Contract".  The new *)
(* archive is delivered to the backends one by one; an older backup may be *)
(* given up only when every backend holds the new archive; and the run     *)
(* reports success only then.  ArchiveRun is shown to implement this.      *)
(***************************************************************************)
CONSTANTS
  Backend,   \* the configured storage backends
  Older      \* the backups that were there before the run

VARIABLES
  delivered, \* backends that hold a verified copy of the new archive
  older,     \* [Backend -> SUBSET Older], the older backups each still holds
  verdict    \* "pending", "success" or "failure"

contract == <<delivered, older, verdict>>

Init ==
  /\ delivered = {}
  /\ older \in [Backend -> SUBSET Older]
  /\ verdict = "pending"

(* Phase 1: one more backend holds the new archive. *)
Deliver(b) ==
  /\ verdict = "pending"
  /\ delivered' = delivered \cup {b}
  /\ UNCHANGED <<older, verdict>>

(* Phase 2: a backend gives up some of its older backups. *)
Prune(b) ==
  /\ verdict = "pending"
  /\ delivered = Backend
  /\ \E rest \in SUBSET older[b] : older' = [older EXCEPT ![b] = rest]
  /\ UNCHANGED <<delivered, verdict>>

Succeed ==
  /\ verdict = "pending"
  /\ delivered = Backend
  /\ verdict' = "success"
  /\ UNCHANGED <<delivered, older>>

Abandon ==
  /\ verdict = "pending"
  /\ verdict' = "failure"
  /\ UNCHANGED <<delivered, older>>

Next ==
  \/ \E b \in Backend : Deliver(b) \/ Prune(b)
  \/ Succeed
  \/ Abandon

Spec == Init /\ [][Next]_contract
=============================================================================
