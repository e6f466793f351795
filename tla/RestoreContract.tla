--------------------------- MODULE RestoreContract ---------------------------
(***************************************************************************)
(* What one run of mongo-unarchive promises about the target database: it  *)
(* is loaded once, the updates follow a load that completed, one by one in *)
(* the order given and each at most once, and success is reported only     *)
(* after the last of them.  RestoreRun is shown to implement this.         *)
(***************************************************************************)
EXTENDS Naturals

CONSTANT MaxUpdates \* bound: updates a run can be given

VARIABLES
  requested, \* how many updates the run was given
  data,      \* the database: "untouched", "loading" or "loaded"
  applied,   \* how many updates were acknowledged
  verdict    \* "pending", "success" or "failure"

contract == <<requested, data, applied, verdict>>

Init ==
  /\ requested \in 0..MaxUpdates
  /\ data = "untouched"
  /\ applied = 0
  /\ verdict = "pending"

Load ==
  /\ verdict = "pending"
  /\ \/ data = "untouched" /\ data' = "loading"
     \/ data = "loading" /\ data' = "loaded"
  /\ UNCHANGED <<requested, applied, verdict>>

Apply ==
  /\ verdict = "pending"
  /\ data = "loaded"
  /\ applied < requested
  /\ applied' = applied + 1
  /\ UNCHANGED <<requested, data, verdict>>

(* A dry run loads nothing and has no updates. *)
Succeed ==
  /\ verdict = "pending"
  /\ data = "loaded" \/ data = "untouched"
  /\ applied = requested
  /\ verdict' = "success"
  /\ UNCHANGED <<requested, data, applied>>

Abandon ==
  /\ verdict = "pending"
  /\ verdict' = "failure"
  /\ UNCHANGED <<requested, data, applied>>

Next == Load \/ Apply \/ Succeed \/ Abandon

Spec == Init /\ [][Next]_contract
=============================================================================
