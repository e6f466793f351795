----------------------------- MODULE AtomicCell -----------------------------
(***************************************************************************)
(* What WriteFileAtomically promises: the destination is one cell.  It     *)
(* holds what was there before or the whole of what one writer wrote; each *)
(* writer replaces it at most once, in one step and before it returns, and *)
(* reports success only if it did.                                         *)
(***************************************************************************)
CONSTANTS
  Writer,  \* the calls that write the destination
  Nobody   \* the content before all of them

VARIABLES
  cell,    \* whose content the destination holds
  result   \* [Writer -> "pending", "replaced", "ok" or "failed"]

atomic == <<cell, result>>

Init ==
  /\ cell = Nobody
  /\ result = [w \in Writer |-> "pending"]

Replace(w) ==
  /\ result[w] = "pending"
  /\ cell' = w
  /\ result' = [result EXCEPT ![w] = "replaced"]

Succeed(w) ==
  /\ result[w] = "replaced"
  /\ result' = [result EXCEPT ![w] = "ok"]
  /\ UNCHANGED cell

(* An error does not tell whether the destination was replaced. *)
GiveUp(w) ==
  /\ result[w] \in {"pending", "replaced"}
  /\ result' = [result EXCEPT ![w] = "failed"]
  /\ UNCHANGED cell

Next == \E w \in Writer : Replace(w) \/ Succeed(w) \/ GiveUp(w)

Spec == Init /\ [][Next]_atomic
=============================================================================
