-------------------------- MODULE MCLocalDirectory --------------------------
(***************************************************************************)
(* Two runs that took the same name and both prune, two backups from       *)
(* before and a restore.                                                   *)
(***************************************************************************)
EXTENDS LocalDirectory, TLC

CONSTANTS w1, w2

MCNameOf == w1 :> 2 @@ w2 :> 2
=============================================================================
