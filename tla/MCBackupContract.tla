-------------------------- MODULE MCBackupContract --------------------------
(***************************************************************************)
(* An instance of BackupContract with two backup names and one other name, *)
(* in the root, under the prefix and one level below it.                   *)
(***************************************************************************)
EXTENDS BackupContract

MCLeaf == 1..3
MCStamped == {1, 2}
MCDir == 0..2
MCBelow == {2}
=============================================================================
