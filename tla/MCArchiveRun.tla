---------------------------- MODULE MCArchiveRun ----------------------------
(***************************************************************************)
(* Three backends in the order in which GetStorages returns them, so that  *)
(* a failure can come before, between and after the others; one older      *)
(* backup, two destinations and both of the signals that matter.           *)
(***************************************************************************)
EXTENDS ArchiveRun

MCKind == <<"Local", "AWS", "GCP">>
=============================================================================
