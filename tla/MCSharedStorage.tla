--------------------------- MODULE MCSharedStorage ---------------------------
(***************************************************************************)
(* An instance of SharedStorage.  The two archivers are interchangeable.   *)
(***************************************************************************)
EXTENDS SharedStorage, TLC

Interchangeable == Permutations(Archiver)
=============================================================================
