----------------------------- MODULE MCFileLock -----------------------------
(***************************************************************************)
(* Instances of FileLock for TLC.  Three clients are the least for which a *)
(* guard outlives its owner and two others reclaim it.                     *)
(***************************************************************************)
EXTENDS FileLock, TLC

Symmetry == Permutations(Clients)
=============================================================================
