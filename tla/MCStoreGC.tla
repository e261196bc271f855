------------------------------- MODULE MCStoreGC -------------------------------
(***************************************************************************)
(* Two paths that can be deleted, rooted and built again.                  *)
(***************************************************************************)
EXTENDS StoreGC, TLC

Symmetry == Permutations(Path)
=============================================================================
