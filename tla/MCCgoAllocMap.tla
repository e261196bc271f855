----------------------------- MODULE MCCgoAllocMap -----------------------------
(***************************************************************************)
(* Two maps as in PassRef of a struct: the struct's own and the one of its *)
(* field, which the first borrows from; three goroutines.                  *)
(***************************************************************************)
EXTENDS CgoAllocMap, TLC

CONSTANTS outer, inner

MCMap == {outer, inner}
MCDepth == outer :> 0 @@ inner :> 1
=============================================================================
