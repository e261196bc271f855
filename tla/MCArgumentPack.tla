----------------------------- MODULE MCArgumentPack -----------------------------
(***************************************************************************)
(* Up to two parameters, which take seven addresses, or three strings or   *)
(* values.  The other addresses are for what failed pairs lose.            *)
(***************************************************************************)
EXTENDS ArgumentPack

MCBlock == 1 .. 12
MCMaxLen == [k \in Kind |-> IF k = "params" THEN 2 ELSE 3]
=============================================================================
