--------------------------- MODULE MCResultCollector ---------------------------
(***************************************************************************)
(* Instances of ResultCollector for TLC.  With words of 64 and objects of  *)
(* at most 31 words the arrays grow to 4 and 8 slots (realise, two words a *)
(* slot) or 8 and 16 (closure, one word a slot), and the next growth is    *)
(* refused, so the largest array is full before the bound on deliveries is *)
(* reached.                                                                *)
(***************************************************************************)
EXTENDS ResultCollector

MCBlock == 1 .. 36
=============================================================================
