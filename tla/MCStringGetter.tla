---------------------------- MODULE MCStringGetter ----------------------------
(***************************************************************************)
(* Two contexts, and room for two strings, the one Nix gives and a copy.   *)
(***************************************************************************)
EXTENDS StringGetter

MCBlock == 1 .. 4
=============================================================================
