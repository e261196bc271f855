--------------------------- MODULE MCFlakeReference ---------------------------
(***************************************************************************)
(* Two handles at once, and up to three objects taken out of them: enough  *)
(* for both parts of one handle and one part of the other to be free of    *)
(* their handles, with room for another parse.                             *)
(***************************************************************************)
EXTENDS FlakeReference

MCBlock == 1 .. 11
=============================================================================
