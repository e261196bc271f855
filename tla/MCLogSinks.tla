------------------------------- MODULE MCLogSinks -------------------------------
EXTENDS LogSinks, TLC

(* Destinations are interchangeable. *)
Symmetric == Permutations(Destination)
=============================================================================
