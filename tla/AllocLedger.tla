------------------------------ MODULE AllocLedger ------------------------------
(***************************************************************************)
(* What the allocation maps of cgo_helpers.go promise, without locks or    *)
(* loops: every C block has at most one owner, ownership is handed over in *)
(* one piece, and a block is released once per allocation.                 *)
(***************************************************************************)
CONSTANTS Proc, Map, Block, Nobody

VARIABLE owner     \* who is responsible for freeing each C block

Init == owner = [p \in Block |-> Nobody]

(* A goroutine gets a block from calloc ... *)
Acquire(g, p) ==
  /\ owner[p] = Nobody
  /\ owner' = [owner EXCEPT ![p] = g]

(* ... and records it in a map. *)
Record(g, a, p) ==
  /\ owner[p] = g
  /\ owner' = [owner EXCEPT ![p] = a]

(* A map takes over everything another one owns, at one moment. *)
TakeOver(a, b) ==
  owner' = [p \in Block |-> IF owner[p] = b THEN a ELSE owner[p]]

(* A map gives up everything it owns, at one moment. *)
Release(a) ==
  owner' = [p \in Block |-> IF owner[p] = a THEN Nobody ELSE owner[p]]

Next ==
  \/ \E g \in Proc, p \in Block : Acquire(g, p)
  \/ \E g \in Proc, a \in Map, p \in Block : Record(g, a, p)
  \/ \E a, b \in Map : TakeOver(a, b)
  \/ \E a \in Map : Release(a)

Spec == Init /\ [][Next]_owner
=============================================================================
