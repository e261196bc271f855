------------------------------- MODULE ResultList -------------------------------
(***************************************************************************)
(* What the result handles of nix_go_store.c promise to a Go caller,       *)
(* independently of arrays, capacities and copies.                         *)
(*                                                                         *)
(* go_nix_store_realise_to_array and go_nix_store_get_fs_closure_array     *)
(* replace a callback interface of Nix by one call that either returns a   *)
(* handle that lists every element Nix delivered, in the order it          *)
(* delivered them, or returns NULL; a handle never changes until it is     *)
(* freed, and an accessor answers with the element at its index or with    *)
(* NULL.                                                                   *)
(***************************************************************************)
EXTENDS Naturals, Sequences

CONSTANT Null                 \* the NULL an accessor returns

VARIABLES
  phase,       \* "none": no handle; "collecting": inside the native call;
               \* "null": the call returned NULL; "handle": it returned a handle
  delivered,   \* how many elements Nix has passed to the callback in this call
  list,        \* the elements the handle lists; an element is its delivery number
  reply        \* what the last accessor call was asked and returned, or Null

vars == <<phase, delivered, list, reply>>

Init ==
  /\ phase = "none"
  /\ delivered = 0
  /\ list = << >>
  /\ reply = Null

(* A native call starts; it may already fail for want of memory.           *)
Start ==
  /\ phase \in {"none", "null"}
  /\ phase' \in {"collecting", "null"}
  /\ delivered' = 0
  /\ UNCHANGED <<list, reply>>

Deliver ==
  /\ phase = "collecting"
  /\ delivered' = delivered + 1
  /\ UNCHANGED <<phase, list, reply>>

(* The call succeeds only with everything that was delivered.              *)
Succeed ==
  /\ phase = "collecting"
  /\ phase' = "handle"
  /\ list' = [i \in 1 .. delivered |-> i]
  /\ UNCHANGED <<delivered, reply>>

Fail ==
  /\ phase = "collecting"
  /\ phase' = "null"
  /\ UNCHANGED <<delivered, list, reply>>

(* An accessor takes a zero-based index; it returns NULL out of range, and  *)
(* may do so for want of memory.                                            *)
Read ==
  /\ reply' \in {Null} \cup {[index |-> i - 1, elem |-> list[i]] : i \in DOMAIN list}
  /\ UNCHANGED <<phase, delivered, list>>

Drop ==
  /\ phase = "handle"
  /\ phase' = "none"
  /\ list' = << >>
  /\ UNCHANGED <<delivered, reply>>

Next ==
  \/ Start
  \/ Deliver
  \/ Succeed
  \/ Fail
  \/ Read
  \/ Drop

Spec == Init /\ [][Next]_vars
=============================================================================
