----------------------------- MODULE ArgumentPack -----------------------------
(***************************************************************************)
(* The array arguments of the shims: go_nix_params_pack (nix_go_store.c),  *)
(* go_nix_string_array_pack and go_nix_value_array_pack (nix_go_expr.c),   *)
(* and the functions that pack, call Nix and free: go_nix_store_open,      *)
(* go_nix_eval_state_builder_set_lookup_path, go_nix_state_create and      *)
(* go_nix_value_call_multi.                                                *)
(*                                                                         *)
(* An entry of the array is a pair of strings, a string or a value; it is  *)
(* abstracted to the strings Go passed for it.  Every allocation may fail. *)
(***************************************************************************)
EXTENDS Naturals, Sequences, FiniteSets

CONSTANTS
  Block,    \* addresses the allocator can hand out
  Null,     \* the null pointer
  MaxLen    \* bound: entries of an argument of each kind

ASSUME NullAssumption == Null \notin Block
ASSUME FiniteAssumption == IsFiniteSet(Block)
Kind == {"params", "strings", "values"}
ASSUME LenAssumption == MaxLen \in [Kind -> Nat]

VARIABLES
  kind,     \* what an entry of the argument is
  at,       \* where the call is
  args,     \* the argument: items and len
  array,    \* the packed array, or Null
  packed,   \* the entries filled in so far
  heap,     \* the addresses that are allocated
  hasCtx,   \* the call was given a context that is not NULL
  ctxErr,   \* that context holds an error
  dropped   \* history: the strings that a failed pair allocation has lost

vars == <<kind, at, args, array, packed, heap, hasCtx, ctxErr, dropped>>

-----------------------------------------------------------------------------
(* The argument.  A string is a pointer and a length: an empty one may have *)
(* a NULL pointer, and a NULL pointer with a length is "bad" and cannot be  *)
(* copied.  A bad value is NULL.                                            *)

PartsOf(k) == IF k = "params" THEN {"key", "value"} ELSE {"value"}
Text(k) == IF k = "values" THEN {"text", "bad"} ELSE {"empty", "text", "bad"}
Parts == PartsOf(kind)

Items(k) == [PartsOf(k) -> Text(k)]
NoItems == << >>
Args(k) == {[items |-> items, len |-> Len(items)] :
              items \in UNION {[1 .. n -> Items(k)] : n \in 0 .. MaxLen[k]}}
           \cup {[items |-> NoItems, len |-> n] : n \in 1 .. MaxLen[k]}

Bad(item) == \E p \in Parts : item[p] = "bad"
Current == args.items[Len(packed) + 1]

-----------------------------------------------------------------------------
(* Memory.  An entry of parameters has a block of its own, the pair, and    *)
(* one per string; an entry of strings is the string; a value is borrowed.  *)

(* One way to choose n fresh blocks. *)
Fresh(h, n) ==
  IF Cardinality(Block \ h) < n THEN {}
  ELSE {CHOOSE bs \in SUBSET (Block \ h) : Cardinality(bs) = n}

(* Copying an empty string takes a block too, for its terminator. *)
StringBlocks(item) == IF kind = "values" THEN 0 ELSE Cardinality(Parts)

Pairs == IF kind = "params" THEN 1 ELSE 0

(* What the free function of an entry releases, and what is in the array. *)
Entry(own, strings) == [own |-> own, strings |-> strings]
BlocksOf(entry) == entry.own \cup entry.strings

Packing == UNION {BlocksOf(packed[i]) : i \in DOMAIN packed}
PairsAlone == UNION {packed[i].own : i \in DOMAIN packed}

-----------------------------------------------------------------------------
(* The start of a call.  The context may hold an error of an earlier one. *)

(* Defect: the length counts the terminator. *)
BeginOneMore(k, a, ctx) ==
  /\ at = "idle"
  /\ at' = "begin"
  /\ kind' = k
  /\ args' = [a EXCEPT !.len = @ + 1]
  /\ hasCtx' = ctx
  /\ ctxErr' \in {FALSE, ctx}
  /\ UNCHANGED <<array, packed, heap, dropped>>

Begin(k, a, ctx) ==
  /\ at = "idle"
  /\ at' = "begin"
  /\ kind' = k
  /\ args' = a
  /\ hasCtx' = ctx
  /\ ctxErr' \in {FALSE, ctx}
  /\ UNCHANGED <<array, packed, heap, dropped>>

(* Setting an error and giving up, with the memory in kept still allocated. *)
Refuse(kept) ==
  /\ at' = "refused"
  /\ heap' = kept
  /\ array' = Null
  /\ packed' = << >>
  /\ ctxErr' = hasCtx
  /\ UNCHANGED <<kind, args, hasCtx>>

PackNothing ==
  /\ at = "begin"
  /\ args.len = 0
  /\ at' = "native"
  /\ UNCHANGED <<kind, args, array, packed, heap, hasCtx, ctxErr, dropped>>

RefuseNoItems ==
  /\ at = "begin"
  /\ args.len # 0
  /\ args.items = NoItems
  /\ Refuse(heap)
  /\ UNCHANGED dropped

AllocateArray ==
  /\ at = "begin"
  /\ args.len # 0
  /\ args.items # NoItems
  /\ \/ /\ \E bs \in Fresh(heap, 1) : heap' = heap \cup bs /\ array' \in bs
        /\ at' = "packing"
        /\ UNCHANGED <<kind, args, packed, hasCtx, ctxErr, dropped>>
     \/ Refuse(heap) /\ UNCHANGED dropped

-----------------------------------------------------------------------------
(* The loop. *)

Unpacked == at = "packing" /\ Len(packed) < args.len

(* Defect: a bad entry is taken as it is. *)
PackItemUnchecked ==
  /\ Unpacked
  /\ \E pair \in Fresh(heap, Pairs) :
       \E strings \in Fresh(heap \cup pair, StringBlocks(Current)) :
         /\ heap' = heap \cup pair \cup strings
         /\ packed' = Append(packed, Entry(pair, strings))
  /\ UNCHANGED <<kind, at, args, array, hasCtx, ctxErr, dropped>>

PackItem ==
  /\ Unpacked
  /\ ~Bad(Current)
  /\ \E pair \in Fresh(heap, Pairs) :
       \E strings \in Fresh(heap \cup pair, StringBlocks(Current)) :
         /\ heap' = heap \cup pair \cup strings
         /\ packed' = Append(packed, Entry(pair, strings))
  /\ UNCHANGED <<kind, at, args, array, hasCtx, ctxErr, dropped>>

(* The pair of a parameter cannot be allocated: the pairs before it are     *)
(* freed, their strings are not.                                            *)
PairFails ==
  /\ kind = "params"
  /\ Unpacked
  /\ Refuse(heap \ (PairsAlone \cup {array}))
  /\ dropped' = dropped \cup (Packing \ PairsAlone)

(* A string cannot be copied: everything before it is freed, and so is what *)
(* was copied of this entry.                                                *)
CopyFails ==
  /\ kind # "values"
  /\ Unpacked
  /\ Refuse(heap \ (Packing \cup {array}))
  /\ UNCHANGED dropped

(* Defect: the array is kept. *)
RefuseNullValueKeeping ==
  /\ kind = "values"
  /\ Unpacked
  /\ Bad(Current)
  /\ Refuse(heap)
  /\ UNCHANGED dropped

RefuseNullValue ==
  /\ kind = "values"
  /\ Unpacked
  /\ Bad(Current)
  /\ Refuse(heap \ {array})
  /\ UNCHANGED dropped

Terminate ==
  /\ at = "packing"
  /\ Len(packed) = args.len
  /\ at' = "native"
  /\ UNCHANGED <<kind, args, array, packed, heap, hasCtx, ctxErr, dropped>>

-----------------------------------------------------------------------------
(* The native call clears the context and may record an error of its own;   *)
(* the array is freed whatever it returned.  The loop that frees strings    *)
(* ends at the first entry that is NULL.                                    *)

NullEntry(entry) == BlocksOf(entry) = {}

Walked ==
  {i \in DOMAIN packed : \A j \in 1 .. i : ~NullEntry(packed[j])}

Freed == UNION {BlocksOf(packed[i]) : i \in Walked}

NativeCall ==
  /\ at = "native"
  /\ at' = "called"
  /\ ctxErr' \in {FALSE, hasCtx}
  /\ UNCHANGED <<kind, args, array, packed, heap, hasCtx, dropped>>

FreePacked ==
  /\ at = "called"
  /\ at' = "returned"
  /\ heap' = heap \ (Freed \cup {array})
  /\ array' = Null
  /\ packed' = << >>
  /\ UNCHANGED <<kind, args, hasCtx, ctxErr, dropped>>

(* The caller reads the outcome and goes on. *)
Continue ==
  /\ at \in {"refused", "returned"}
  /\ at' = "idle"
  /\ UNCHANGED <<kind, args, array, packed, heap, hasCtx, ctxErr, dropped>>

-----------------------------------------------------------------------------
Init ==
  /\ kind = "params"
  /\ at = "idle"
  /\ args = [items |-> NoItems, len |-> 0]
  /\ array = Null
  /\ packed = << >>
  /\ heap = {}
  /\ hasCtx = FALSE
  /\ ctxErr = FALSE
  /\ dropped = {}

Next ==
  \/ \E k \in Kind, ctx \in BOOLEAN : \E a \in Args(k) : Begin(k, a, ctx)
  \/ PackNothing \/ RefuseNoItems \/ AllocateArray
  \/ PackItem \/ PairFails \/ CopyFails \/ RefuseNullValue \/ Terminate
  \/ NativeCall \/ FreePacked \/ Continue

Spec == Init /\ [][Next]_vars

-----------------------------------------------------------------------------
TypeOK ==
  /\ kind \in Kind
  /\ at \in {"idle", "begin", "packing", "native", "called", "refused", "returned"}
  /\ args \in Args(kind)
  /\ array \in Block \cup {Null}
  /\ packed \in Seq([own : SUBSET Block, strings : SUBSET Block])
  /\ heap \in SUBSET Block /\ dropped \in SUBSET heap
  /\ hasCtx \in BOOLEAN /\ ctxErr \in BOOLEAN

(* Nix is called only with everything Go passed: each entry is there, none  *)
(* is one the shim could not copy, and none is NULL, which would end the    *)
(* array early for Nix.  A call that Nix never sees leaves an error on the  *)
(* caller's context, whatever that context held before.                     *)
AllOrReported ==
  /\ at = "native" =>
       /\ Len(packed) = args.len
       /\ \A i \in 1 .. args.len :
            /\ ~Bad(args.items[i])
            /\ kind # "values" => ~NullEntry(packed[i])
  /\ at = "refused" => ctxErr = hasCtx

(* Whatever fails, and at which entry, a call gives back the memory it took *)
(* but for the strings that PairFails loses: every other error path frees   *)
(* what was packed by then, and the loop that frees sees every entry.       *)
OnlyPairsLeak == at = "idle" => heap = dropped

(* A call gives back all the memory it took: go_nix_params_free says what a *)
(* packed parameter owns.                                                   *)
NoLeak == at = "idle" => heap = {}
=============================================================================
