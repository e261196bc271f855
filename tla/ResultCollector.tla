---------------------------- MODULE ResultCollector ----------------------------
(***************************************************************************)
(* The result handles of nix_go_store.c.  Nix hands realised outputs and   *)
(* closure paths to a C callback one at a time; the shim copies each into  *)
(* a growing array and gives Go a handle on the array afterwards           *)
(* (go_nix_store_realise_results, go_nix_store_path_array).                *)
(*                                                                         *)
(* Every allocation may fail.  size_t arithmetic is modulo SizeModulus and *)
(* sizes are counted in pointer-sized words.  An element is abstracted to  *)
(* its delivery number, so a lost, repeated or misplaced element shows.    *)
(***************************************************************************)
EXTENDS Naturals, Sequences, FiniteSets

CONSTANTS
  Block,         \* addresses the allocator can hand out
  Null,          \* the null pointer
  SizeModulus,   \* 2^w for a size_t of w bits, in words
  MaxAlloc,      \* the largest object the allocator grants, in words
  MaxDelivered,  \* bound: elements Nix delivers in one call
  MaxClones      \* bound: accessor copies the caller holds at once

ASSUME NullAssumption == Null \notin Block
ASSUME BoundAssumption == MaxDelivered \in Nat /\ MaxClones \in Nat
(* malloc refuses objects above PTRDIFF_MAX, that is above half of size_t. *)
ASSUME AllocatorAssumption ==
  /\ SizeModulus \in Nat /\ MaxAlloc \in Nat
  /\ 2 * MaxAlloc < SizeModulus
  /\ SizeModulus > 16

VARIABLES
  kind,       \* which collector made the handle: "realise" or "closure"
  phase,      \* where the native call is, as in ResultList
  results,    \* the C struct behind the handle
  heap,       \* the addresses that are allocated
  clones,     \* copies returned by accessors and not yet freed by the caller
  delivered,  \* elements Nix has passed to the callback in this call
  hasCtx,     \* the call was given a context that is not NULL
  ctxErr,     \* the context holds an error
  reply       \* what the last accessor call was asked and returned, or Null

vars == <<kind, phase, results, heap, clones, delivered, hasCtx, ctxErr, reply>>

-----------------------------------------------------------------------------
(* The constants of the two collectors. *)

FirstCap == IF kind = "realise" THEN 4 ELSE 8
ItemSize == IF kind = "realise" THEN 2 ELSE 1

NoResults == [self |-> Null, array |-> Null, size |-> 0, cap |-> 0,
              items |-> << >>, failed |-> FALSE]

-----------------------------------------------------------------------------
(* Memory: the address malloc returns, if there is one; the caller's choice *)
(* between this and failure is in the actions.                              *)

Malloc(h) == IF Block \ h = {} THEN {} ELSE {CHOOSE b \in Block \ h : TRUE}

Free(h, blocks) == h \ blocks

(* The copies of one element: its name and its path, or its path alone. *)
Copies(h) ==
  IF kind = "realise"
  THEN UNION {{{name, path} : path \in Malloc(h \cup {name})} : name \in Malloc(h)}
  ELSE {{path} : path \in Malloc(h)}

(* What has been copied when a copy fails: the name or the path alone. *)
PartialCopies(h) ==
  {{}} \cup (IF kind = "realise" THEN {{copy} : copy \in Malloc(h)} ELSE {})

-----------------------------------------------------------------------------
(* Growing the array. *)

(* Defect: the comparison is off by one. *)
MustGrowLate == Len(results.items) > results.cap

MustGrow == Len(results.items) = results.cap

NewCap ==
  IF results.cap = 0 THEN FirstCap ELSE (results.cap * 2) % SizeModulus

Bytes(c) == (c * ItemSize) % SizeModulus

(* Defect: the old array is kept, as with malloc in place of realloc. *)
GrownKeeping ==
  IF NewCap < results.cap \/ Bytes(NewCap) > MaxAlloc
  THEN {}
  ELSE {[r |-> [results EXCEPT !.array = b, !.size = Bytes(NewCap), !.cap = NewCap],
         h |-> heap \cup {results.array, b}] : b \in Malloc(heap)}

(* realloc moves the array and releases the old one; it is not called for a *)
(* capacity that wrapped around.                                            *)
Grown ==
  IF NewCap < results.cap \/ Bytes(NewCap) > MaxAlloc
  THEN {}
  ELSE {[r |-> [results EXCEPT !.array = b, !.size = Bytes(NewCap), !.cap = NewCap],
         h |-> Free(heap, {results.array}) \cup {b}] : b \in Malloc(heap)}

(* The struct and the heap with room for one more element. *)
WithRoom == IF MustGrow THEN Grown ELSE {[r |-> results, h |-> heap]}

(* Only the closure callback is given the context to record a failure on. *)
CallbackReturns(appended) ==
  ctxErr' = (ctxErr \/ (kind = "closure" /\ ~appended /\ hasCtx))

(* Everything the free function of a handle releases. *)
CopiesOf(r) == UNION {r.items[i].copies : i \in DOMAIN r.items}
BlocksOf(r) == {r.self, r.array} \cup CopiesOf(r)

-----------------------------------------------------------------------------
(* The call: allocate the struct, and let Nix clear the context. *)

Begin(k, ctx) ==
  /\ phase \in {"none", "null"}
  /\ kind' = k
  /\ hasCtx' = ctx
  /\ delivered' = 0
  /\ \E b \in Malloc(heap) :
       /\ results' = [NoResults EXCEPT !.self = b]
       /\ heap' = heap \cup {b}
  /\ ctxErr' = FALSE
  /\ phase' = "collecting"
  /\ UNCHANGED <<clones, reply>>

BeginFails(k, ctx) ==
  /\ phase \in {"none", "null"}
  /\ kind' = k
  /\ hasCtx' = ctx
  /\ delivered' = 0
  /\ ctxErr' = ctx
  /\ phase' = "null"
  /\ UNCHANGED <<results, heap, clones, reply>>

(* Nix delivers the next element to the callback ... *)
Delivered ==
  /\ phase = "collecting"
  /\ delivered < MaxDelivered
  /\ delivered' = delivered + 1
  /\ UNCHANGED <<kind, phase, clones, hasCtx, reply>>

(* ... which ignores it once an append has failed, *)
AppendLatched ==
  /\ Delivered
  /\ results.failed
  /\ CallbackReturns(FALSE)
  /\ UNCHANGED <<results, heap>>

(* or cannot make room for it, *)
GrowFails ==
  /\ Delivered
  /\ ~results.failed
  /\ MustGrow
  /\ results' = [results EXCEPT !.failed = TRUE]
  /\ CallbackReturns(FALSE)
  /\ UNCHANGED heap

(* Defects: the failed copy is not latched; what was copied is not freed. *)
CopyFailsUnlatched ==
  /\ Delivered
  /\ ~results.failed
  /\ \E room \in WithRoom : results' = room.r /\ heap' = room.h
  /\ CallbackReturns(FALSE)

CopyFailsKeeping ==
  /\ Delivered
  /\ ~results.failed
  /\ \E room \in WithRoom : \E partial \in PartialCopies(room.h) :
       /\ results' = [room.r EXCEPT !.failed = TRUE]
       /\ heap' = room.h \cup partial
  /\ CallbackReturns(FALSE)

(* or cannot copy it, and frees what it has copied, *)
CopyFails ==
  /\ Delivered
  /\ ~results.failed
  /\ \E room \in WithRoom : \E partial \in PartialCopies(room.h) :
       /\ results' = [room.r EXCEPT !.failed = TRUE]
       /\ heap' = Free(room.h \cup partial, partial)
  /\ CallbackReturns(FALSE)

(* or stores its copies in the first unused slot. *)
Append1 ==
  /\ Delivered
  /\ ~results.failed
  /\ \E room \in WithRoom : \E copies \in Copies(room.h) :
       /\ results' = [room.r EXCEPT
                        !.items = Append(@, [elem |-> delivered + 1, copies |-> copies])]
       /\ heap' = room.h \cup copies
  /\ CallbackReturns(TRUE)

(* The end of the call.  Nix may report an error of its own, or the one the *)
(* closure callback recorded, or neither.                                   *)
(* Defect: the shim's own failure is not put on the context. *)
ReturnNullSilently ==
  /\ heap' = Free(heap, BlocksOf(results))
  /\ results' = NoResults
  /\ phase' = "null"
  /\ UNCHANGED <<kind, clones, delivered, hasCtx, ctxErr, reply>>

ReturnNull ==
  /\ heap' = Free(heap, BlocksOf(results))
  /\ results' = NoResults
  /\ phase' = "null"
  /\ ctxErr' = hasCtx
  /\ UNCHANGED <<kind, clones, delivered, hasCtx, reply>>

NixFails ==
  /\ phase = "collecting"
  /\ ReturnNull

(* Defect: the latch is not looked at after the call. *)
AppendFailedIgnored == FALSE

AppendFailed == results.failed

NixSucceeds ==
  /\ phase = "collecting"
  /\ IF AppendFailed
     THEN ReturnNull
     ELSE /\ phase' = "handle"
          /\ UNCHANGED <<kind, results, heap, clones, delivered, hasCtx, ctxErr, reply>>

-----------------------------------------------------------------------------
(* The handle in the caller's hands.  An accessor is a copy of one part of  *)
(* the element; a NULL handle or an index out of range gives NULL.          *)

InRange(index) == phase = "handle" /\ index < Len(results.items)

(* Defect: the accessor returns the stored pointer itself. *)
CloneShared(index) ==
  /\ Cardinality(clones) < MaxClones
  /\ InRange(index)
  /\ \E b \in results.items[index + 1].copies : clones' = clones \cup {b}
  /\ reply' = [index |-> index, elem |-> results.items[index + 1].elem]
  /\ UNCHANGED <<kind, phase, results, heap, delivered, hasCtx, ctxErr>>

Clone(index) ==
  /\ Cardinality(clones) < MaxClones
  /\ InRange(index)
  /\ \E b \in Malloc(heap) :
       /\ heap' = heap \cup {b}
       /\ clones' = clones \cup {b}
  /\ reply' = [index |-> index, elem |-> results.items[index + 1].elem]
  /\ UNCHANGED <<kind, phase, results, delivered, hasCtx, ctxErr>>

CloneFails ==
  /\ phase # "collecting"
  /\ reply' = Null
  /\ UNCHANGED <<kind, phase, results, heap, clones, delivered, hasCtx, ctxErr>>

FreeClone(b) ==
  /\ phase # "collecting"
  /\ heap' = Free(heap, {b})
  /\ clones' = clones \ {b}
  /\ UNCHANGED <<kind, phase, results, delivered, hasCtx, ctxErr, reply>>

FreeHandle ==
  /\ phase = "handle"
  /\ heap' = Free(heap, BlocksOf(results))
  /\ results' = NoResults
  /\ phase' = "none"
  /\ UNCHANGED <<kind, clones, delivered, hasCtx, ctxErr, reply>>

-----------------------------------------------------------------------------
Init ==
  /\ kind = "realise"
  /\ phase = "none"
  /\ results = NoResults
  /\ heap = {}
  /\ clones = {}
  /\ delivered = 0
  /\ hasCtx = FALSE
  /\ ctxErr = FALSE
  /\ reply = Null

Next ==
  \/ \E k \in {"realise", "closure"}, ctx \in BOOLEAN : Begin(k, ctx) \/ BeginFails(k, ctx)
  \/ AppendLatched \/ GrowFails \/ CopyFails \/ Append1
  \/ NixFails \/ NixSucceeds
  \/ \E index \in 0 .. MaxDelivered : Clone(index)
  \/ CloneFails
  \/ \E b \in clones : FreeClone(b)
  \/ FreeHandle

Spec == Init /\ [][Next]_vars

-----------------------------------------------------------------------------
Item == [elem : Nat, copies : SUBSET Block]

ResultsType ==
  [self : Block \cup {Null}, array : Block \cup {Null}, size : Nat, cap : Nat,
   items : Seq(Item), failed : BOOLEAN]

TypeOK ==
  /\ kind \in {"realise", "closure"}
  /\ phase \in {"none", "collecting", "null", "handle"}
  /\ results \in ResultsType
  /\ heap \in SUBSET Block
  /\ clones \in SUBSET Block
  /\ delivered \in Nat
  /\ hasCtx \in BOOLEAN
  /\ ctxErr \in BOOLEAN
  /\ reply \in [index : Nat, elem : Nat] \cup {Null}

(* The slots in use lie inside the allocated array: the size passed to     *)
(* realloc never wraps around to something smaller than the capacity the   *)
(* code goes on to believe (nix_go_store.c:287-305, 472-487).              *)
InBounds ==
  /\ Len(results.items) <= results.cap
  /\ results.cap * ItemSize <= results.size

(* A handle lists everything Nix delivered, in order: an append that failed *)
(* half-way never turns into a shorter list that looks complete.            *)
AllOrNothing ==
  phase = "handle" =>
    /\ Len(results.items) = delivered
    /\ \A i \in 1 .. delivered : results.items[i].elem = i

(* Whatever failed and whenever, the allocated memory is exactly what the  *)
(* struct and the caller can still free: no leak, nothing freed in use.    *)
NoLeak == heap = (BlocksOf(results) \ {Null}) \cup clones

(* No address has two owners, so freeing a handle and freeing the copies   *)
(* taken from it, in any order, frees nothing twice.                       *)
SingleOwner ==
  /\ clones \cap BlocksOf(results) = {}
  /\ \A i, j \in DOMAIN results.items :
       i # j => results.items[i].copies \cap results.items[j].copies = {}
  /\ \A i \in DOMAIN results.items :
       {results.self, results.array} \cap results.items[i].copies = {}
  /\ results.self = results.array => results.self = Null

(* A caller that gets NULL finds an error on its context, and one that gets *)
(* a handle finds none, whether Nix, the callback or the shim saw the       *)
(* failure first.                                                           *)
ErrorReported ==
  /\ phase = "null" => ctxErr = hasCtx
  /\ phase = "handle" => ~ctxErr

(* The elements a handle lists; there is no list while there is no handle. *)
Listed ==
  IF phase = "handle"
  THEN [i \in 1 .. Len(results.items) |-> results.items[i].elem]
  ELSE << >>

List == INSTANCE ResultList WITH list <- Listed

(* With every allocation able to fail, the shim still gives the caller the  *)
(* all-or-nothing, immutable list of ResultList.                            *)
ListSpec == List!Spec
=============================================================================
