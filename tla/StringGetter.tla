----------------------------- MODULE StringGetter -----------------------------
(***************************************************************************)
(* The getters of GoGetters, which return a C string to Go, and the error  *)
(* contexts they report on, in the shims of nix_go_util.c, nix_go_store.c, *)
(* nix_go_expr.c and nix_go_flake_cpp.cc.                                  *)
(*                                                                         *)
(* Nix shows its string for the length of a callback, as a pointer into an *)
(* object of its own, or as memory to be freed; the shim copies it, which  *)
(* may fail.  A string is abstracted to what it says: the error a context  *)
(* held, or some text.                                                     *)
(***************************************************************************)
EXTENDS Naturals, FiniteSets, GoGetters

CONSTANTS
  Ctx,       \* error contexts
  Block,     \* addresses the allocator can hand out
  Null,      \* the null pointer, also where a context is expected
  MaxOwned   \* bound: strings the caller has not freed yet

ASSUME NullAssumption == Null \notin Ctx \cup Block
ASSUME BoundAssumption == MaxOwned \in Nat

VARIABLES
  at,      \* where the call is
  call,    \* the getter, the contexts that Go passed, ctx to report on and
           \* readCtx for the readers of errors, and whether an optional
           \* string is absent
  passed,  \* the contexts that Nix was given
  err,     \* what each context holds: an error, or "none"
  given,   \* the block with Nix's string that the shim has to free, or Null
  copy,    \* the shim's copy of the string, or Null
  heap,    \* what the allocated blocks say
  owned,   \* those that the caller has to free
  reply    \* what the call returned

vars == <<at, call, passed, err, given, copy, heap, owned, reply>>

-----------------------------------------------------------------------------
(* What a getter does when it cannot copy.                                   *)

ErrorReaders == {g \in Getters : g.contexts = 2}
WithoutContext == {g \in Getters : g.contexts = 0}

(* Defect: the type name is not accounted for. *)
ReportsNot(g) == g.shim.reports /\ g # GetTypename

Reports(g) == g.shim.reports

Errors == {"nix error", "shim error"}
SetError(c, e) == IF c = Null THEN err ELSE [err EXCEPT ![c] = e]

Malloc == IF Block \subseteq DOMAIN heap THEN {} ELSE {CHOOSE b \in Block \ DOMAIN heap : TRUE}
Store(b, word) == [c \in DOMAIN heap \cup {b} |-> IF c = b THEN word ELSE heap[c]]
Without(blocks) == [c \in DOMAIN heap \ blocks |-> heap[c]]

-----------------------------------------------------------------------------
(* Between getters: any other native call leaves an error of its own on its *)
(* context, or none, as ClearErr does.                                      *)

NixCall(c, e) ==
  /\ at = "idle"
  /\ err' = [err EXCEPT ![c] = e]
  /\ UNCHANGED <<at, call, passed, given, copy, heap, owned, reply>>

StringFree(b) ==
  /\ at = "idle"
  /\ heap' = Without({b})
  /\ owned' = owned \ {b}
  /\ UNCHANGED <<at, call, passed, err, given, copy, reply>>

-----------------------------------------------------------------------------
(* A getter.  Whoever reads an error does not report on the context it is   *)
(* read from, and passes NULL to report on only if there is an error.       *)

MayCall(g, c, r) ==
  /\ g \in WithoutContext => c = Null
  /\ g \notin WithoutContext \cup ErrorReaders => c \in Ctx
  /\ g \notin ErrorReaders => r = Null
  /\ g \in ErrorReaders => r \in Ctx /\ r # c /\ (c = Null => err[r] # "none")

(* Defect: the two contexts change places. *)
ContextsSwapped(c, r) ==
  IF c = Null \/ r = Null THEN [ctx |-> c, readCtx |-> r] ELSE [ctx |-> r, readCtx |-> c]

Contexts(c, r) == [ctx |-> c, readCtx |-> r]

Call(g, c, r, absent) ==
  /\ at = "idle"
  /\ Cardinality(owned) < MaxOwned
  /\ MayCall(g, c, r)
  /\ absent => g.shim.optional
  /\ call' = [getter |-> g, ctx |-> c, readCtx |-> r, absent |-> absent]
  /\ passed' = Contexts(c, r)
  /\ err' = [e \in Ctx |-> IF e = Contexts(c, r).ctx THEN "none" ELSE err[e]]
  /\ at' = "native"
  /\ UNCHANGED <<given, copy, heap, owned, reply>>

(* What Nix has to show; nothing if there is no error to read.              *)
Words ==
  IF call.getter \in ErrorReaders THEN {err[passed.readCtx]} \ {"none"}
  ELSE IF call.absent THEN {} ELSE {"text"}

(* Nix shows the string, and the shim copies it or fails to. *)
Copied(word) ==
  \/ \E b \in Malloc : copy' = b /\ heap' = Store(b, word)
  \/ copy' = Null /\ heap' = heap

Shown ==
  /\ at = "native"
  /\ call.getter.shim.shows \in {"callback", "pointer", "internal"}
  /\ \E word \in Words : Copied(word)
  /\ at' = "copied"
  /\ UNCHANGED <<call, passed, err, given, owned, reply>>

(* nix_get_typename allocates the string it returns. *)
ShownGift ==
  /\ at = "native"
  /\ call.getter.shim.shows = "gift"
  /\ \E b \in Malloc : given' = b /\ heap' = Store(b, "text")
  /\ at' = "given"
  /\ UNCHANGED <<call, passed, err, copy, owned, reply>>

CopyGift ==
  /\ at = "given"
  /\ Copied(heap[given])
  /\ at' = "copied"
  /\ UNCHANGED <<call, passed, err, given, owned, reply>>

Finish(blocks, result) ==
  /\ at' = "returned"
  /\ heap' = Without(blocks)
  /\ reply' = result
  /\ owned' = owned \cup ({result} \ {Null})
  /\ given' = Null
  /\ copy' = Null
  /\ UNCHANGED <<call, passed>>

(* Defect: what the callback has copied is kept. *)
NixFailsKeeping ==
  /\ call.getter \notin WithoutContext /\ passed.ctx # Null
  /\ \/ at = "native"
     \/ at = "copied" /\ call.getter.shim.shows = "callback"
  /\ Finish({}, Null)
  /\ err' = SetError(passed.ctx, "nix error")

(* Nix fails, at once or after its callback has run. *)
NixFails ==
  /\ call.getter \notin WithoutContext /\ passed.ctx # Null
  /\ \/ at = "native"
     \/ at = "copied" /\ call.getter.shim.shows = "callback"
  /\ Finish({copy}, Null)
  /\ err' = SetError(passed.ctx, "nix error")

(* Defect: the caller gets the string that is freed. *)
ReturnGiven ==
  /\ at = "copied"
  /\ copy # Null
  /\ Finish({given}, IF given # Null THEN given ELSE copy)
  /\ UNCHANGED err

ReturnCopy ==
  /\ at = "copied"
  /\ copy # Null
  /\ Finish({given}, copy)
  /\ UNCHANGED err

CopyFailed ==
  /\ at = "copied"
  /\ copy = Null
  /\ Finish({given}, Null)
  /\ err' = IF Reports(call.getter) THEN SetError(call.ctx, "shim error") ELSE err

(* A flake without a fingerprint. *)
ReturnAbsent ==
  /\ at = "native" /\ call.absent
  /\ Finish({}, Null)
  /\ UNCHANGED err

(* The caller looks at the result. *)
Continue ==
  /\ at = "returned"
  /\ at' = "idle"
  /\ UNCHANGED <<call, passed, err, given, copy, heap, owned, reply>>

-----------------------------------------------------------------------------
Init ==
  /\ at = "idle"
  /\ call = [getter |-> VersionGet, ctx |-> Null, readCtx |-> Null, absent |-> FALSE]
  /\ passed = [ctx |-> Null, readCtx |-> Null]
  /\ err = [c \in Ctx |-> "none"]
  /\ given = Null
  /\ copy = Null
  /\ heap = [b \in {} |-> "text"]
  /\ owned = {}
  /\ reply = Null

Next ==
  \/ \E c \in Ctx, e \in {"none", "nix error"} : NixCall(c, e)
  \/ \E b \in owned : StringFree(b)
  \/ \E g \in Getters, c, r \in Ctx \cup {Null}, absent \in BOOLEAN : Call(g, c, r, absent)
  \/ Shown \/ ShownGift \/ CopyGift
  \/ NixFails \/ ReturnCopy \/ CopyFailed \/ ReturnAbsent
  \/ Continue

Spec == Init /\ [][Next]_vars

-----------------------------------------------------------------------------
TypeOK ==
  /\ at \in {"idle", "native", "given", "copied", "returned"}
  /\ call \in [getter : Getters, ctx : Ctx \cup {Null}, readCtx : Ctx \cup {Null},
               absent : BOOLEAN]
  /\ passed \in [ctx : Ctx \cup {Null}, readCtx : Ctx \cup {Null}]
  /\ err \in [Ctx -> Errors \cup {"none"}]
  /\ heap \in [DOMAIN heap -> Errors \cup {"text"}] /\ DOMAIN heap \subseteq Block
  /\ owned \subseteq DOMAIN heap
  /\ {given, copy} \subseteq DOMAIN heap \cup {Null}
  /\ reply \in Block \cup {Null}

(* NULL comes with an error on the caller's context and a string without,   *)
(* wherever the getter failed, for every getter that has a context to       *)
(* report on but ErrMsg; so that NULL without an error, from the            *)
(* fingerprint, does mean that there is none.                               *)
NullExplained ==
  at = "returned" /\ call.ctx # Null =>
    /\ reply = Null /\ call.getter # ErrMsg => call.absent \/ err[call.ctx] # "none"
    /\ reply # Null => err[call.ctx] = "none" /\ ~call.absent

(* Between calls nothing is allocated but the strings the caller has to     *)
(* free: not what Nix gave, and not a copy made before Nix failed.          *)
NoLeak == at \in {"idle", "returned"} => DOMAIN heap = owned

(* An error that is read is the one its context held and goes on holding,   *)
(* also when the reader reports on a context that held another.             *)
ErrorRead ==
  at = "returned" /\ call.getter \in ErrorReaders /\ reply # Null =>
    heap[reply] = err[call.readCtx]
=============================================================================
