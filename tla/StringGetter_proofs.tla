--------------------------- MODULE StringGetter_proofs ---------------------------
(***************************************************************************)
(* Proofs about StringGetter for every allocator and any number of error   *)
(* contexts and strings.                                                   *)
(***************************************************************************)
EXTENDS StringGetter, TLAPS

-----------------------------------------------------------------------------
(* The inductive invariant. *)

(* What a call knows: its contexts are the ones Go passed, the one to        *)
(* report on is clean until the shim or Nix fails, and what was copied of   *)
(* an error is that error.                                                 *)
CallKnown ==
  /\ passed = Contexts(call.ctx, call.readCtx)
  /\ call.getter \in WithoutContext => call.ctx = Null
  /\ call.getter \in ErrorReaders => call.readCtx \in Ctx /\ call.readCtx # call.ctx
  /\ call.absent => call.getter.shim.optional
  /\ at \in {"native", "given", "copied"} /\ call.ctx # Null => err[call.ctx] = "none"
  /\ at \in {"given", "copied"} => ~call.absent
  /\ at = "copied" /\ copy # Null /\ call.getter \in ErrorReaders =>
       heap[copy] = err[call.readCtx]

(* Which of the two blocks of a call there are, and that nothing else is    *)
(* allocated but the caller's strings.                                     *)
Memory ==
  /\ at \in {"idle", "native", "returned"} => given = Null
  /\ at # "copied" => copy = Null
  /\ at = "given" => given # Null
  /\ given # Null => call.getter.shim.shows = "gift"
  /\ DOMAIN heap = owned \cup ({given, copy} \ {Null})
  /\ given \notin owned /\ copy \notin owned
  /\ given = copy => given = Null

IInv == TypeOK /\ CallKnown /\ Memory /\ NullExplained /\ ErrorRead

(* What the shims and the wrappers have in common: a wrapper that can       *)
(* report a copy that failed does, but for ErrMsg; what may be absent is    *)
(* neither an error nor allocated by Nix.                                  *)
LEMMA GettersAre ==
  ASSUME NEW g \in Getters
  PROVE  /\ g \notin WithoutContext /\ g # ErrMsg => Reports(g)
         /\ g.shim.optional => g \notin ErrorReaders /\ g.shim.shows # "gift"
         /\ g \in ErrorReaders => g \notin WithoutContext /\ g.shim.shows # "gift"
BY DEF Getters, WithoutContext, ErrorReaders, Reports,
  SettingGet, VersionGet, ErrMsg, ErrInfoMsg, ErrName, StoreGetUri, StoreGetStoredir,
  StoreGetVersion, StoreRealPath, StorePathName, DerivationToJson, GetTypename, GetString,
  GetPathString, GetAttrNameByidx, RealisedStringGetBuffer, LockedFlakeGetLockJson,
  LockedFlakeGetFingerprint, Wrapper, Shim,
  go_nix_setting_get, go_nix_err_info_msg, go_nix_err_name, go_nix_store_get_string,
  go_nix_store_real_path, go_nix_store_path_name, go_nix_derivation_to_json, go_nix_get_string,
  go_nix_get_path_string, go_nix_get_attr_name_byidx, go_nix_version_get, go_nix_err_msg,
  go_nix_realised_string_get_buffer, go_nix_get_typename, go_nix_locked_flake_get_lock_json,
  go_nix_locked_flake_get_fingerprint

(* An address that is handed out was not allocated. *)
LEMMA MallocFresh ==
  ASSUME NEW b \in Malloc
  PROVE  b \in Block \ DOMAIN heap /\ b # Null
BY NullAssumption DEF Malloc

-----------------------------------------------------------------------------
(* The invariant holds initially. *)
LEMMA InitIInv == Init => IInv
<1> SUFFICES ASSUME Init PROVE IInv
  OBVIOUS
<1>1. VersionGet \in Getters /\ VersionGet \notin ErrorReaders
  BY DEF Getters, ErrorReaders, VersionGet, Wrapper
<1>2. DOMAIN heap = {} /\ at = "idle" /\ given = Null /\ copy = Null /\ owned = {}
      /\ call.getter = VersionGet /\ call.ctx = Null /\ call.absent = FALSE
  BY DEF Init
<1>3. TypeOK
  BY <1>1, <1>2 DEF Init, TypeOK
<1>4. CallKnown
  BY <1>1, <1>2 DEF Init, CallKnown, Contexts
<1>5. Memory /\ NullExplained /\ ErrorRead
  BY <1>2 DEF Memory, NullExplained, ErrorRead
<1> QED BY <1>3, <1>4, <1>5 DEF IInv

(* The end of a call keeps at most one of its blocks: the caller's string.  *)
LEMMA FinishMemory ==
  ASSUME IInv, at # "idle", NEW blocks, NEW result \in {Null, copy},
         Finish(blocks, result), given \in blocks \cup {Null},
         copy \in blocks \cup {result, Null}, blocks \subseteq {given, copy},
         result # Null => result \notin blocks
  PROVE  /\ Memory'
         /\ reply' = result /\ result \in Block \cup {Null}
         /\ heap' \in [DOMAIN heap' -> Errors \cup {"text"}]
         /\ DOMAIN heap' \subseteq Block /\ owned' \subseteq DOMAIN heap'
         /\ result # Null => heap'[result] = heap[result]
<1> USE NullAssumption DEF IInv, Finish
<1>1. DOMAIN heap' = DOMAIN heap \ blocks /\ \A b \in DOMAIN heap' : heap'[b] = heap[b]
  BY DEF Without
<1>2. owned \cap blocks = {} /\ owned \subseteq Block /\ {given, copy} \subseteq Block \cup {Null}
  BY DEF Memory, TypeOK
<1>3. DOMAIN heap' = owned'
  BY <1>1, <1>2 DEF Memory, TypeOK
<1>4. Memory'
  BY <1>2, <1>3 DEF Memory
<1>5. heap' \in [DOMAIN heap' -> Errors \cup {"text"}] /\ DOMAIN heap' \subseteq Block
  BY <1>1 DEF TypeOK, Without
<1> QED BY <1>1, <1>2, <1>3, <1>4, <1>5

(* Every step of a getter or of a caller preserves the invariant. *)
LEMMA NextIInv == IInv /\ [Next]_vars => IInv'
<1> SUFFICES ASSUME IInv, [Next]_vars PROVE IInv'
  OBVIOUS
<1> USE NullAssumption DEF IInv
<1>1. ASSUME NEW c \in Ctx, NEW e \in {"none", "nix error"}, NixCall(c, e) PROVE IInv'
  <2>1. TypeOK'
    BY <1>1 DEF NixCall, TypeOK, Errors
  <2> QED BY <1>1, <2>1 DEF NixCall, CallKnown, Memory, NullExplained, ErrorRead
<1>2. ASSUME NEW b \in owned, StringFree(b) PROVE IInv'
  <2>1. DOMAIN heap' = DOMAIN heap \ {b} /\ heap' \in [DOMAIN heap' -> Errors \cup {"text"}]
    BY <1>2 DEF StringFree, Without, TypeOK
  <2>2. TypeOK'
    BY <1>2, <2>1 DEF StringFree, TypeOK, Memory
  <2>3. Memory'
    BY <1>2, <2>1 DEF StringFree, Memory
  <2> QED BY <1>2, <2>2, <2>3 DEF StringFree, CallKnown, NullExplained, ErrorRead
<1>3. ASSUME NEW g \in Getters, NEW c \in Ctx \cup {Null}, NEW r \in Ctx \cup {Null},
             NEW absent \in BOOLEAN, Call(g, c, r, absent)
      PROVE  IInv'
  <2>1. TypeOK'
    BY <1>3 DEF Call, Contexts, TypeOK, Errors
  <2>2. CallKnown'
    BY <1>3, GettersAre DEF Call, MayCall, Contexts, CallKnown, TypeOK
  <2>3. Memory'
    BY <1>3 DEF Call, Memory
  <2> QED BY <1>3, <2>1, <2>2, <2>3 DEF Call, NullExplained, ErrorRead
<1>4. CASE Shown
  <2>1. PICK word \in Words : Copied(word)
    BY <1>4 DEF Shown
  <2>2. /\ word \in Errors \cup {"text"} /\ ~call.absent
        /\ call.getter \in ErrorReaders => word = err[call.readCtx]
    BY <1>4, <2>1, GettersAre DEF Shown, Words, CallKnown, Contexts, TypeOK
  <2>3. CASE copy' = Null /\ heap' = heap
    BY <1>4, <2>2, <2>3 DEF Shown, TypeOK, CallKnown, Memory, NullExplained, ErrorRead
  <2>4. ASSUME NEW b \in Malloc, copy' = b, heap' = Store(b, word) PROVE IInv'
    <3>1. b \in Block \ DOMAIN heap /\ b # Null
      BY MallocFresh
    <3>2. /\ DOMAIN heap' = DOMAIN heap \cup {b} /\ heap'[b] = word
          /\ heap' \in [DOMAIN heap' -> Errors \cup {"text"}]
      BY <2>2, <2>4 DEF Store, TypeOK
    <3>3. TypeOK'
      BY <1>4, <2>4, <3>1, <3>2 DEF Shown, TypeOK
    <3>4. CallKnown'
      BY <1>4, <2>2, <2>4, <3>2 DEF Shown, CallKnown
    <3>5. Memory'
      BY <1>4, <2>4, <3>1, <3>2 DEF Shown, Memory
    <3> QED BY <1>4, <3>3, <3>4, <3>5 DEF Shown, NullExplained, ErrorRead
  <2> QED BY <2>1, <2>3, <2>4 DEF Copied
<1>5. CASE ShownGift
  <2>1. PICK b \in Malloc : given' = b /\ heap' = Store(b, "text")
    BY <1>5 DEF ShownGift
  <2>2. b \in Block \ DOMAIN heap /\ b # Null
    BY MallocFresh
  <2>3. DOMAIN heap' = DOMAIN heap \cup {b} /\ heap' \in [DOMAIN heap' -> Errors \cup {"text"}]
    BY <2>1 DEF Store, TypeOK
  <2>4. TypeOK'
    BY <1>5, <2>1, <2>2, <2>3 DEF ShownGift, TypeOK
  <2>5. CallKnown'
    BY <1>5, GettersAre DEF ShownGift, CallKnown, TypeOK
  <2>6. Memory'
    BY <1>5, <2>1, <2>2, <2>3 DEF ShownGift, Memory
  <2> QED BY <1>5, <2>4, <2>5, <2>6 DEF ShownGift, NullExplained, ErrorRead
<1>6. CASE CopyGift
  <2>1. call.getter \notin ErrorReaders
    BY <1>6, GettersAre DEF CopyGift, Memory, TypeOK
  <2>2. CASE copy' = Null /\ heap' = heap
    BY <1>6, <2>2 DEF CopyGift, TypeOK, CallKnown, Memory, NullExplained, ErrorRead
  <2>3. ASSUME NEW b \in Malloc, copy' = b, heap' = Store(b, heap[given]) PROVE IInv'
    <3>1. b \in Block \ DOMAIN heap /\ b # Null
      BY MallocFresh
    <3>2. heap[given] \in Errors \cup {"text"}
      BY <1>6 DEF CopyGift, Memory, TypeOK
    <3>3. DOMAIN heap' = DOMAIN heap \cup {b} /\ heap' \in [DOMAIN heap' -> Errors \cup {"text"}]
      BY <2>3, <3>2 DEF Store, TypeOK
    <3>4. TypeOK'
      BY <1>6, <2>3, <3>1, <3>3 DEF CopyGift, TypeOK
    <3>5. CallKnown'
      BY <1>6, <2>1 DEF CopyGift, CallKnown
    <3>6. Memory'
      BY <1>6, <2>3, <3>1, <3>3 DEF CopyGift, Memory
    <3> QED BY <1>6, <3>4, <3>5, <3>6 DEF CopyGift, NullExplained, ErrorRead
  <2> QED BY <1>6, <2>2, <2>3 DEF CopyGift, Copied
<1>7. CASE NixFails
  <2>1. /\ given = Null /\ Finish({copy}, Null)
        /\ call.ctx \in Ctx /\ err' = [err EXCEPT ![call.ctx] = "nix error"]
        /\ at # "idle"
    BY <1>7 DEF NixFails, Memory, CallKnown, Contexts, SetError, TypeOK
  <2>2. Memory' /\ reply' = Null /\ heap' \in [DOMAIN heap' -> Errors \cup {"text"}]
        /\ DOMAIN heap' \subseteq Block /\ owned' \subseteq DOMAIN heap'
    BY <2>1, FinishMemory
  <2>3. TypeOK' /\ NullExplained' /\ ErrorRead'
    BY <2>1, <2>2 DEF Finish, TypeOK, Errors, NullExplained, ErrorRead
  <2>4. CallKnown'
    BY <2>1 DEF Finish, CallKnown
  <2> QED BY <2>2, <2>3, <2>4
<1>8. CASE ReturnCopy
  <2>1. Finish({given}, copy) /\ err' = err /\ at = "copied" /\ copy # Null
    BY <1>8 DEF ReturnCopy
  <2>2. /\ Memory' /\ reply' = copy /\ heap' \in [DOMAIN heap' -> Errors \cup {"text"}]
        /\ DOMAIN heap' \subseteq Block /\ owned' \subseteq DOMAIN heap'
        /\ heap'[copy] = heap[copy] /\ copy \in Block
    BY <2>1, FinishMemory DEF Memory
  <2>3. TypeOK'
    BY <2>1, <2>2 DEF Finish, TypeOK
  <2>4. NullExplained' /\ ErrorRead'
    BY <2>1, <2>2 DEF Finish, CallKnown, NullExplained, ErrorRead
  <2>5. CallKnown'
    BY <2>1 DEF Finish, CallKnown
  <2> QED BY <2>2, <2>3, <2>4, <2>5
<1>9. CASE CopyFailed
  <2>1. Finish({given}, Null) /\ at = "copied" /\ copy = Null
        /\ err' = IF Reports(call.getter) THEN SetError(call.ctx, "shim error") ELSE err
    BY <1>9 DEF CopyFailed
  <2>2. Memory' /\ reply' = Null /\ heap' \in [DOMAIN heap' -> Errors \cup {"text"}]
        /\ DOMAIN heap' \subseteq Block /\ owned' \subseteq DOMAIN heap'
    BY <2>1, FinishMemory
  <2>3. TypeOK'
    BY <2>1, <2>2 DEF Finish, TypeOK, SetError, Errors
  <2>4. NullExplained'
    <3> SUFFICES ASSUME call.ctx # Null, call.getter # ErrMsg PROVE err'[call.ctx] # "none"
      BY <2>1, <2>2 DEF Finish, NullExplained
    <3>1. Reports(call.getter) /\ call.ctx \in Ctx
      BY GettersAre DEF CallKnown, TypeOK
    <3> QED BY <2>1, <3>1 DEF SetError, TypeOK
  <2>5. ErrorRead' /\ CallKnown'
    BY <2>1, <2>2 DEF Finish, ErrorRead, CallKnown
  <2> QED BY <2>2, <2>3, <2>4, <2>5
<1>10. CASE ReturnAbsent
  <2>1. Finish({}, Null) /\ err' = err /\ at = "native" /\ call.absent
    BY <1>10 DEF ReturnAbsent
  <2>2. given = Null /\ copy = Null
    BY <2>1 DEF Memory
  <2>3. Memory' /\ reply' = Null /\ heap' \in [DOMAIN heap' -> Errors \cup {"text"}]
        /\ DOMAIN heap' \subseteq Block /\ owned' \subseteq DOMAIN heap'
    BY <2>1, <2>2, FinishMemory
  <2>4. TypeOK' /\ NullExplained' /\ ErrorRead' /\ CallKnown'
    BY <2>1, <2>3 DEF Finish, TypeOK, NullExplained, ErrorRead, CallKnown
  <2> QED BY <2>3, <2>4
<1>11. CASE Continue
  BY <1>11 DEF Continue, TypeOK, CallKnown, Memory, NullExplained, ErrorRead
<1>12. CASE UNCHANGED vars
  BY <1>12 DEF vars, TypeOK, CallKnown, Memory, NullExplained, ErrorRead
<1> QED
  BY <1>1, <1>2, <1>3, <1>4, <1>5, <1>6, <1>7, <1>8, <1>9, <1>10, <1>11, <1>12 DEF Next

(* The invariant holds in every state of every behaviour. *)
LEMMA Inductive == Spec => []IInv
BY InitIInv, NextIInv, PTL DEF Spec

-----------------------------------------------------------------------------
(* Calls, contexts and blocks keep their types, for all 18 wrappers.        *)
THEOREM TypeCorrect == Spec => []TypeOK
<1>1. IInv => TypeOK
  BY DEF IInv
<1> QED BY Inductive, <1>1, PTL

(* NULL comes with an error on the caller's context and a string without,   *)
(* for every wrapper but ErrMsg, wherever Nix or the copy failed.           *)
THEOREM FailureIsReported == Spec => []NullExplained
<1>1. IInv => NullExplained
  BY DEF IInv
<1> QED BY Inductive, <1>1, PTL

(* Between calls only the strings that the caller has to free are allocated. *)
THEOREM NothingLeaks == Spec => []NoLeak
<1>1. IInv => NoLeak
  BY DEF IInv, TypeOK, Memory, NoLeak
<1> QED BY Inductive, <1>1, PTL

(* The error that is read is the one its own context holds, whatever is     *)
(* reported on the other one.                                              *)
THEOREM ErrorIsTheOneHeld == Spec => []ErrorRead
<1>1. IInv => ErrorRead
  BY DEF IInv
<1> QED BY Inductive, <1>1, PTL
=============================================================================
