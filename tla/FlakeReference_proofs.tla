-------------------------- MODULE FlakeReference_proofs --------------------------
(***************************************************************************)
(* Proofs about FlakeReference for every allocator and any number of       *)
(* handles.                                                                *)
(***************************************************************************)
EXTENDS FlakeReference, TLAPS

-----------------------------------------------------------------------------
(* The inductive invariant.  Besides memory, it says what is true of the    *)
(* parse in each of its phases.                                            *)

InPhase ==
  /\ at # "parsing" => reference = Null /\ capture = NoCapture
  /\ capture.failed => capture.value = Null
  /\ capture # NoCapture /\ ~capture.failed => capture.value # Null
  /\ reference = capture.value => reference = Null
  /\ at \in {"parsing", "handle"} => ~ctxErr
  /\ at = "null" => ctxErr

IInv == TypeOK /\ NoLeak /\ OneOwner /\ InPhase

(* An address that is handed out was not allocated. *)
LEMMA MallocFresh ==
  ASSUME NEW h, NEW b \in Malloc(h)
  PROVE  b \in Block \ h /\ b # Null
BY NullAssumption DEF Malloc

(* The parts that a handle owns. *)
PartsOf(r) == {results[r].reference, results[r].fragment}

(* A part is a part of some handle. *)
LEMMA InPartsOf ==
  ASSUME NEW x
  PROVE  x \in Parts <=> \E r \in DOMAIN results : x \in PartsOf(r)
BY DEF Parts, PartsOf

(* Two handles own different parts. *)
LEMMA Apart ==
  ASSUME OneOwner, NEW r \in DOMAIN results, NEW s \in DOMAIN results, r # s
  PROVE  PartsOf(r) \cap PartsOf(s) \subseteq {Null}
BY DEF OneOwner, PartsOf

-----------------------------------------------------------------------------
(* The invariant holds initially. *)
LEMMA InitIInv == Init => IInv
<1> SUFFICES ASSUME Init PROVE IInv
  OBVIOUS
<1>1. Parts = {} /\ InCall = {Null} /\ DOMAIN results = {} /\ taken = {} /\ heap = {}
  BY DEF Init, Parts, InCall, NoCapture
<1>2. TypeOK /\ InPhase
  BY DEF Init, TypeOK, InPhase, NoCapture
<1> QED BY <1>1, <1>2 DEF IInv, NoLeak, OneOwner

(* A call that returns NULL has freed all that it had allocated. *)
LEMMA ReturnNullIInv ==
  ASSUME IInv, at = "parsing", NEW freed,
         freed \subseteq InCall, InCall \subseteq freed \cup {Null},
         ReturnNull(freed)
  PROVE  IInv'
<1> USE NullAssumption DEF IInv, ReturnNull
<1>1. InCall' = {Null}
  BY DEF InCall, NoCapture
<1>2. Parts' = Parts /\ DOMAIN results' = DOMAIN results /\ taken' = taken /\ heap' = heap \ freed
  BY DEF Parts, Free
<1>3. NoLeak'
  BY <1>1, <1>2 DEF NoLeak, OneOwner, TypeOK
<1>4. OneOwner'
  BY <1>1, <1>2 DEF OneOwner, NoLeak, TypeOK
<1>5. TypeOK' /\ InPhase'
  BY <1>2 DEF TypeOK, InPhase, NoCapture
<1> QED BY <1>3, <1>4, <1>5

(* A part that the caller takes is the caller's alone. *)
LEMMA TakeIInv ==
  ASSUME IInv, at = "idle", NEW r \in DOMAIN results, NEW part \in PartsOf(r),
         taken' = taken \cup ({part} \ {Null}),
         \/ /\ part = results[r].reference
            /\ results' = [results EXCEPT ![r].reference = Null]
         \/ /\ part = results[r].fragment
            /\ results' = [results EXCEPT ![r].fragment = Null],
         UNCHANGED <<at, reference, capture, heap, ctxErr>>
  PROVE  IInv'
<1> USE NullAssumption DEF IInv
<1>1. DOMAIN results' = DOMAIN results /\ InCall' = InCall
  BY DEF InCall
<1>2. PartsOf(r)' \subseteq (PartsOf(r) \ {part}) \cup {Null}
      /\ PartsOf(r) \subseteq PartsOf(r)' \cup {part}
      /\ \A s \in DOMAIN results : s # r => results'[s] = results[s]
  <2>1. /\ results \in [DOMAIN results -> Result] /\ results[r] \in Result
        /\ results[r].reference = results[r].fragment => results[r].reference = Null
    BY DEF TypeOK, OneOwner
  <2>2. CASE part = results[r].reference /\ results' = [results EXCEPT ![r].reference = Null]
    <3>1. results'[r].reference = Null /\ results'[r].fragment = results[r].fragment
      BY <2>1, <2>2 DEF Result
    <3> QED BY <2>1, <2>2, <3>1 DEF PartsOf
  <2>3. CASE part = results[r].fragment /\ results' = [results EXCEPT ![r].fragment = Null]
    <3>1. results'[r].fragment = Null /\ results'[r].reference = results[r].reference
      BY <2>1, <2>3 DEF Result
    <3> QED BY <2>1, <2>3, <3>1 DEF PartsOf
  <2> QED BY <2>2, <2>3
<1>3. \A s \in DOMAIN results : s # r => PartsOf(s)' = PartsOf(s)
  BY <1>2 DEF PartsOf
<1>4. Parts \subseteq Parts' \cup {part} /\ Parts' \subseteq Parts \cup {Null}
  BY <1>1, <1>2, <1>3 DEF Parts, PartsOf
<1>5. part # Null => part \notin Parts'
  <2>1. \A s \in DOMAIN results : s # r => PartsOf(r) \cap PartsOf(s) \subseteq {Null}
    BY Apart
  <2>2. part # Null => \A s \in DOMAIN results' : part \notin PartsOf(s)'
    BY <1>1, <1>2, <1>3, <2>1
  <2> QED BY <2>2 DEF Parts, PartsOf
<1>6. part \in Parts
  BY InPartsOf
<1>7. TypeOK'
  <2>1. part \in Block \cup {Null}
    BY DEF TypeOK, Result, PartsOf
  <2>2. results' \in [DOMAIN results' -> Result]
    BY DEF TypeOK, Result
  <2> QED BY <1>1, <2>1, <2>2 DEF TypeOK
<1>8. InPhase'
  BY DEF InPhase
<1>9. NoLeak'
  BY <1>1, <1>4, <1>5, <1>6 DEF NoLeak
<1>10. OneOwner'
  <2>1. taken' \cap (InCall' \cup DOMAIN results' \cup Parts') = {}
    BY <1>1, <1>4, <1>5, <1>6 DEF OneOwner, TypeOK, InCall
  <2>2. InCall' \cap (DOMAIN results' \cup Parts') \subseteq {Null} /\ DOMAIN results' \cap Parts' = {}
    BY <1>1, <1>4 DEF OneOwner, TypeOK
  <2>3. \A q, s \in DOMAIN results' : q # s => PartsOf(q)' \cap PartsOf(s)' \subseteq {Null}
    BY <1>1, <1>2, <1>3 DEF OneOwner, PartsOf
  <2>4. \A s \in DOMAIN results' : results'[s].reference = results'[s].fragment => results'[s].reference = Null
    BY <1>1, <1>2 DEF OneOwner, TypeOK, Result
  <2> QED BY <2>1, <2>2, <2>3, <2>4 DEF OneOwner, PartsOf
<1> QED BY <1>7, <1>8, <1>9, <1>10

(* Every step of the parse and of the handles preserves the invariant. *)
LEMMA NextIInv == IInv /\ [Next]_vars => IInv'
<1> SUFFICES ASSUME IInv, [Next]_vars PROVE IInv'
  OBVIOUS
<1> USE NullAssumption DEF IInv
<1>1. CASE Parse
  <2>1. InCall' = InCall /\ Parts' = Parts
    BY <1>1 DEF Parse, InPhase, InCall, Parts
  <2>2. NoLeak' /\ OneOwner'
    BY <1>1, <2>1 DEF Parse, NoLeak, OneOwner
  <2>3. TypeOK' /\ InPhase'
    BY <1>1 DEF Parse, TypeOK, NoCapture, InPhase
  <2> QED BY <2>2, <2>3
<1>2. CASE CreateReference
  <2>1. PICK b \in Malloc(heap) : reference' = b /\ heap' = heap \cup {b}
    BY <1>2 DEF CreateReference
  <2>2. b \in Block \ heap /\ b # Null
    BY MallocFresh
  <2>3. InCall' = {b, capture.value} /\ InCall = {Null, capture.value}
    BY <1>2, <2>1 DEF CreateReference, InCall
  <2>4. Parts' = Parts /\ DOMAIN results' = DOMAIN results /\ taken' = taken
    BY <1>2 DEF CreateReference, Parts
  <2>5. NoLeak' /\ b \notin InCall \cup DOMAIN results \cup Parts \cup taken
    BY <2>1, <2>2, <2>3, <2>4 DEF NoLeak
  <2>6. OneOwner'
    BY <1>2, <2>3, <2>4, <2>5 DEF CreateReference, OneOwner
  <2>7. TypeOK' /\ InPhase'
    BY <1>2, <2>1, <2>2, <2>3, <2>5 DEF CreateReference, TypeOK, InPhase
  <2> QED BY <2>5, <2>6, <2>7
<1>3. CASE Capture
  <2>1. CASE capture' = [value |-> Null, failed |-> TRUE] /\ heap' = heap
    BY <1>3, <2>1 DEF Capture, TypeOK, NoCapture, InPhase, NoLeak, OneOwner, InCall, Parts
  <2>2. ASSUME NEW b \in Malloc(heap), capture' = [value |-> b, failed |-> FALSE], heap' = heap \cup {b}
        PROVE  IInv'
    <3>1. b \in Block \ heap /\ b # Null
      BY <2>2, MallocFresh
    <3>2. InCall' = {reference, b} /\ InCall = {reference, Null}
      BY <1>3, <2>2 DEF Capture, NoCapture, InCall
    <3>3. Parts' = Parts /\ DOMAIN results' = DOMAIN results /\ taken' = taken
      BY <1>3 DEF Capture, Parts
    <3>4. NoLeak' /\ b \notin InCall \cup DOMAIN results \cup Parts \cup taken
      BY <2>2, <3>1, <3>2, <3>3 DEF NoLeak
    <3>5. OneOwner'
      BY <1>3, <3>2, <3>3, <3>4 DEF Capture, OneOwner
    <3>6. TypeOK' /\ InPhase'
      BY <1>3, <2>2, <3>1, <3>2, <3>4 DEF Capture, TypeOK, InPhase, NoCapture
    <3> QED BY <3>4, <3>5, <3>6
  <2> QED BY <1>3, <2>1, <2>2 DEF Capture
<1>4. CASE NixFails
  BY <1>4, ReturnNullIInv DEF NixFails, InCall
<1>5. CASE CaptureFailed \/ ResultFails
  BY <1>5, ReturnNullIInv DEF CaptureFailed, ResultFails, NixSucceeds, InCall
<1>6. CASE ReturnResult
  <2>1. PICK b \in Malloc(heap) :
               /\ heap' = heap \cup {b}
               /\ results' = [r \in DOMAIN results \cup {b} |->
                                IF r = b THEN [reference |-> reference, fragment |-> capture.value]
                                ELSE results[r]]
    BY <1>6 DEF ReturnResult, Returns
  <2>2. b \in Block \ heap /\ b # Null
    BY MallocFresh
  <2>3. /\ DOMAIN results' = DOMAIN results \cup {b} /\ b \notin DOMAIN results
        /\ PartsOf(b)' = InCall
        /\ \A r \in DOMAIN results : results'[r] = results[r] /\ PartsOf(r)' = PartsOf(r)
    BY <2>1, <2>2 DEF NoLeak, PartsOf, InCall
  <2>4. Parts' = Parts \cup InCall
    BY <2>3 DEF Parts, PartsOf
  <2>5. InCall' = {Null} /\ taken' = taken /\ Null \notin InCall
    BY <1>6 DEF ReturnResult, Returns, NixSucceeds, InCall, NoCapture, InPhase
  <2>6. NoLeak' /\ b \notin InCall \cup DOMAIN results \cup Parts \cup taken
    BY <2>1, <2>2, <2>3, <2>4, <2>5 DEF NoLeak
  <2>7. OneOwner'
    <3>1. taken' \cap (InCall' \cup DOMAIN results' \cup Parts') = {}
      BY <2>3, <2>4, <2>5, <2>6 DEF OneOwner, TypeOK
    <3>2. InCall' \cap (DOMAIN results' \cup Parts') \subseteq {Null} /\ DOMAIN results' \cap Parts' = {}
      BY <2>3, <2>4, <2>5, <2>6 DEF OneOwner
    <3>3. \A r \in DOMAIN results : PartsOf(r) \subseteq Parts
      BY InPartsOf
    <3>4. \A q, s \in DOMAIN results' : q # s => PartsOf(q)' \cap PartsOf(s)' \subseteq {Null}
      BY <2>3, <3>3 DEF OneOwner, PartsOf
    <3>5. \A s \in DOMAIN results' : results'[s].reference = results'[s].fragment => results'[s].reference = Null
      BY <2>1, <2>3 DEF OneOwner, InPhase
    <3> QED BY <3>1, <3>2, <3>4, <3>5 DEF OneOwner, PartsOf
  <2>8. TypeOK' /\ InPhase'
    <3>1. [reference |-> reference, fragment |-> capture.value] \in Result
      BY DEF TypeOK, Result
    <3>2. DOMAIN results' \subseteq Block /\ results' \in [DOMAIN results' -> Result]
      BY <2>1, <2>2, <2>3, <3>1 DEF TypeOK
    <3> QED BY <1>6, <2>1, <2>2, <3>2 DEF ReturnResult, Returns, NixSucceeds, TypeOK, InPhase, NoCapture
  <2> QED BY <2>6, <2>7, <2>8
<1>7. CASE Continue
  BY <1>7 DEF Continue, TypeOK, InPhase, NoLeak, OneOwner, InCall, Parts
<1>8. ASSUME NEW r \in DOMAIN results, TakeReference(r) \/ TakeFragment(r) PROVE IInv'
  BY <1>8, TakeIInv DEF TakeReference, TakeFragment, Given, PartsOf
<1>9. ASSUME NEW r \in DOMAIN results, ResultFree(r) PROVE IInv'
  <2>1. /\ heap' = heap \ ({r} \cup PartsOf(r))
        /\ DOMAIN results' = DOMAIN results \ {r}
        /\ \A s \in DOMAIN results' : results'[s] = results[s] /\ PartsOf(s)' = PartsOf(s)
        /\ taken' = taken /\ InCall' = InCall
    BY <1>9 DEF ResultFree, Free, PartsOf, InCall
  <2>2. Parts' \subseteq Parts /\ Parts \subseteq Parts' \cup PartsOf(r)
    BY <2>1 DEF Parts, PartsOf
  <2>3. PartsOf(r) \subseteq Parts
    BY InPartsOf
  <2>4. Parts' \cap PartsOf(r) \subseteq {Null}
    <3>1. \A s \in DOMAIN results' : PartsOf(r) \cap PartsOf(s)' \subseteq {Null}
      BY <2>1, Apart
    <3> QED BY <3>1 DEF Parts, PartsOf
  <2>5. InCall = {Null}
    BY <1>9 DEF ResultFree, InPhase, InCall, NoCapture
  <2>6. NoLeak'
    BY <2>1, <2>2, <2>3, <2>4, <2>5 DEF NoLeak, OneOwner, TypeOK
  <2>7. OneOwner'
    BY <2>1, <2>2 DEF OneOwner
  <2>8. TypeOK' /\ InPhase'
    BY <1>9, <2>1 DEF ResultFree, TypeOK, InPhase
  <2> QED BY <2>6, <2>7, <2>8
<1>10. ASSUME NEW p \in taken, FreeTaken(p) PROVE IInv'
  <2>1. /\ heap' = heap \ {p} /\ taken' = taken \ {p}
        /\ DOMAIN results' = DOMAIN results /\ Parts' = Parts /\ InCall' = InCall
    BY <1>10 DEF FreeTaken, Free, Parts, InCall
  <2>2. NoLeak'
    BY <2>1 DEF NoLeak, OneOwner
  <2>3. OneOwner'
    BY <1>10, <2>1 DEF FreeTaken, OneOwner
  <2>4. TypeOK' /\ InPhase'
    BY <1>10, <2>1 DEF FreeTaken, TypeOK, InPhase
  <2> QED BY <2>2, <2>3, <2>4
<1>11. CASE UNCHANGED vars
  BY <1>11 DEF vars, TypeOK, InPhase, NoLeak, OneOwner, InCall, Parts
<1> QED BY <1>1, <1>2, <1>3, <1>4, <1>5, <1>6, <1>7, <1>8, <1>9, <1>10, <1>11 DEF Next

(* The invariant holds in every state of every behaviour. *)
LEMMA Inductive == Spec => []IInv
BY InitIInv, NextIInv, PTL DEF Spec

-----------------------------------------------------------------------------
(* The handles and the parse keep their types.                              *)
THEOREM TypeCorrect == Spec => []TypeOK
<1>1. IInv => TypeOK
  BY DEF IInv
<1> QED BY Inductive, <1>1, PTL

(* Whatever failed and whatever was taken, the allocated memory is what the *)
(* running call, the handles and the caller can free.                       *)
THEOREM NothingLeaks == Spec => []NoLeak
<1>1. IInv => NoLeak
  BY DEF IInv
<1> QED BY Inductive, <1>1, PTL

(* No object has two owners: what was taken is not freed with the handle.   *)
THEOREM OwnersAreDisjoint == Spec => []OneOwner
<1>1. IInv => OneOwner
  BY DEF IInv
<1> QED BY Inductive, <1>1, PTL

(* A handle that is returned is complete, and NULL comes with an error.     *)
THEOREM HandleIsComplete == Spec => CompleteOrReported
<1>1. IInv /\ IInv' /\ [Next]_vars =>
        [/\ at' = "null" => ctxErr'
         /\ at' = "handle" => ~ctxErr'
         /\ \A r \in DOMAIN results' \ DOMAIN results :
              Null \notin {results'[r].reference, results'[r].fragment}]_vars
  <2> SUFFICES ASSUME IInv, IInv', Next, NEW r \in DOMAIN results' \ DOMAIN results
               PROVE  Null \notin {results'[r].reference, results'[r].fragment}
    BY DEF IInv, InPhase
  <2>1. ReturnResult
    BY DEF Next, Parse, CreateReference, Capture, NixFails, CaptureFailed, ResultFails, ReturnNull,
      Continue, TakeReference, TakeFragment, ResultFree, FreeTaken, IInv, TypeOK
  <2> QED BY <2>1 DEF ReturnResult, Returns, NixSucceeds, IInv, InPhase
<1> QED BY Inductive, <1>1, PTL DEF Spec, CompleteOrReported
=============================================================================
