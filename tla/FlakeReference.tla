---------------------------- MODULE FlakeReference ----------------------------
(***************************************************************************)
(* go_nix_flake_reference_and_fragment_from_string and the result handle   *)
(* it returns (nix_go_flake.c): a reference object of Nix and a fragment   *)
(* string copied in a callback, each of which the caller can take out of   *)
(* the handle before or instead of freeing the handle.                     *)
(*                                                                         *)
(* Every allocation may fail, and Nix may fail as long as it has not       *)
(* handed out the reference, whether or not it has called the callback.    *)
(* The caller passes a context: the shim sets its own errors on it without *)
(* asking whether it is NULL.                                              *)
(***************************************************************************)
EXTENDS Naturals, FiniteSets

CONSTANTS
  Block,     \* addresses of references, fragments and results
  Null,      \* the null pointer
  MaxTaken,  \* bound: objects the caller holds at once
  MaxResults \* bound: result handles the caller holds at once

ASSUME NullAssumption == Null \notin Block
ASSUME BoundAssumption == MaxTaken \in Nat /\ MaxResults \in Nat

VARIABLES
  at,        \* where the parse is
  reference, \* the reference Nix returned in this call
  capture,   \* what the callback captured in this call
  results,   \* the result structs of the handles the caller holds, by address
  taken,     \* references and fragments that are the caller's
  heap,      \* the addresses that are allocated
  ctxErr     \* the context of the call holds an error

vars == <<at, reference, capture, results, taken, heap, ctxErr>>

NoCapture == [value |-> Null, failed |-> FALSE]

(* The address malloc, or Nix, returns when it does not fail. *)
Malloc(h) == IF Block \ h = {} THEN {} ELSE {CHOOSE b \in Block \ h : TRUE}

(* free(NULL) and nix_flake_reference_free(NULL) do nothing. *)
Free(h, pointers) == h \ pointers

-----------------------------------------------------------------------------
(* The parse. *)

Parse ==
  /\ at = "idle"
  /\ Cardinality(DOMAIN results) < MaxResults
  /\ at' = "parsing"
  /\ reference' = Null
  /\ capture' = NoCapture
  /\ ctxErr' = FALSE
  /\ UNCHANGED <<results, taken, heap>>

(* Nix hands out the reference and calls the callback, which copies the     *)
(* fragment or notes that it could not.                                     *)
CreateReference ==
  /\ at = "parsing"
  /\ reference = Null
  /\ \E b \in Malloc(heap) : reference' = b /\ heap' = heap \cup {b}
  /\ UNCHANGED <<at, capture, results, taken, ctxErr>>

Capture ==
  /\ at = "parsing"
  /\ capture = NoCapture
  /\ \/ \E b \in Malloc(heap) :
          capture' = [value |-> b, failed |-> FALSE] /\ heap' = heap \cup {b}
     \/ capture' = [value |-> Null, failed |-> TRUE] /\ heap' = heap
  /\ UNCHANGED <<at, reference, results, taken, ctxErr>>

NixSucceeds == at = "parsing" /\ reference # Null /\ capture # NoCapture

(* Defect: an error of the shim itself is not reported. *)
ReturnNullSilently(freed) ==
  /\ at' = "null"
  /\ heap' = Free(heap, freed)
  /\ reference' = Null
  /\ capture' = NoCapture
  /\ UNCHANGED <<results, taken, ctxErr>>

ReturnNull(freed) ==
  /\ at' = "null"
  /\ heap' = Free(heap, freed)
  /\ reference' = Null
  /\ capture' = NoCapture
  /\ ctxErr' = TRUE
  /\ UNCHANGED <<results, taken>>

NixFails ==
  /\ at = "parsing"
  /\ reference = Null
  /\ ReturnNull({capture.value})

(* Defect: the reference of the otherwise successful call is forgotten. *)
CaptureFailedKeeping ==
  /\ NixSucceeds
  /\ capture.failed
  /\ ReturnNull({capture.value})

(* The capture failed: the reference of the otherwise successful call is    *)
(* freed.                                                                   *)
CaptureFailed ==
  /\ NixSucceeds
  /\ capture.failed
  /\ ReturnNull({reference, capture.value})

(* The result struct is filled in, at its address, and returned. *)
Returns(b) ==
  /\ results' = [r \in DOMAIN results \cup {b} |->
                   IF r = b THEN [reference |-> reference, fragment |-> capture.value]
                   ELSE results[r]]
  /\ reference' = Null
  /\ capture' = NoCapture
  /\ at' = "handle"
  /\ UNCHANGED <<taken, ctxErr>>

(* Defect: the NULL that calloc returns is not tested. *)
ResultUnchecked ==
  /\ NixSucceeds
  /\ ~capture.failed
  /\ heap' = heap
  /\ Returns(Null)

ResultFails ==
  /\ NixSucceeds
  /\ ~capture.failed
  /\ ReturnNull({reference, capture.value})

ReturnResult ==
  /\ NixSucceeds
  /\ ~capture.failed
  /\ \E b \in Malloc(heap) : heap' = heap \cup {b} /\ Returns(b)

Continue ==
  /\ at \in {"null", "handle"}
  /\ at' = "idle"
  /\ UNCHANGED <<reference, capture, results, taken, heap, ctxErr>>

-----------------------------------------------------------------------------
(* The handle.  What was taken once is NULL the second time. *)

Given(p) == taken' = taken \cup ({p} \ {Null})

(* Defect: the handle keeps what was taken. *)
TakeReferenceKeeping(r) ==
  /\ at = "idle"
  /\ Cardinality(taken) < MaxTaken
  /\ Given(results[r].reference)
  /\ UNCHANGED <<at, reference, capture, results, heap, ctxErr>>

TakeReference(r) ==
  /\ at = "idle"
  /\ Cardinality(taken) < MaxTaken
  /\ Given(results[r].reference)
  /\ results' = [results EXCEPT ![r].reference = Null]
  /\ UNCHANGED <<at, reference, capture, heap, ctxErr>>

TakeFragment(r) ==
  /\ at = "idle"
  /\ Cardinality(taken) < MaxTaken
  /\ Given(results[r].fragment)
  /\ results' = [results EXCEPT ![r].fragment = Null]
  /\ UNCHANGED <<at, reference, capture, heap, ctxErr>>

ResultFree(r) ==
  /\ at = "idle"
  /\ heap' = Free(heap, {r, results[r].reference, results[r].fragment})
  /\ results' = [s \in DOMAIN results \ {r} |-> results[s]]
  /\ UNCHANGED <<at, reference, capture, taken, ctxErr>>

(* The caller frees what it took: FlakeReferenceFree or StringFree. *)
FreeTaken(p) ==
  /\ at = "idle"
  /\ heap' = Free(heap, {p})
  /\ taken' = taken \ {p}
  /\ UNCHANGED <<at, reference, capture, results, ctxErr>>

-----------------------------------------------------------------------------
Init ==
  /\ at = "idle"
  /\ reference = Null
  /\ capture = NoCapture
  /\ results = [r \in {} |-> Null]
  /\ taken = {}
  /\ heap = {}
  /\ ctxErr = FALSE

Next ==
  \/ Parse
  \/ CreateReference \/ Capture \/ NixFails \/ CaptureFailed
  \/ ResultFails \/ ReturnResult \/ Continue
  \/ \E r \in DOMAIN results : TakeReference(r) \/ TakeFragment(r) \/ ResultFree(r)
  \/ \E p \in taken : FreeTaken(p)

Spec == Init /\ [][Next]_vars

-----------------------------------------------------------------------------
Result == [reference : Block \cup {Null}, fragment : Block \cup {Null}]

TypeOK ==
  /\ at \in {"idle", "parsing", "null", "handle"}
  /\ reference \in Block \cup {Null}
  /\ capture \in [value : Block \cup {Null}, failed : BOOLEAN]
  /\ DOMAIN results \subseteq Block /\ results \in [DOMAIN results -> Result]
  /\ taken \in SUBSET Block
  /\ heap \in SUBSET Block
  /\ ctxErr \in BOOLEAN

(* The parts of the results that the results still own. *)
Parts == UNION {{results[r].reference, results[r].fragment} : r \in DOMAIN results}
InCall == {reference, capture.value}

(* Whatever failed and whatever was taken before or after, the allocated    *)
(* memory is what the running call, the handles and the caller can free.    *)
NoLeak == heap = (InCall \cup DOMAIN results \cup Parts \cup taken) \ {Null}

(* Nothing the caller has taken is freed with the handle, and nothing is    *)
(* freed twice: no object has two owners.                                   *)
OneOwner ==
  /\ taken \cap (InCall \cup DOMAIN results \cup Parts) = {}
  /\ InCall \cap (DOMAIN results \cup Parts) \subseteq {Null}
  /\ DOMAIN results \cap Parts = {}
  /\ \A r, s \in DOMAIN results :
       r # s => {results[r].reference, results[r].fragment}
                  \cap {results[s].reference, results[s].fragment} \subseteq {Null}
  /\ \A r \in DOMAIN results :
       results[r].reference = results[r].fragment => results[r].reference = Null

(* A handle is complete when it is returned, and NULL comes with an error   *)
(* on the context, even where Nix itself had succeeded.                     *)
CompleteOrReported ==
  [][/\ at' = "null" => ctxErr'
     /\ at' = "handle" => ~ctxErr'
     /\ \A r \in DOMAIN results' \ DOMAIN results :
          Null \notin {results'[r].reference, results'[r].fragment}]_vars
=============================================================================
