------------------------------- MODULE MCMarshal -------------------------------
(***************************************************************************)
(* Two goroutines work with options whose list of paths has an item, or    *)
(* with store parameters, of which there is one, and a hash part.  The     *)
(* other structs of GoStructs have the shapes of these.                    *)
(***************************************************************************)
EXTENDS Marshal, TLC

CONSTANTS params, param, options, list, item, hash

MCHoldings == {{options, list, item}, {params, param, hash}}
MCVar == UNION MCHoldings
MCType == options :> StoreGCOptions @@ list :> StorePathList @@ item :> StorePathItem
          @@ params :> StoreParams @@ param :> StoreParam @@ hash :> StorePathHashPart
MCItems == [v \in Var |-> CASE v = params -> {param} [] v = list -> {item} [] OTHER -> {}]
MCNested == [v \in Var |-> IF v = options THEN {list} ELSE {}]

(* Goroutines are interchangeable. *)
Symmetric == Permutations(Proc)
=============================================================================
