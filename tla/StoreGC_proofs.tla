----------------------------- MODULE StoreGC_proofs -----------------------------
(***************************************************************************)
(* Proofs about StoreGC for any finite number of store paths and links.    *)
(***************************************************************************)
EXTENDS StoreGC, FiniteSetTheorems, TLAPS

-----------------------------------------------------------------------------
(* The inductive invariant. *)

(* A path that somebody was promised has a root. *)
Rooted == \A p \in granted : p \in temp \/ links[p] # {}

(* While Nix collects, its options are those of a request that was accepted. *)
Accepted ==
  at = "collecting" =>
    ~UsageError(request) /\ ~Unsupported(request) /\ options = CppOptions(request)

(* What the handles and the accessors hold in each phase. *)
Handles ==
  /\ at \notin {"collecting", "handle"} => reported = {}
  /\ at # "handle" => results = Null
  /\ at \in {"begun", "collecting"} => ~ctxErr
  /\ roots # Null => at = "idle"
  /\ roots = Null /\ at # "handle" => told = Null

IInv == TypeOK /\ Rooted /\ Accepted /\ Handles /\ OutcomeExplained

-----------------------------------------------------------------------------
(* A finite set in some order lists each of its elements once. *)
LEMMA SetToSeqLists ==
  ASSUME NEW S, IsFiniteSet(S)
  PROVE  ToSet(SetToSeq(S)) = S /\ Len(SetToSeq(S)) = Cardinality(S)
<1> DEFINE n == Cardinality(S)
           f == SetToSeq(S)
<1>1. n \in Nat /\ ExistsBijection(1 .. n, S)
  BY FS_CardinalityType
<1>2. \E g \in [1 .. n -> S] : IsInjective(g)
  BY <1>1 DEF ExistsBijection, Bijection, Injection
<1>3. f \in [1 .. n -> S] /\ IsInjective(f)
  BY <1>2 DEF SetToSeq
<1>4. IsFiniteSet(1 .. n) /\ Cardinality(1 .. n) = n
  BY <1>1, FS_Interval
<1>5. f \in Injection(1 .. n, S)
  BY <1>3 DEF Injection
<1> HIDE DEF f
<1>6. f \in Surjection(1 .. n, S)
  BY <1>4, <1>5, FS_Injection
<1>7. ToSet(f) = S
  BY <1>3, <1>6 DEF Surjection, ToSet
<1>8. Len(f) = n
  BY <1>1, <1>3
<1> QED BY <1>7, <1>8 DEF f

(* What is known of any request. *)
LEMMA RequestsAre ==
  ASSUME NEW r \in Requests
  PROVE  /\ r.action \in 0 .. 4 /\ r.maxFreed \in Nat
         /\ Listed(r) \subseteq Path \cup {Null}
<1>1. r.action \in 0 .. 4 /\ r.maxFreed \in Nat /\ r.paths \in Lists
  BY FiniteAssumption, FS_CardinalityType DEF Requests
<1>2. \A i \in DOMAIN r.paths.items : r.paths.items[i] \in Path \cup {Null}
  BY <1>1 DEF Lists
<1> QED BY <1>1, <1>2 DEF Listed

(* There are as many roots as pairs of a path and a link, at most. *)
LEMMA RootsAreFinite == IsFiniteSet(PermanentRoots)
<1> DEFINE Pairs == Path \X Link
           f == [x \in Pairs |-> [path |-> x[1], link |-> x[2]]]
<1>1. IsFiniteSet(Pairs)
  BY FiniteAssumption, FS_Product
<1>2. f \in [Pairs -> PermanentRoots]
  BY DEF PermanentRoots
<1>3. ASSUME NEW r \in PermanentRoots PROVE \E x \in Pairs : f[x] = r
  <2>1. PICK p \in Path, l \in Link : r = [path |-> p, link |-> l]
    BY DEF PermanentRoots
  <2>2. <<p, l>> \in Pairs /\ f[<<p, l>>] = r
    BY <2>1
  <2> QED BY <2>2
<1>4. f \in Surjection(Pairs, PermanentRoots)
  BY <1>2, <1>3 DEF Surjection
<1> QED BY <1>1, <1>4, FS_Surjection

(* An empty request is one. *)
LEMMA NoRequestIsOne == NoRequest \in Requests
<1>1. [items |-> << >>, len |-> 0] \in Lists
  <2>1. << >> \in [1 .. 0 -> Path \cup {Null}] /\ Len(<< >>) = 0 /\ 0 \in 0 .. MaxPaths
    BY BoundAssumption
  <2> QED BY <2>1 DEF Lists
<1>2. 0 \in 0 .. Cardinality(Path)
  BY FiniteAssumption, FS_CardinalityType
<1> QED BY <1>1, <1>2 DEF NoRequest, Requests

(* An accepted request names an action and store paths. *)
LEMMA AcceptedAre ==
  ASSUME NEW r \in Requests, ~UsageError(r), ~Unsupported(r)
  PROVE  /\ r.store = "gc" /\ Null \notin Listed(r)
         /\ CppOptions(r).paths \in SUBSET Path
         /\ CppOptions(r).maxFreed = r.maxFreed /\ CppOptions(r).ignoreLiveness = r.ignoreLiveness
         /\ CppOptions(r).paths = Listed(r)
         /\ CppOptions(r).action \in {"gcReturnLive", "gcReturnDead", "gcDeleteDead", "gcDeleteSpecific"}
         /\ CppOptions(r).action = "gcDeleteDead" => r.action = DeleteDead
         /\ CppOptions(r).action = "gcDeleteSpecific" => r.action = DeleteSpecific
<1>1. r.store = "gc" /\ Null \notin Listed(r) /\ r.action \in {0, 1, 2, 3}
  BY RequestsAre DEF UsageError, Unsupported, DeleteSpecific
<1>2. Listed(r) \subseteq Path
  BY <1>1, RequestsAre
<1>3. /\ ActionToCpp(0) = "gcReturnLive" /\ ActionToCpp(1) = "gcReturnDead"
      /\ ActionToCpp(2) = "gcDeleteDead" /\ ActionToCpp(3) = "gcDeleteSpecific"
  BY DEF ActionToCpp, ReturnLive, ReturnDead, DeleteDead, DeleteSpecific
<1> QED BY <1>1, <1>2, <1>3 DEF CppOptions, DeleteDead, DeleteSpecific

-----------------------------------------------------------------------------
(* The invariant holds initially. *)
LEMMA InitIInv == Init => IInv
<1> SUFFICES ASSUME Init PROVE IInv
  OBVIOUS
<1>1. ctxErr \in BOOLEAN
  BY Zenon DEF Init
<1>2. TypeOK
  BY <1>1, NoRequestIsOne DEF Init, TypeOK, NoOptions
<1>3. Rooted /\ Accepted /\ Handles /\ OutcomeExplained
  BY DEF Init, Rooted, Accepted, Handles, OutcomeExplained
<1> QED BY <1>2, <1>3 DEF IInv

(* A collection that throws leaves an error and nothing else. *)
LEMMA ThrowIInv ==
  ASSUME IInv, at \in {"begun", "collecting"}, Throw
  PROVE  IInv'
BY NoRequestIsOne DEF Throw, world, listing, IInv, TypeOK, NoOptions, Rooted, Accepted, Handles,
  OutcomeExplained

(* Every step of the adapter, of Nix and of the other users of the store    *)
(* preserves the invariant.                                                *)
LEMMA NextIInv == IInv /\ [Next]_vars => IInv'
<1> SUFFICES ASSUME IInv, [Next]_vars PROVE IInv'
  OBVIOUS
<1> USE DEF IInv, world, gc, listing
<1>1. ASSUME NEW p \in Path, AddTempRoot(p) \/ AddPath(p) PROVE IInv'
  BY <1>1 DEF AddTempRoot, AddPath, TypeOK, Rooted, Accepted, Handles, OutcomeExplained
<1>2. ASSUME NEW p \in Path, NEW link \in Link, AddPermanentRoot(p, link) PROVE IInv'
  <2>1. links' \in [Path -> SUBSET Link] /\ links'[p] # {}
        /\ \A q \in Path : q # p => links'[q] = links[q]
    BY <1>2 DEF AddPermanentRoot, TypeOK
  <2>2. granted' \subseteq granted \cup {p} /\ granted' \subseteq valid
    BY <1>2 DEF AddPermanentRoot, TypeOK
  <2>3. TypeOK' /\ Rooted'
    BY <1>2, <2>1, <2>2 DEF AddPermanentRoot, TypeOK, Rooted
  <2> QED BY <1>2, <2>3 DEF AddPermanentRoot, Accepted, Handles, OutcomeExplained
<1>3. ASSUME NEW p \in Path, NEW link \in Link, RemoveLink(p, link) PROVE IInv'
  <2>1. links' \in [Path -> SUBSET Link] /\ \A q \in Path : q # p => links'[q] = links[q]
    BY <1>3 DEF RemoveLink, TypeOK
  <2>2. TypeOK' /\ Rooted'
    BY <1>3, <2>1 DEF RemoveLink, TypeOK, Rooted
  <2> QED BY <1>3, <2>2 DEF RemoveLink, Accepted, Handles, OutcomeExplained
<1>4. ASSUME NEW r \in Requests, CollectGarbage(r) PROVE IInv'
  BY <1>4 DEF CollectGarbage, TypeOK, Rooted, Accepted, Handles, OutcomeExplained
<1>5. CASE Refuse \/ Fail
  BY <1>5, ThrowIInv DEF Refuse, Fail
<1>6. CASE StartCollecting
  <2>1. options' = CppOptions(request) /\ request \in Requests
    BY <1>6 DEF StartCollecting, TypeOK
  <2>2. TypeOK'
    BY <1>6, <2>1, AcceptedAre DEF StartCollecting, TypeOK
  <2>3. Accepted'
    BY <1>6, <2>1 DEF StartCollecting, Accepted, UsageError, Unsupported, CppOptions, Listed
  <2> QED BY <1>6, <2>2, <2>3 DEF StartCollecting, Rooted, Handles, OutcomeExplained
<1>7. ASSUME NEW p \in Path, Delete(p) PROVE IInv'
  <2>1. TypeOK' /\ Rooted'
    BY <1>7 DEF Delete, TypeOK, Rooted
  <2> QED BY <1>7, <2>1 DEF Delete, Accepted, Handles, OutcomeExplained
<1>8. ASSUME NEW p \in Path, Report(p) PROVE IInv'
  BY <1>8 DEF Report, TypeOK, Rooted, Accepted, Handles, OutcomeExplained
<1>9. CASE ReturnResults
  <2>1. IsFiniteSet(reported) /\ reported \subseteq Path
    BY FiniteAssumption, FS_Subset DEF TypeOK
  <2>2. ToSet(results') = reported
    BY <1>9, <2>1, SetToSeqLists DEF ReturnResults
  <2>3. told = Null /\ roots = Null
    BY <1>9 DEF ReturnResults, Handles
  <2>4. TypeOK'
    BY <1>9, <2>1, <2>2, NoRequestIsOne DEF ReturnResults, TypeOK, NoOptions
  <2>5. Handles' /\ OutcomeExplained'
    BY <1>9, <2>2, <2>3 DEF ReturnResults, Handles, OutcomeExplained
  <2> QED BY <1>9, <2>4, <2>5 DEF ReturnResults, Rooted, Accepted
<1>10. ASSUME NEW i, ResultsPath(i) PROVE IInv'
  <2>1. told' \in {Null} \cup reported /\ roots = Null
    BY <1>10 DEF ResultsPath, Handles, OutcomeExplained, ToSet
  <2>2. TypeOK'
    BY <1>10, <2>1 DEF ResultsPath, TypeOK
  <2> QED BY <1>10, <2>1, <2>2 DEF ResultsPath, Rooted, Accepted, Handles, OutcomeExplained
<1>11. CASE ResultsFree
  BY <1>11 DEF ResultsFree, TypeOK, Rooted, Accepted, Handles, OutcomeExplained
<1>12. CASE FindRoots
  <2>1. found' \subseteq PermanentRoots /\ roots' = SetToSeq(found')
    BY <1>12 DEF FindRoots
  <2>2. IsFiniteSet(PermanentRoots)
    BY RootsAreFinite
  <2>3. IsFiniteSet(found')
    BY <2>1, <2>2, FS_Subset
  <2>4. ToSet(roots') = found' /\ Len(roots') = Cardinality(found')
    BY <2>1, <2>3, SetToSeqLists
  <2>5. told = Null
    BY <1>12 DEF FindRoots, Handles
  <2>6. TypeOK'
    BY <1>12, <2>1, <2>4 DEF FindRoots, TypeOK
  <2>7. OutcomeExplained' /\ Handles'
    BY <1>12, <2>4, <2>5 DEF FindRoots, Handles, OutcomeExplained
  <2> QED BY <1>12, <2>6, <2>7 DEF FindRoots, Rooted, Accepted
<1>13. ASSUME NEW i, RootsRead(i) PROVE IInv'
  <2>1. told' \in {Null} \cup found /\ at = "idle"
    BY <1>13 DEF RootsRead, RootsAt, Handles, OutcomeExplained, ToSet
  <2>2. TypeOK'
    BY <1>13, <2>1 DEF RootsRead, TypeOK
  <2> QED BY <1>13, <2>1, <2>2 DEF RootsRead, Rooted, Accepted, Handles, OutcomeExplained
<1>14. CASE RootsFree
  BY <1>14 DEF RootsFree, TypeOK, Rooted, Accepted, Handles, OutcomeExplained
<1>15. CASE UNCHANGED vars
  BY <1>15 DEF vars, TypeOK, Rooted, Accepted, Handles, OutcomeExplained
<1> QED
  BY <1>1, <1>2, <1>3, <1>4, <1>5, <1>6, <1>7, <1>8, <1>9, <1>10, <1>11, <1>12, <1>13, <1>14, <1>15
  DEF Next

(* The invariant holds in every state of every behaviour. *)
LEMMA Inductive == Spec => []IInv
BY InitIInv, NextIInv, PTL DEF Spec

-----------------------------------------------------------------------------
(* Only one step takes a path out of the store, and it is a collection's.   *)
LEMMA OnlyDeleteDeletes ==
  ASSUME [Next]_vars, NEW p \in valid, p \notin valid'
  PROVE  p \in Path => Delete(p)
<1>1. ASSUME NEW q \in Path, Delete(q) PROVE p = q
  BY <1>1 DEF Delete
<1> QED BY <1>1 DEF Next, vars, world, AddTempRoot, AddPath, AddPermanentRoot, RemoveLink,
      CollectGarbage, Refuse, Throw, StartCollecting, Report, Fail, ReturnResults, ResultsFree,
      FindRoots, RootsFree, ResultsPath, RootsRead

(* The store, the requests and the handles keep their types. *)
THEOREM TypeCorrect == Spec => []TypeOK
<1>1. IInv => TypeOK
  BY DEF IInv
<1> QED BY Inductive, <1>1, PTL

(* NULL comes with an error; a handle lists what its collection deleted or  *)
(* found, and a list of roots is a snapshot with each root once.           *)
THEOREM OutcomesAreExplained == Spec => []OutcomeExplained
<1>1. IInv => OutcomeExplained
  BY DEF IInv
<1> QED BY Inductive, <1>1, PTL

(* A collection deletes only what the Go options ask for, and no more than  *)
(* their limit.                                                            *)
THEOREM DeletionsAreAsked == Spec => DeletesAsAsked
<1>1. IInv /\ [Next]_vars =>
        [\A p \in valid \ valid' :
           /\ request.store = "gc" /\ Null \notin Listed(request)
           /\ \/ request.action = DeleteDead
              \/ request.action = DeleteSpecific /\ p \in Listed(request)
           /\ Cardinality(reported') <= request.maxFreed]_vars
  <2> SUFFICES ASSUME IInv, [Next]_vars, NEW p \in valid \ valid'
               PROVE  /\ request.store = "gc" /\ Null \notin Listed(request)
                      /\ \/ request.action = DeleteDead
                         \/ request.action = DeleteSpecific /\ p \in Listed(request)
                      /\ Cardinality(reported') <= request.maxFreed
    OBVIOUS
  <2>1. p \in Path /\ Delete(p) /\ request \in Requests
    BY OnlyDeleteDeletes DEF IInv, TypeOK
  <2>2. ~UsageError(request) /\ ~Unsupported(request) /\ options = CppOptions(request)
    BY <2>1 DEF Delete, IInv, Accepted
  <2>3. IsFiniteSet(reported) /\ Cardinality(reported) \in Nat
    BY FiniteAssumption, FS_Subset, FS_CardinalityType DEF IInv, TypeOK
  <2>4. reported' = reported \cup {p}
    BY <2>1 DEF Delete
  <2>5. Cardinality(reported') \in Nat /\ Cardinality(reported') <= Cardinality(reported) + 1
    <3>1. CASE p \in reported
      <4>1. reported' = reported
        BY <2>4, <3>1
      <4>2. Cardinality(reported') = Cardinality(reported)
        BY <4>1
      <4> QED BY <2>3, <4>2
    <3>2. CASE p \notin reported
      BY <2>3, <2>4, <3>2, FS_AddElement
    <3> QED BY <3>1, <3>2
  <2>6. request.maxFreed \in Nat
    BY <2>1, RequestsAre
  <2> QED BY <2>1, <2>2, <2>3, <2>5, <2>6, AcceptedAre DEF Delete, Deletable
<1> QED BY Inductive, <1>1, PTL DEF Spec, DeletesAsAsked

(* A path whose root the caller was told of outlives every collection that  *)
(* was not asked to ignore roots.                                          *)
THEOREM RootsAreHonoured == Spec => RootsProtect
<1>1. IInv /\ [Next]_vars => [\A p \in granted : p \notin valid' => request.ignoreLiveness]_vars
  <2> SUFFICES ASSUME IInv, [Next]_vars, NEW p \in granted, p \notin valid'
               PROVE  request.ignoreLiveness
    OBVIOUS
  <2>1. p \in Path /\ Delete(p) /\ request \in Requests
    BY OnlyDeleteDeletes DEF IInv, TypeOK
  <2>2. ~Dead(p)
    BY DEF IInv, Rooted, Dead
  <2>3. options.ignoreLiveness
    BY <2>1, <2>2 DEF Delete, Deletable
  <2>4. ~UsageError(request) /\ ~Unsupported(request) /\ options = CppOptions(request)
    BY <2>1 DEF Delete, IInv, Accepted
  <2> QED BY <2>1, <2>3, <2>4, AcceptedAre
<1> QED BY Inductive, <1>1, PTL DEF Spec, RootsProtect
=============================================================================
