----------------------------- MODULE Marshal_proofs -----------------------------
(***************************************************************************)
(* Proofs about Marshal for any variables, of any of the wrapping structs, *)
(* and any numbers of goroutines, blocks, maps and strings.                *)
(***************************************************************************)
EXTENDS Marshal, FiniteSetTheorems, TLAPS

-----------------------------------------------------------------------------
(* The structs that c-for-go generates nest at most twice: an item holds no *)
(* struct, and a nested struct holds items alone.                           *)
LEMMA StructsNest ==
  \A s \in Structs : /\ s.bytes \in Nat
                     /\ \A i \in s.items : i.items = {} /\ i.nested = {}
                     /\ \A n \in s.nested : n.nested = {}
BY DEF Structs, Struct, StringItem, StringItems, StringArray, ValueItem, ValueItems, ValueArray,
       StoreParam, StoreParamItems, StoreParams, StorePathHashPart, StorePathItem, StorePathItems,
       StorePathList, StoreGCOptions

(* What a wrapper takes is never a part of another struct.                  *)
LEMMA ArgumentsAreWhole ==
  /\ \A c \in Wrappers : c.strings \in Nat
  /\ \A c \in Wrappers : \A s \in c.values \cup c.refs : \A t \in Structs : s \notin t.items \cup t.nested
<1> DEFINE Whole == {ValueArray, StringArray, StoreParams, StoreGCOptions, StorePathHashPart}
<1>1. \A c \in Wrappers : c.strings \in Nat /\ c.values \cup c.refs \subseteq Whole
  BY DEF Wrappers, ByValue, ByPointer, Strings, ValueCallMulti, EvalStateBuilderSetLookupPath,
         StateCreate, StoreOpen, StoreCollectGarbage, StorePathHash, StoreCreateFromParts,
         ExprEvalFromString, GetAttrByname, GetAttrBynameLazy, HasAttrByname, InitString,
         InitPathString, BindingsBuilderInsert, FlakeReferenceParseFlagsSetBaseDirectory,
         FlakeReferenceAndFragmentFromString, FlakeLockFlagsAddInputOverride, SetLogFormat,
         LogSinkInstall, StoreParsePath, StoreAddPermanentRoot, DerivationFromJson,
         StoreQueryPathFromHashPart, SettingGet, SettingSet, SetErrMsg
<1>2. \A s \in Whole : \A t \in Structs : s \notin t.items \cup t.nested
  BY DEF Structs, Struct, StringItem, StringItems, StringArray, ValueItem, ValueItems, ValueArray,
         StoreParam, StoreParamItems, StoreParams, StorePathHashPart, StorePathItem, StorePathItems,
         StorePathList, StoreGCOptions
<1> QED BY <1>1, <1>2

-----------------------------------------------------------------------------
(* The structs in a struct. *)

(* The parts of a variable are variables, two levels down there are none.   *)
LEMMA PartsNest ==
  ASSUME NEW v \in Var
  PROVE  /\ Parts(v) \subseteq Var /\ Type[v].bytes \in Nat
         /\ \A w \in Parts(v) : Nested[w] = {}
         /\ \A w \in Parts(v) : \A y \in Parts(w) : y \in Var /\ Parts(y) = {}
<1>1. \A x \in Var : /\ Type[x] \in Structs /\ Items[x] \subseteq Var /\ Nested[x] \subseteq Var
                     /\ \A w \in Items[x] : Type[w] \in Type[x].items
                     /\ \A w \in Nested[x] : Type[w] \in Type[x].nested
                     /\ Type[x].items = {} => Items[x] = {}
                     /\ Type[x].nested = {} => Nested[x] = {}
  BY TypeAssumption
<1>2. \A x \in Var : \A w \in Items[x] : w \in Var /\ Items[w] = {} /\ Nested[w] = {}
  BY <1>1, StructsNest
<1>3. \A x \in Var : \A w \in Nested[x] : w \in Var /\ Nested[w] = {}
  BY <1>1, StructsNest
<1> QED BY <1>1, <1>2, <1>3, StructsNest DEF Parts

(* A variable is a part of one variable at most.                            *)
LEMMA OneWhole ==
  ASSUME NEW u \in Var, NEW v \in Var, NEW w \in Parts(u), w \in Parts(v)
  PROVE  u = v
BY PartsAssumption DEF Parts

(* The recursion that Below is defined by has a solution.                   *)
LEMMA BelowEquation ==
  Below = [v \in Var |-> {v} \cup UNION {Below[w] : w \in Parts(v)}]
<1> DEFINE Solves(f) == f = [v \in Var |-> {v} \cup UNION {f[w] : w \in Parts(v)}]
           F1 == [v \in Var |-> {v}]
           F2 == [v \in Var |-> {v} \cup UNION {F1[w] : w \in Parts(v)}]
           F3 == [v \in Var |-> {v} \cup UNION {F2[w] : w \in Parts(v)}]
<1>1. Below = CHOOSE f : Solves(f)
  BY DEF Below
<1>2. Solves(F3)
  <2>1. \A v \in Var : Parts(v) = {} => F2[v] = F1[v] /\ F3[v] = F2[v]
    OBVIOUS
  <2>2. ASSUME NEW v \in Var, \A w \in Parts(v) : Parts(w) = {} PROVE F3[v] = F2[v]
    <3>1. \A w \in Parts(v) : F2[w] = F1[w]
      BY <2>1, <2>2, PartsNest
    <3>2. {F2[w] : w \in Parts(v)} = {F1[w] : w \in Parts(v)}
      BY <3>1
    <3> QED BY <3>2
  <2>3. \A v \in Var : \A w \in Parts(v) : w \in Var /\ F3[w] = F2[w]
    BY <2>2, PartsNest
  <2>4. \A v \in Var : {F2[w] : w \in Parts(v)} = {F3[w] : w \in Parts(v)}
    BY <2>3
  <2> QED BY <2>4
<1> HIDE DEF Solves
<1>3. Solves(CHOOSE f : Solves(f))
  BY <1>2, Zenon
<1>4. Solves(Below)
  BY <1>1, <1>3
<1> QED BY <1>4 DEF Solves

(* What is below a variable: itself, its parts and the parts of these.      *)
LEMMA BelowIs ==
  ASSUME NEW v \in Var
  PROVE  /\ Below[v] \subseteq Var
         /\ \A y : y \in Below[v] <=> \/ y = v \/ y \in Parts(v)
                                      \/ \E w \in Parts(v) : y \in Parts(w)
         /\ \A w \in Parts(v) : Below[w] \subseteq Below[v]
<1>1. \A x \in Var : \A y : y \in Below[x] <=> y = x \/ \E w \in Parts(x) : y \in Below[w]
  <2> SUFFICES ASSUME NEW x \in Var
               PROVE  \A y : y \in Below[x] <=> y = x \/ \E w \in Parts(x) : y \in Below[w]
    OBVIOUS
  <2>1. Below[x] = {x} \cup UNION {Below[w] : w \in Parts(x)}
    BY BelowEquation
  <2> QED BY <2>1
<1>2. \A x \in Var : Parts(x) = {} => Below[x] = {x}
  BY <1>1
<1>3. \A w \in Parts(v) : w \in Var /\ \A y : y \in Below[w] <=> y = w \/ y \in Parts(w)
  BY <1>1, <1>2, PartsNest
<1> QED BY <1>1, <1>3, PartsNest

(* Below is an order, in which what is above a variable is a chain.         *)
LEMMA BelowIsForest ==
  ASSUME NEW v \in Var
  PROVE  /\ v \in Below[v]
         /\ \A u \in Below[v] : u \in Var /\ Below[u] \subseteq Below[v]
         /\ \A u \in Below[v] : v \in Below[u] => u = v
         /\ \A y \in Below[v] : y # v => \E u \in Below[v] : y \in Parts(u)
         /\ \A x \in Var : Below[x] \cap Below[v] # {} => x \in Below[v] \/ v \in Below[x]
<1>1. \A x \in Var : \A w \in Parts(x) : w \in Var /\ \A y \in Parts(w) : y \in Var /\ Parts(y) = {}
  BY PartsNest
<1>2. \A x \in Var : \A y : y \in Below[x] <=> \/ y = x \/ y \in Parts(x)
                                               \/ \E w \in Parts(x) : y \in Parts(w)
  BY BelowIs
<1>3. \A u \in Below[v] : u \in Var /\ Below[u] \subseteq Below[v]
  BY BelowIs, <1>1
<1>4. \A u \in Below[v] : v \in Below[u] => u = v
  <2> SUFFICES ASSUME NEW u \in Below[v], v \in Below[u], u # v PROVE FALSE
    OBVIOUS
  <2>1. u \in Var
    BY <1>3
  <2>2. u \in Parts(v) \/ \E w \in Parts(v) : u \in Parts(w)
    BY <1>2
  <2>3. v \in Parts(u) \/ \E w \in Parts(u) : v \in Parts(w)
    BY <1>2, <2>1
  <2> QED BY <1>1, <2>1, <2>2, <2>3
<1>5. \A y \in Below[v] : y # v => \E u \in Below[v] : y \in Parts(u)
  BY <1>2
<1>6. ASSUME NEW x \in Var, NEW y \in Below[x] \cap Below[v]
      PROVE  x \in Below[v] \/ v \in Below[x]
  <2>1. \/ y = x \/ y \in Parts(x) \/ \E w \in Parts(x) : y \in Parts(w)
    BY <1>2
  <2>2. \/ y = v \/ y \in Parts(v) \/ \E w \in Parts(v) : y \in Parts(w)
    BY <1>2
  <2> QED BY <1>1, <1>2, <2>1, <2>2, OneWhole
<1> QED BY <1>2, <1>3, <1>4, <1>5, <1>6

(* A part of one that is below a variable is below it, and conversely.      *)
LEMMA WholeIsBelow ==
  ASSUME NEW v \in Var, NEW u \in Var, NEW w \in Parts(u)
  PROVE  /\ w \in Below[u] /\ w # u /\ w \in Var
         /\ w \in Below[v] /\ w # v => u \in Below[v]
<1>1. w \in Below[u] /\ w \in Var
  BY BelowIs, PartsNest
<1>2. w # u
  BY PartsNest
<1>3. ASSUME w \in Below[v], w # v PROVE u \in Below[v]
  BY <1>3, BelowIsForest, OneWhole
<1> QED BY <1>1, <1>2, <1>3

-----------------------------------------------------------------------------
(* The inductive invariant. *)

UnpackedMaps == Var \X {1} \X (1 .. Copies)
CObjects == [home : Block \cup {Null}, points : [Var -> SUBSET Block], set : BOOLEAN]
Causes == {"PassValue", "Deref"}

(* The blocks that the C object cached by a variable can be reached at, or   *)
(* that its pointers reach.                                                  *)
Reaches(w) == {p \in Block : p = ref[w].home \/ \E x \in Var : p \in ref[w].points[x]}

(* The types that TypeOK does not say.                                      *)
Typed ==
  /\ ref \in [Var -> CObjects]
  /\ \A v \in Var : ~ref[v].set => ref[v] = NoRef
  /\ lost \in [Causes -> SUBSET Block]
  /\ held \subseteq Var

(* A variable keeps a map of its own, empty unless the variable caches.     *)
KeepsOwnMap ==
  \A v \in Var : /\ allocs[v] \in MapsOf(v) \cup {NoMap}
                 /\ allocs[v] # NoMap /\ ~ref[v].set => blocks[allocs[v]] = {}

(* The maps of a variable list memory of what is below it, those of a call  *)
(* its strings, and those of the unpack helpers nothing after Borrow.       *)
ListsOwnMemory ==
  /\ \A v \in Var : \A a \in MapsOf(v) : \A p \in blocks[a] : p[1] \in Below[v]
  /\ \A a \in UnpackedMaps : blocks[a] = {}
  /\ \A a \in StringPlace : blocks[a] \subseteq {a}

(* The pointers of a part reach memory of what is below the part, and a C   *)
(* object is, or is in, the block of a variable that holds this one.        *)
PointsBelow ==
  \A w \in Var :
    /\ \A x \in Var : \A p \in ref[w].points[x] : p[1] \in Below[x] /\ p[1] \in Below[w]
    /\ ref[w].home # Null => /\ ref[w].home \in Var \X {0} \X (1 .. Copies)
                             /\ w \in Below[ref[w].home[1]]

(* What a variable keeps in its map is nothing that what is below it        *)
(* reaches, except for the parts that it was read back into.                *)
OthersReachNothing ==
  \A v \in Var : \A w \in Below[v] :
    allocs[v] # NoMap /\ w # v /\ ~(IsReadBack(w) /\ w \in Parts(v))
      => Reaches(w) \cap blocks[allocs[v]] = {}

(* Byte slices are in the C object that they were read from.                *)
SlicesAreCached ==
  \A v \in Var : slices[v] # {} => ref[v].set /\ slices[v] \subseteq ref[v].points[v]

(* A native function reads strings whose maps the call keeps, and memory    *)
(* below an argument, which is a part of nothing.                           *)
IsWhole(x) == \A v \in Var : x \notin Parts(v)

ReadsArguments ==
  \A g \in Proc : \A p \in frame[g].reads :
    \/ p \in StringPlace /\ p \in frame[g].keeps
    \/ \E x \in frame[g].args : IsWhole(x) /\ p[1] \in Below[x]

(* What is lost is in no map that could free it.                            *)
LostForEver ==
  /\ Lost \cap StringPlace = {}
  /\ \A v \in Var : allocs[v] # NoMap => blocks[allocs[v]] \cap Lost = {}

(* CachedIsAlive, ListedOnce and Reclaimable in terms of Reaches and of all *)
(* maps.                                                                    *)
ReachedIsAlive == \A w \in Var : Reaches(w) \subseteq allocated /\ slices[w] \subseteq allocated

ListsApart ==
  \A a \in MapId : /\ blocks[a] \subseteq allocated
                   /\ \A b \in MapId : a # b => blocks[a] \cap blocks[b] = {}

CanBeFreed ==
  \A p \in allocated \ Lost :
    \E a \in MapId : /\ p \in blocks[a]
                     /\ HasFinalizer(a) \/ \E v \in Var : ref[v].set /\ allocs[v] = a

IInv ==
  /\ TypeOK /\ Typed /\ KeepsOwnMap /\ ListsOwnMemory /\ PointsBelow /\ OthersReachNothing
  /\ SlicesAreCached /\ ReadsArguments /\ LostForEver
  /\ NoDanglingRead /\ ReachedIsAlive /\ ListsApart /\ CanBeFreed

-----------------------------------------------------------------------------
(* Blocks and maps. *)

(* Each block is a string or of one variable, and so is each map.           *)
LEMMA Addresses ==
  /\ Null \notin Block /\ NoMap \notin MapId
  /\ StringPlace \subseteq Block /\ StringPlace \subseteq MapId /\ UnpackedMaps \subseteq MapId
  /\ \A p \in StringPlace : p[1] \notin Var
  /\ \A p \in Block : p \notin StringPlace => p[1] \in Var
  /\ \A v \in Var : MapsOf(v) \subseteq MapId /\ \A a \in MapsOf(v) : a[1] = v
  /\ \A a \in MapId : a \notin StringPlace /\ a \notin UnpackedMaps => a[1] \in Var /\ a \in MapsOf(a[1])
  /\ \A v \in Var : MapsOf(v) \cap StringPlace = {} /\ MapsOf(v) \cap UnpackedMaps = {}
  /\ \A v \in Var : \A n \in 0 .. Type[v].bytes + 1, k \in 1 .. Copies : <<v, n, k>> \in Block
  /\ \A v \in Var : \A k \in 1 .. Copies : <<v, 0, k>> \in MapsOf(v) /\ <<v, 1, k>> \in UnpackedMaps
  /\ \A a \in MapId : HasFinalizer(a) <=> \A v \in Var : a \notin MapsOf(v)
  /\ UnpackedMaps \cap StringPlace = {}
<1>0. \A p : p \in Block <=> \/ p \in StringPlace
                             \/ \E v \in Var : p \in {v} \X (0 .. Type[v].bytes + 1) \X (1 .. Copies)
  BY DEF Block
<1>1. Null \notin Block /\ NoMap \notin MapId
  <2>1. << >> \notin StringPlace
    BY DEF StringPlace
  <2>2. << >> \notin Var \X {0, 1} \X (1 .. Copies)
    OBVIOUS
  <2>3. \A v \in Var : << >> \notin {v} \X (0 .. Type[v].bytes + 1) \X (1 .. Copies)
    OBVIOUS
  <2> QED BY <1>0, <2>1, <2>2, <2>3 DEF Null, NoMap, MapId
<1>2. /\ StringPlace \subseteq Block /\ StringPlace \subseteq MapId /\ UnpackedMaps \subseteq MapId
      /\ UnpackedMaps \cap StringPlace = {}
  <2>1. StringPlace \subseteq Block
    BY <1>0
  <2>2. StringPlace \subseteq MapId /\ UnpackedMaps \subseteq MapId
    BY DEF MapId, UnpackedMaps
  <2>3. UnpackedMaps \cap StringPlace = {}
    BY PartsAssumption DEF StringPlace, UnpackedMaps
  <2> QED BY <2>1, <2>2, <2>3
<1>3. \A p \in StringPlace : p[1] \notin Var
  BY PartsAssumption DEF StringPlace
<1>4. \A p \in Block : p \notin StringPlace => p[1] \in Var
  BY <1>0
<1>5. \A v \in Var : MapsOf(v) \subseteq MapId /\ \A a \in MapsOf(v) : a[1] = v
  BY DEF MapsOf, MapId
<1>6. \A a \in MapId : a \notin StringPlace /\ a \notin UnpackedMaps => a[1] \in Var /\ a \in MapsOf(a[1])
  BY DEF MapId, MapsOf, UnpackedMaps
<1>7. \A v \in Var : MapsOf(v) \cap StringPlace = {} /\ MapsOf(v) \cap UnpackedMaps = {}
  BY PartsAssumption DEF MapsOf, UnpackedMaps, StringPlace
<1>8. \A v \in Var : \A n \in 0 .. Type[v].bytes + 1, k \in 1 .. Copies : <<v, n, k>> \in Block
  BY <1>0
<1>9. \A v \in Var : \A k \in 1 .. Copies : <<v, 0, k>> \in MapsOf(v) /\ <<v, 1, k>> \in UnpackedMaps
  BY DEF MapsOf, UnpackedMaps
<1>10. \A a \in MapId : HasFinalizer(a) <=> \A v \in Var : a \notin MapsOf(v)
  BY DEF HasFinalizer, MapsOf
<1> QED BY <1>1, <1>2, <1>3, <1>4, <1>5, <1>6, <1>7, <1>8, <1>9, <1>10

-----------------------------------------------------------------------------
(* What marshalling a variable allocates. *)

(* The recursion that Needs is defined by has a solution.                   *)
LEMMA NeedsEquation ==
  Needs = [v \in Var |-> IF ref[v].set THEN {} ELSE Own(v) \cup UNION {Needs[w] : w \in Parts(v)}]
<1> DEFINE Solves(f) == f = [v \in Var |-> IF ref[v].set THEN {}
                                           ELSE Own(v) \cup UNION {f[w] : w \in Parts(v)}]
           F1 == [v \in Var |-> IF ref[v].set THEN {} ELSE Own(v)]
           F2 == [v \in Var |-> IF ref[v].set THEN {}
                                ELSE Own(v) \cup UNION {F1[w] : w \in Parts(v)}]
           F3 == [v \in Var |-> IF ref[v].set THEN {}
                                ELSE Own(v) \cup UNION {F2[w] : w \in Parts(v)}]
<1>1. Needs = CHOOSE f : Solves(f)
  BY DEF Needs
<1>2. Solves(F3)
  <2>1. \A v \in Var : Parts(v) = {} => F2[v] = F1[v] /\ F3[v] = F2[v]
    OBVIOUS
  <2>2. ASSUME NEW v \in Var, \A w \in Parts(v) : Parts(w) = {} PROVE F3[v] = F2[v]
    <3>1. \A w \in Parts(v) : F2[w] = F1[w]
      BY <2>1, <2>2, PartsNest
    <3>2. {F2[w] : w \in Parts(v)} = {F1[w] : w \in Parts(v)}
      BY <3>1
    <3> QED BY <3>2
  <2>3. \A v \in Var : \A w \in Parts(v) : w \in Var /\ F3[w] = F2[w]
    BY <2>2, PartsNest
  <2>4. \A v \in Var : {F2[w] : w \in Parts(v)} = {F3[w] : w \in Parts(v)}
    BY <2>3
  <2> QED BY <2>4
<1> HIDE DEF Solves
<1>3. Solves(CHOOSE f : Solves(f))
  BY <1>2, Zenon
<1>4. Solves(Needs)
  BY <1>1, <1>3
<1> QED BY <1>4 DEF Solves

(* A variable needs blocks for what is below it, of its parts all that they *)
(* need, and none if it caches a C object.                                  *)
NeedsFit(v) ==
  \A n \in Needs[v] : /\ n[1] \in Var /\ n[2] \in 0 .. Type[n[1]].bytes + 1
                      /\ n[1] \in Below[v]

(* A variable's needs fit it; one that caches needs nothing.                *)
LEMMA NeedsIs ==
  ASSUME NEW v \in Var
  PROVE  /\ NeedsFit(v)
         /\ ref[v].set => Needs[v] = {}
         /\ ~ref[v].set => Own(v) \subseteq Needs[v] /\ \A w \in Parts(v) : Needs[w] \subseteq Needs[v]
<1>1. \A x \in Var : Needs[x] = IF ref[x].set THEN {} ELSE Own(x) \cup UNION {Needs[w] : w \in Parts(x)}
  BY NeedsEquation, Zenon
<1>2. ASSUME NEW x \in Var, \A w \in Parts(x) : NeedsFit(w) PROVE NeedsFit(x)
  <2> SUFFICES ASSUME NEW n \in Needs[x]
               PROVE  n[1] \in Var /\ n[2] \in 0 .. Type[n[1]].bytes + 1 /\ n[1] \in Below[x]
    BY DEF NeedsFit
  <2>1. n \in Own(x) \/ \E w \in Parts(x) : n \in Needs[w]
    <3>1. Needs[x] = {} \/ Needs[x] = Own(x) \cup UNION {Needs[w] : w \in Parts(x)}
      BY <1>1
    <3> QED BY <3>1
  <2>2. CASE n \in Own(x)
    BY <2>2, PartsNest, BelowIsForest DEF Own
  <2>3. CASE \E w \in Parts(x) : n \in Needs[w]
    BY <2>3, <1>2, BelowIs DEF NeedsFit
  <2> QED BY <2>1, <2>2, <2>3
<1>3. \A w \in Parts(v) : w \in Var /\ \A y \in Parts(w) : y \in Var /\ Parts(y) = {}
  BY PartsNest
<1>4. \A w \in Parts(v) : \A y \in Parts(w) : NeedsFit(y)
  BY <1>2, <1>3
<1>5. \A w \in Parts(v) : NeedsFit(w)
  BY <1>2, <1>3, <1>4
<1>6. NeedsFit(v)
  BY <1>2, <1>5
<1> QED BY <1>1, <1>6
(* A fresh address, or map, is not in use.                                  *)
LEMMA FreshIs ==
  ASSUME NEW v, NEW n, NEW used, Unused(v, n, used) # {}
  PROVE  /\ Fresh(v, n, used) \notin used
         /\ \E k \in 1 .. Copies : Fresh(v, n, used) = <<v, n, k>>
BY DEF Fresh, Unused

(* The memory for a variable is fresh memory of what is below it.           *)
LEMMA MemoryIs ==
  ASSUME NEW v \in Var, Room(v)
  PROVE  /\ Memory(v) \subseteq Block \ (allocated \cup StringPlace)
         /\ \A p \in Memory(v) : p[1] \in Below[v]
         /\ ref[v].set => Memory(v) = {}
         /\ ~ref[v].set => NewBlock(<<v, 0>>) \in Memory(v)
         /\ ~ref[v].set => NewBlock(<<v, 0>>) \in {v} \X {0} \X (1 .. Copies)
<1>1. \A n \in Needs[v] : /\ n[1] \in Var /\ n[2] \in 0 .. Type[n[1]].bytes + 1 /\ n[1] \in Below[v]
                          /\ Unused(n[1], n[2], allocated) # {}
  BY NeedsIs DEF NeedsFit, Room
<1>2. ASSUME NEW n \in Needs[v]
      PROVE  NewBlock(n) \in Block /\ NewBlock(n) \notin allocated /\ NewBlock(n)[1] \in Below[v]
  <2>1. NewBlock(n) \notin allocated /\ \E k \in 1 .. Copies : NewBlock(n) = <<n[1], n[2], k>>
    BY <1>1, FreshIs DEF NewBlock
  <2> QED BY <1>1, <2>1, Addresses
<1>3. \A p \in Memory(v) : p \in Block /\ p \notin allocated /\ p[1] \in Below[v] /\ p[1] \in Var
  BY <1>2, BelowIs DEF Memory
<1>4. ref[v].set => Memory(v) = {}
  BY NeedsIs DEF Memory
<1>5. ASSUME ~ref[v].set
      PROVE  NewBlock(<<v, 0>>) \in Memory(v) /\ NewBlock(<<v, 0>>) \in {v} \X {0} \X (1 .. Copies)
  <2>1. <<v, 0>> \in Needs[v]
    BY <1>5, NeedsIs, PartsNest DEF Own
  <2>2. Unused(v, 0, allocated) # {}
    BY <1>1, <2>1
  <2> QED BY <2>1, <2>2, FreshIs DEF Memory, NewBlock
<1> QED BY <1>3, <1>4, <1>5, Addresses

-----------------------------------------------------------------------------
(* What the pointers of a marshalled variable reach. *)

(* The recursion that Reach is defined by has a solution.                   *)
LEMMA ReachEquation ==
  Reach = [v \in Var |->
             IF ref[v].set THEN ref[v].points
             ELSE [x \in Var |->
                     (IF x = v THEN {NewBlock(n) : n \in Own(v) \ {<<v, 0>>}} ELSE {})
                       \cup UNION {Reach[w][IF x = v THEN w ELSE x] : w \in Parts(v)}]]
<1> DEFINE News(v, x) == IF x = v THEN {NewBlock(n) : n \in Own(v) \ {<<v, 0>>}} ELSE {}
           Olds(f, v, x) == UNION {f[w][IF x = v THEN w ELSE x] : w \in Parts(v)}
           Step(f, v) == IF ref[v].set THEN ref[v].points
                         ELSE [x \in Var |-> News(v, x) \cup Olds(f, v, x)]
           Solves(f) == f = [v \in Var |-> Step(f, v)]
           F1 == [v \in Var |-> Step(<< >>, v)]
           F2 == [v \in Var |-> Step(F1, v)]
           F3 == [v \in Var |-> Step(F2, v)]
<1>1. Reach = CHOOSE f : Solves(f)
  BY DEF Reach
<1>2. ASSUME NEW f, NEW h, NEW v \in Var, \A w \in Parts(v) : f[w] = h[w]
      PROVE  Step(f, v) = Step(h, v)
  <2>1. ASSUME NEW x \in Var PROVE Olds(f, v, x) = Olds(h, v, x)
    BY <1>2
  <2> HIDE DEF Olds, News
  <2> QED BY <2>1
<1> HIDE DEF Step
<1>3. \A v \in Var : \A w \in Parts(v) : w \in Var /\ \A y \in Parts(w) : y \in Var /\ Parts(y) = {}
  BY PartsNest
<1>4. Solves(F3)
  <2>1. \A y \in Var : Parts(y) = {} => F2[y] = F1[y]
    BY <1>2
  <2>2. \A w \in Var : (\A y \in Parts(w) : y \in Var /\ Parts(y) = {}) => F3[w] = F2[w]
    BY <1>2, <2>1
  <2>3. ASSUME NEW v \in Var PROVE Step(F3, v) = Step(F2, v)
    <3>1. \A w \in Parts(v) : F3[w] = F2[w]
      BY <1>3, <2>2
    <3> HIDE DEF F3, F2
    <3> QED BY <1>2, <3>1
  <2> QED BY <2>3
<1> HIDE DEF Solves
<1>5. Solves(CHOOSE f : Solves(f))
  BY <1>4, Zenon
<1>6. Solves(Reach)
  BY <1>1, <1>5
<1> QED BY <1>6, Zenon DEF Solves, Step

(* The pointers of a marshalled variable reach memory of what is below, that *)
(* was allocated for it or that is cached there.                            *)
ReachFits(v) ==
  /\ Reach[v] = [x \in Var |-> Reach[v][x]]
  /\ \A x \in Var : \A q \in Reach[v][x] :
       /\ q[1] \in Below[x] /\ q[1] \in Below[v]
       /\ q \in Memory(v) \/ \E y \in Below[v] : ref[y].set /\ q \in Reaches(y)

(* What a variable reaches when it is marshalled fits it.                   *)
LEMMA ReachIs ==
  ASSUME Typed, PointsBelow, NEW v \in Var
  PROVE  ReachFits(v)
<1>1. ASSUME NEW u \in Var, \A w \in Parts(u) : ReachFits(w) PROVE ReachFits(u)
  <2>1. CASE ref[u].set
    <3>1. Reach[u] = ref[u].points
      BY <2>1, ReachEquation, Zenon
    <3>2. ref[u].points \in [Var -> SUBSET Block]
      BY DEF Typed, CObjects
    <3>3. \A x \in Var : \A q \in ref[u].points[x] : q \in Reaches(u) /\ q[1] \in Below[x] /\ q[1] \in Below[u]
      BY <3>2 DEF Reaches, PointsBelow
    <3> QED BY <2>1, <3>1, <3>2, <3>3, BelowIsForest DEF ReachFits
  <2>2. CASE ~ref[u].set
    <3>1. Reach[u] = [x \in Var |-> (IF x = u THEN {NewBlock(n) : n \in Own(u) \ {<<u, 0>>}} ELSE {})
                                      \cup UNION {Reach[w][IF x = u THEN w ELSE x] : w \in Parts(u)}]
      BY <2>2, ReachEquation, Zenon
    <3>2. Reach[u] = [x \in Var |-> Reach[u][x]]
      BY <3>1
    <3>3. ASSUME NEW x \in Var, NEW q \in Reach[u][x]
          PROVE  /\ q[1] \in Below[x] /\ q[1] \in Below[u]
                 /\ q \in Memory(u) \/ \E y \in Below[u] : ref[y].set /\ q \in Reaches(y)
      <4>1. \/ x = u /\ q \in {NewBlock(n) : n \in Own(u) \ {<<u, 0>>}}
            \/ \E w \in Parts(u) : q \in Reach[w][IF x = u THEN w ELSE x]
        BY <3>1, <3>3
      <4>2. CASE x = u /\ q \in {NewBlock(n) : n \in Own(u) \ {<<u, 0>>}}
        <5>1. PICK n \in Own(u) : q = NewBlock(n)
          BY <4>2
        <5>2. q[1] = u
          BY <5>1 DEF NewBlock, Fresh, Own
        <5> QED BY <2>2, <4>2, <5>1, <5>2, NeedsIs, BelowIsForest DEF Memory
      <4>3. ASSUME NEW w \in Parts(u), q \in Reach[w][IF x = u THEN w ELSE x]
            PROVE  /\ q[1] \in Below[x] /\ q[1] \in Below[u]
                   /\ q \in Memory(u) \/ \E y \in Below[u] : ref[y].set /\ q \in Reaches(y)
        <5>1. w \in Var /\ Below[w] \subseteq Below[u] /\ Memory(w) \subseteq Memory(u)
          BY <2>2, PartsNest, BelowIs, NeedsIs DEF Memory
        <5>2. PICK z \in Var : z = IF x = u THEN w ELSE x
          BY <5>1
        <5>3. /\ q[1] \in Below[z] /\ q[1] \in Below[w]
              /\ q \in Memory(w) \/ \E y \in Below[w] : ref[y].set /\ q \in Reaches(y)
          BY <1>1, <4>3, <5>2 DEF ReachFits
        <5> QED BY <5>1, <5>2, <5>3
      <4> QED BY <4>1, <4>2, <4>3
    <3> QED BY <3>2, <3>3 DEF ReachFits
  <2> QED BY <2>1, <2>2
<1>2. \A w \in Parts(v) : w \in Var /\ \A y \in Parts(w) : y \in Var /\ Parts(y) = {}
  BY PartsNest
<1>3. \A w \in Parts(v) : \A y \in Parts(w) : ReachFits(y)
  BY <1>1, <1>2
<1>4. \A w \in Parts(v) : ReachFits(w)
  BY <1>1, <1>2, <1>3
<1> QED BY <1>1, <1>4
(* The C value of a marshalled variable.                                    *)
LEMMA CValueIs ==
  ASSUME IInv, NEW v \in Var, Room(v)
  PROVE  /\ CValue(v) \in CObjects /\ CValue(v).set
         /\ ref[v].set => CValue(v) = ref[v]
         /\ ~ref[v].set => CValue(v).home \in Memory(v) /\ CValue(v).home \in {v} \X {0} \X (1 .. Copies)
         /\ \A x \in Var : \A q \in CValue(v).points[x] :
              /\ q[1] \in Below[x] /\ q[1] \in Below[v]
              /\ q \in Memory(v) \/ \E y \in Below[v] : ref[y].set /\ q \in Reaches(y)
<1>1. CASE ref[v].set
  <2>1. CValue(v) = ref[v] /\ ref[v] \in CObjects
    BY <1>1 DEF CValue, IInv, Typed
  <2>2. \A x \in Var : \A q \in ref[v].points[x] : q \in Reaches(v) /\ q[1] \in Below[x] /\ q[1] \in Below[v]
    BY <2>1 DEF CObjects, Reaches, IInv, PointsBelow
  <2> QED BY <1>1, <2>1, <2>2, BelowIsForest
<1>2. CASE ~ref[v].set
  <2>1. CValue(v) = CObject(NewBlock(<<v, 0>>), Reach[v])
    BY <1>2 DEF CValue
  <2>2. ReachFits(v)
    BY ReachIs DEF IInv
  <2>3. /\ NewBlock(<<v, 0>>) \in Memory(v) /\ NewBlock(<<v, 0>>) \in {v} \X {0} \X (1 .. Copies)
        /\ Memory(v) \subseteq Block
    BY <1>2, MemoryIs
  <2>4. \A x \in Var : \A q \in Reach[v][x] : q \in Block
    BY <2>2, <2>3 DEF ReachFits, Reaches
  <2>5. Reach[v] \in [Var -> SUBSET Block]
    BY <2>2, <2>4 DEF ReachFits
  <2>6. CValue(v) \in CObjects /\ CValue(v).set
    BY <2>1, <2>3, <2>5 DEF CObject, CObjects
  <2>7. CValue(v).points = Reach[v] /\ CValue(v).home = NewBlock(<<v, 0>>)
    BY <2>1 DEF CObject
  <2> QED BY <1>2, <2>2, <2>3, <2>6, <2>7 DEF ReachFits
<1> QED BY <1>1, <1>2

-----------------------------------------------------------------------------
(* Steps that allocate: fresh memory in an empty map of a variable, if any, *)
(* and strings, each in a map of its own.                                   *)

Grows(memory, strings, a) ==
  /\ memory \subseteq Block \ (allocated \cup StringPlace)
  /\ strings \subseteq UnusedStrings
  /\ \/ a = NoMap /\ memory = {}
     \/ \E v \in Var : a \in MapsOf(v) /\ blocks[a] = {} /\ \A p \in memory : p[1] \in Below[v]
  /\ allocated' = allocated \cup memory \cup strings
  /\ blocks' = [b \in MapId |-> IF b \in strings THEN {b} ELSE IF b = a THEN memory ELSE blocks[b]]
  /\ UNCHANGED <<slices, held>>

(* The memory belongs to a variable, which caches a C object from now on.   *)
IsCached(v, memory, a) ==
  /\ v \in Var /\ ~ref[v].set /\ a \in MapsOf(v)
  /\ \E c \in CObjects :
       /\ ref' = [ref EXCEPT ![v] = c]
       /\ c.set /\ c.home \in memory /\ c.home \in {v} \X {0} \X (1 .. Copies)
       /\ \A x \in Var : \A q \in c.points[x] :
            /\ q[1] \in Below[x] /\ q[1] \in Below[v]
            /\ q \in memory \/ \E y \in Below[v] : ref[y].set /\ q \in Reaches(y)
  /\ allocs' = [allocs EXCEPT ![v] = a]
  /\ UNCHANGED lost

(* The memory belongs to no variable and is lost.                           *)
IsForgotten(memory, a) ==
  /\ \A w \in Var : allocs[w] = a => a = NoMap
  /\ UNCHANGED <<ref, allocs>>
  /\ lost' \in [Causes -> SUBSET Block] /\ Lost' = Lost \cup memory

Allocates(memory, strings, a) ==
  /\ Grows(memory, strings, a)
  /\ IsForgotten(memory, a) \/ \E v \in Var : IsCached(v, memory, a)

(* Unused strings are in no map that lists anything.                        *)
LEMMA UnusedIs ==
  ASSUME IInv
  PROVE  /\ UnusedStrings \subseteq StringPlace \ allocated
         /\ \A a \in UnusedStrings : blocks[a] = {}
         /\ \A V, a : \A v \in Var :
              Unused(v, 0, InUse(V)) # {} /\ a = Fresh(v, 0, InUse(V))
                => /\ a \in MapsOf(v) /\ blocks[a] = {}
                   /\ \A w \in V : allocs[w] # a
<1>1. \A V : \A a \in MapId : a \notin InUse(V) => blocks[a] = {} /\ \A w \in V : allocs[w] # a
  BY DEF InUse, NonEmpty
<1>2. UnusedStrings \subseteq StringPlace \ allocated /\ \A a \in UnusedStrings : blocks[a] = {}
  BY <1>1, Addresses DEF UnusedStrings
<1>3. ASSUME NEW V, NEW a, NEW v \in Var, Unused(v, 0, InUse(V)) # {}, a = Fresh(v, 0, InUse(V))
      PROVE  a \in MapsOf(v) /\ blocks[a] = {} /\ \A w \in V : allocs[w] # a
  <2>1. a \notin InUse(V) /\ \E k \in 1 .. Copies : a = <<v, 0, k>>
    BY <1>3, FreshIs
  <2>2. PICK k \in 1 .. Copies : a = <<v, 0, k>>
    BY <2>1
  <2>3. a \in MapsOf(v) /\ a \in MapId
    BY <2>2, Addresses
  <2> QED BY <1>1, <2>1, <2>3
<1> QED BY <1>2, <1>3
(* A finite set with n elements or more has a subset with n. *)
LEMMA SubsetOfSize ==
  ASSUME NEW S, IsFiniteSet(S), NEW n \in Nat, n <= Cardinality(S)
  PROVE  \E T \in SUBSET S : Cardinality(T) = n
<1> DEFINE m == Cardinality(S)
<1>1. m \in Nat /\ \E f : f \in Bijection(1 .. m, S)
  BY FS_CardinalityType DEF ExistsBijection
<1>2. PICK f : f \in Bijection(1 .. m, S)
  BY <1>1
<1> DEFINE T == {f[i] : i \in 1 .. n}
           g == [i \in 1 .. n |-> f[i]]
<1>3. 1 .. n \subseteq 1 .. m
  BY <1>1
<1>4. T \in SUBSET S
  BY <1>2, <1>3 DEF Bijection, Injection
<1>5. g \in Bijection(1 .. n, T)
  BY <1>2, <1>3 DEF Bijection, Injection, Surjection, IsInjective
<1>6. Cardinality(T) = n
  BY <1>5, FS_CountingElements DEF ExistsBijection
<1> QED BY <1>4, <1>6

(* The strings of a call are unused ones, when there are enough.            *)
LEMMA NewStringsIs ==
  ASSUME NEW n \in Nat, Cardinality(UnusedStrings) >= n
  PROVE  NewStrings(n) \subseteq UnusedStrings
<1>1. IsFiniteSet(StringPlace)
  <2> DEFINE f == [k \in 1 .. MaxStrings |-> <<"string", 0, k>>]
  <2>1. f \in Surjection(1 .. MaxStrings, StringPlace)
    BY DEF StringPlace, Surjection
  <2>2. IsFiniteSet(1 .. MaxStrings)
    BY BoundAssumption, FS_Interval
  <2> QED BY <2>1, <2>2, FS_Surjection
<1>2. IsFiniteSet(UnusedStrings)
  BY <1>1, FS_Subset DEF UnusedStrings
<1>3. \E T \in SUBSET UnusedStrings : Cardinality(T) = n
  <2>1. Cardinality(UnusedStrings) \in Nat
    BY <1>2, FS_CardinalityType
  <2> QED BY <1>2, <2>1, SubsetOfSize
<1> QED BY <1>3 DEF NewStrings, kSubset

(* The maps after PassRef or PassValue: Borrow leaves all memory in one.    *)
LEMMA WithMapIs ==
  ASSUME IInv, NEW v \in Var, Room(v), NEW a \in MapsOf(v), blocks[a] = {}
  PROVE  WithMap(v, a) = [b \in MapId |-> IF b = a THEN Memory(v) ELSE blocks[b]]
<1>1. blocks \in [MapId -> SUBSET Block]
  BY DEF IInv, TypeOK
<1>2. CASE ref[v].set
  BY <1>1, <1>2, MemoryIs DEF WithMap
<1>3. CASE ~ref[v].set
  <2>1. UnpackedMap(v) \in UnpackedMaps
    <3>1. Unused(v, 1, InUse(Var)) # {}
      BY DEF Room
    <3>2. PICK k \in 1 .. Copies : UnpackedMap(v) = <<v, 1, k>>
      BY <3>1, FreshIs DEF UnpackedMap
    <3> QED BY <3>2 DEF UnpackedMaps
  <2>2. blocks[UnpackedMap(v)] = {} /\ UnpackedMap(v) # a /\ UnpackedMap(v) \in MapId /\ a \in MapId
    BY <2>1, Addresses DEF IInv, ListsOwnMemory
  <2>3. WithMap(v, a) = [blocks EXCEPT ![a] = Memory(v), ![UnpackedMap(v)] = {}]
    <3>1. {NewBlock(<<v, 0>>)} \cup (Memory(v) \ {NewBlock(<<v, 0>>)}) = Memory(v)
      BY <1>3, MemoryIs
    <3> QED BY <1>3, <3>1 DEF WithMap, Borrowed
  <2> QED BY <1>1, <2>2, <2>3
<1> QED BY <1>2, <1>3

(* NewMap and CopyMap are empty maps of the variable that no other one has. *)
LEMMA NewMapIs ==
  ASSUME IInv, NEW v \in Var, Room(v)
  PROVE  /\ NewMap(v) \in MapsOf(v) /\ blocks[NewMap(v)] = {}
         /\ CopyMap(v) \in MapsOf(v) /\ blocks[CopyMap(v)] = {}
         /\ \A w \in Var : allocs[w] # CopyMap(v)
<1>1. Unused(v, 0, InUse(Var)) # {}
  BY DEF Room
<1>2. InUse(Var \ {v}) \subseteq InUse(Var)
  BY DEF InUse
<1>3. Unused(v, 0, InUse(Var \ {v})) # {}
  BY <1>1, <1>2 DEF Unused
<1> QED BY <1>1, <1>3, UnusedIs DEF NewMap, CopyMap
(* The frame of a call reads memory that is allocated, of its arguments or  *)
(* in maps that it keeps.                                                   *)
FrameFits(f) ==
  /\ f \in [reads : SUBSET Block, keeps : SUBSET MapId, args : SUBSET Var]
  /\ \A p \in f.reads : /\ p \in allocated'
                        /\ \/ p \in StringPlace /\ p \in f.keeps
                           \/ \E x \in f.args : IsWhole(x) /\ p[1] \in Below[x]
Calls == \E g \in Proc, f \in [reads : SUBSET Block, keeps : SUBSET MapId, args : SUBSET Var] :
           FrameFits(f) /\ frame' = [frame EXCEPT ![g] = f]

(* Marshalling a caller's variable puts its memory in its new map.          *)
LEMMA CachesIs ==
  ASSUME IInv, NEW v \in Var, Room(v), NEW S \in SUBSET UnusedStrings, Caches(v),
         blocks' = [b \in MapId |-> IF b \in S THEN {b} ELSE WithMap(v, NewMap(v))[b]],
         allocated' = allocated \cup Memory(v) \cup S, UNCHANGED <<slices, lost, held>>
  PROVE  \E M, a : Allocates(M, S, a)
<1>1. /\ NewMap(v) \in MapsOf(v) /\ blocks[NewMap(v)] = {} /\ NewMap(v) \in MapId
      /\ NoMap \notin MapId
  BY NewMapIs, Addresses
<1>2. WithMap(v, NewMap(v)) = [b \in MapId |-> IF b = NewMap(v) THEN Memory(v) ELSE blocks[b]]
  BY <1>1, WithMapIs
<1>3. Memory(v) \subseteq Block \ (allocated \cup StringPlace) /\ \A p \in Memory(v) : p[1] \in Below[v]
  BY MemoryIs
<1>4. CASE ref[v].set
  <2>1. Memory(v) = {} /\ CValue(v) = ref[v]
    BY <1>4, MemoryIs, CValueIs
  <2>2. UNCHANGED <<ref, allocs>>
    BY <1>4, <2>1 DEF Caches, IInv, Typed
  <2>3. blocks' = [b \in MapId |-> IF b \in S THEN {b} ELSE IF b = NoMap THEN {} ELSE blocks[b]]
    BY <1>1, <1>2, <2>1
  <2>4. Grows({}, S, NoMap)
    BY <2>1, <2>3 DEF Grows
  <2>5. IsForgotten({}, NoMap)
    BY <2>2 DEF IsForgotten, Lost, IInv, Typed
  <2> QED BY <2>4, <2>5 DEF Allocates
<1>5. CASE ~ref[v].set
  <2>1. Grows(Memory(v), S, NewMap(v))
    <3>1. blocks' = [b \in MapId |-> IF b \in S THEN {b} ELSE IF b = NewMap(v) THEN Memory(v) ELSE blocks[b]]
      BY <1>2
    <3> QED BY <1>1, <1>3, <3>1 DEF Grows
  <2>2. IsCached(v, Memory(v), NewMap(v))
    <3>1. ref' = [ref EXCEPT ![v] = CValue(v)] /\ allocs' = [allocs EXCEPT ![v] = NewMap(v)]
      BY <1>5 DEF Caches
    <3> QED BY <1>1, <1>5, <3>1, CValueIs DEF IsCached
  <2> QED BY <2>1, <2>2 DEF Allocates
<1> QED BY <1>4, <1>5

(* PassRef gives the variable a map with all of its memory.                *)
LEMMA PassRefAllocates ==
  ASSUME IInv, NEW v \in Var, PassRef(v)
  PROVE  (\E M, S, a : Allocates(M, S, a)) /\ UNCHANGED frame
<1>1. Room(v) /\ Caches(v) /\ UNCHANGED <<slices, frame, lost, held>>
  BY DEF PassRef
<1>2. {} \in SUBSET UnusedStrings /\ allocated' = allocated \cup Memory(v) \cup {}
  BY DEF PassRef
<1>3. blocks' = [b \in MapId |-> IF b \in {} THEN {b} ELSE WithMap(v, NewMap(v))[b]]
  <2>1. WithMap(v, NewMap(v)) = [b \in MapId |-> IF b = NewMap(v) THEN Memory(v) ELSE blocks[b]]
    BY <1>1, WithMapIs, NewMapIs
  <2> QED BY <2>1 DEF PassRef
<1> QED BY <1>1, <1>2, <1>3, CachesIs

(* What a wrapper with an argument does: its strings are unused ones.       *)
LEMMA EnterIs ==
  ASSUME IInv, NEW g \in Proc, NEW c \in Wrappers, NEW args, NEW maps, NEW reads, NEW keeps,
         Enter(g, c, maps, args, reads, keeps)
  PROVE  \E S \in SUBSET UnusedStrings :
           /\ blocks' = [b \in MapId |-> IF b \in S THEN {b} ELSE maps[b]]
           /\ allocated' = allocated \cup S \cup UNION {Memory(v) : v \in args}
           /\ frame' = [frame EXCEPT ![g] = [reads |-> reads \cup S, args |-> args,
                                            keeps |-> keeps \cup S]]
BY NewStringsIs, ArgumentsAreWhole DEF Enter, Kept

(* The frame of a call with one argument.                                   *)
LEMMA ArgumentFits ==
  ASSUME IInv, NEW c \in Wrappers, NEW v \in Var, Type[v] \in c.values \cup c.refs,
         NEW S \in SUBSET UnusedStrings, NEW reads \in SUBSET Block, NEW keeps \in SUBSET MapId,
         S \subseteq allocated', reads \subseteq allocated', \A p \in reads : p[1] \in Below[v]
  PROVE  FrameFits([reads |-> reads \cup S, args |-> {v}, keeps |-> keeps \cup S])
<1>1. IsWhole(v)
  <2> SUFFICES ASSUME NEW x \in Var, v \in Parts(x) PROVE FALSE
    BY DEF IsWhole
  <2>1. Type[x] \in Structs /\ Type[v] \in Type[x].items \cup Type[x].nested
    BY TypeAssumption DEF Parts
  <2> QED BY <2>1, ArgumentsAreWhole
<1>2. S \subseteq StringPlace /\ S \subseteq Block /\ S \subseteq MapId
  BY UnusedIs, Addresses
<1> DEFINE f == [reads |-> reads \cup S, args |-> {v}, keeps |-> keeps \cup S]
<1>3. f.reads = reads \cup S /\ f.args = {v} /\ f.keeps = keeps \cup S
  OBVIOUS
<1>4. f \in [reads : SUBSET Block, keeps : SUBSET MapId, args : SUBSET Var]
  BY <1>2
<1> HIDE DEF f
<1> QED BY <1>1, <1>2, <1>3, <1>4 DEF FrameFits
(* So does a call by pointer, which reads the C object and keeps the map.   *)
LEMMA CallByPointerAllocates ==
  ASSUME IInv, NEW g \in Proc, NEW c \in Wrappers, NEW v \in Var, CallByPointer(g, c, v)
  PROVE  (\E M, S, a : Allocates(M, S, a)) /\ Calls
<1> DEFINE reads == CValue(v).points[v] \cup ({CValue(v).home} \ {Null})
           keeps == ItsMap(v, NewMap(v))
<1>1. /\ Room(v) /\ Caches(v) /\ Type[v] \in c.values \cup c.refs /\ UNCHANGED <<slices, lost, held>>
      /\ Enter(g, c, WithMap(v, NewMap(v)), {v}, reads, keeps)
  BY DEF CallByPointer
<1>2. /\ reads \in SUBSET Block /\ reads \subseteq allocated \cup Memory(v)
      /\ \A p \in reads : p[1] \in Below[v]
  <2>1. \A p \in CValue(v).points[v] : p \in Block /\ p \in allocated \cup Memory(v) /\ p[1] \in Below[v]
    <3>1. \A y \in Below[v] : Reaches(y) \subseteq allocated
      BY BelowIs DEF IInv, ReachedIsAlive
    <3> QED BY <1>1, <3>1, CValueIs DEF CObjects
  <2>2. ASSUME CValue(v).home # Null
        PROVE  /\ CValue(v).home \in Block /\ CValue(v).home \in allocated \cup Memory(v)
               /\ CValue(v).home[1] \in Below[v]
    <3>1. CASE ref[v].set
      <4>1. CValue(v).home = ref[v].home /\ ref[v].home \in Block
        BY <1>1, <2>2, <3>1, CValueIs DEF CObjects
      <4>2. ref[v].home \in allocated
        BY <4>1 DEF IInv, ReachedIsAlive, Reaches
      <4>3. ref[v].home[1] \in Var /\ v \in Below[ref[v].home[1]]
        BY <2>2, <4>1 DEF IInv, PointsBelow
      <4>4. \A x \in Var : v \notin Parts(x)
        <5> SUFFICES ASSUME NEW x \in Var, v \in Parts(x) PROVE FALSE
          OBVIOUS
        <5>1. Type[x] \in Structs /\ Type[v] \in Type[x].items \cup Type[x].nested
          BY TypeAssumption DEF Parts
        <5> QED BY <1>1, <5>1, ArgumentsAreWhole
      <4>5. ref[v].home[1] = v
        BY <4>3, <4>4, BelowIsForest
      <4> QED BY <4>1, <4>2, <4>5, BelowIsForest
    <3>2. CASE ~ref[v].set
      BY <1>1, <3>2, CValueIs, MemoryIs
    <3> QED BY <3>1, <3>2
  <2> QED BY <2>1, <2>2
<1>3. keeps \in SUBSET MapId
  BY <1>1, NewMapIs, Addresses DEF ItsMap
<1> HIDE DEF reads, keeps
<1>4. PICK S \in SUBSET UnusedStrings :
        /\ blocks' = [b \in MapId |-> IF b \in S THEN {b} ELSE WithMap(v, NewMap(v))[b]]
        /\ allocated' = allocated \cup S \cup UNION {Memory(w) : w \in {v}}
        /\ frame' = [frame EXCEPT ![g] = [reads |-> reads \cup S, args |-> {v}, keeps |-> keeps \cup S]]
  BY <1>1, EnterIs
<1>5. allocated' = allocated \cup Memory(v) \cup S
  BY <1>4
<1>6. \E M, a : Allocates(M, S, a)
  BY <1>1, <1>4, <1>5, CachesIs
<1>7. FrameFits([reads |-> reads \cup S, args |-> {v}, keeps |-> keeps \cup S])
  BY <1>1, <1>2, <1>3, <1>5, ArgumentFits
<1> QED BY <1>4, <1>6, <1>7 DEF Calls, FrameFits

(* A call by value keeps a map that it alone has: its memory is lost.       *)
LEMMA CallByValueAllocates ==
  ASSUME IInv, NEW g \in Proc, NEW c \in Wrappers, NEW v \in Var, CallByValue(g, c, v)
  PROVE  (\E M, S, a : Allocates(M, S, a)) /\ Calls
<1> DEFINE reads == CValue(v).points[v]
           keeps == ItsMap(v, CopyMap(v))
<1>1. /\ Room(v) /\ Type[v] \in c.values \cup c.refs /\ UNCHANGED <<ref, allocs, slices, held>>
      /\ Enter(g, c, WithMap(v, CopyMap(v)), {v}, reads, keeps) /\ Loses("PassValue", Memory(v))
  BY DEF CallByValue
<1>2. /\ reads \in SUBSET Block /\ reads \subseteq allocated \cup Memory(v)
      /\ \A p \in reads : p[1] \in Below[v]
  <2>1. \A y \in Below[v] : Reaches(y) \subseteq allocated
    BY BelowIs DEF IInv, ReachedIsAlive
  <2> QED BY <1>1, <2>1, CValueIs DEF CObjects
<1>3. keeps \in SUBSET MapId
  BY <1>1, NewMapIs, Addresses DEF ItsMap
<1> HIDE DEF reads, keeps
<1>4. PICK S \in SUBSET UnusedStrings :
        /\ blocks' = [b \in MapId |-> IF b \in S THEN {b} ELSE WithMap(v, CopyMap(v))[b]]
        /\ allocated' = allocated \cup S \cup UNION {Memory(w) : w \in {v}}
        /\ frame' = [frame EXCEPT ![g] = [reads |-> reads \cup S, args |-> {v}, keeps |-> keeps \cup S]]
  BY <1>1, EnterIs
<1>5. allocated' = allocated \cup Memory(v) \cup S
  BY <1>4
<1>6. Grows(Memory(v), S, CopyMap(v))
  <2>1. CopyMap(v) \in MapsOf(v) /\ blocks[CopyMap(v)] = {}
    BY <1>1, NewMapIs
  <2>2. WithMap(v, CopyMap(v)) = [b \in MapId |-> IF b = CopyMap(v) THEN Memory(v) ELSE blocks[b]]
    BY <1>1, <2>1, WithMapIs
  <2>3. blocks' = [b \in MapId |-> IF b \in S THEN {b} ELSE IF b = CopyMap(v) THEN Memory(v) ELSE blocks[b]]
    BY <1>4, <2>2
  <2>4. Memory(v) \subseteq Block \ (allocated \cup StringPlace) /\ \A p \in Memory(v) : p[1] \in Below[v]
    BY <1>1, MemoryIs
  <2> QED BY <1>1, <1>5, <2>1, <2>3, <2>4 DEF Grows
<1>7. IsForgotten(Memory(v), CopyMap(v))
  <2>1. lost \in [Causes -> SUBSET Block] /\ Memory(v) \subseteq Block
    BY <1>1, MemoryIs DEF IInv, Typed
  <2>2. lost' = [lost EXCEPT !["PassValue"] = lost["PassValue"] \cup Memory(v)]
    BY <1>1 DEF Loses
  <2>3. lost' \in [Causes -> SUBSET Block] /\ Lost' = Lost \cup Memory(v)
    BY <2>1, <2>2 DEF Lost, Causes
  <2>4. \A w \in Var : allocs[w] # CopyMap(v)
    BY <1>1, NewMapIs
  <2> QED BY <1>1, <2>3, <2>4 DEF IsForgotten
<1>8. FrameFits([reads |-> reads \cup S, args |-> {v}, keeps |-> keeps \cup S])
  BY <1>1, <1>2, <1>3, <1>5, ArgumentFits
<1> QED BY <1>4, <1>6, <1>7, <1>8 DEF Calls, FrameFits, Allocates

(* Other calls allocate strings alone.                                      *)
LEMMA CallWithStringsAllocates ==
  ASSUME IInv, NEW g \in Proc, NEW c \in Wrappers, CallWithStrings(g, c)
  PROVE  (\E M, S, a : Allocates(M, S, a)) /\ Calls
<1>1. Enter(g, c, blocks, {}, {}, {}) /\ UNCHANGED <<ref, allocs, slices, lost, held>>
  BY DEF CallWithStrings
<1>2. PICK S \in SUBSET UnusedStrings :
        /\ blocks' = [b \in MapId |-> IF b \in S THEN {b} ELSE blocks[b]]
        /\ allocated' = allocated \cup S
        /\ frame' = [frame EXCEPT ![g] = [reads |-> S, args |-> {}, keeps |-> S]]
  BY <1>1, NewStringsIs, ArgumentsAreWhole DEF Enter, Kept
<1>3. Grows({}, S, NoMap)
  <2>1. blocks' = [b \in MapId |-> IF b \in S THEN {b} ELSE IF b = NoMap THEN {} ELSE blocks[b]]
    BY <1>2, Addresses
  <2> QED BY <1>1, <1>2, <2>1 DEF Grows
<1>4. IsForgotten({}, NoMap)
  BY <1>1 DEF IsForgotten, Lost, IInv, Typed
<1>5. FrameFits([reads |-> S, args |-> {}, keeps |-> S])
  <2>1. S \subseteq StringPlace /\ S \subseteq Block /\ S \subseteq MapId
    BY UnusedIs, Addresses
  <2> QED BY <1>2, <2>1 DEF FrameFits
<1> QED BY <1>2, <1>3, <1>4, <1>5 DEF Calls, FrameFits, Allocates
-----------------------------------------------------------------------------
(* Steps that allocate preserve each part of the invariant. *)

(* The maps after a step that allocates.                                    *)
LEMMA GrowsIs ==
  ASSUME IInv, NEW M, NEW S, NEW a, Grows(M, S, a)
  PROVE  /\ M \subseteq Block \ (allocated \cup StringPlace) /\ S \subseteq StringPlace \ allocated
         /\ a \in MapId \cup {NoMap} /\ a \notin S /\ (a = NoMap => M = {})
         /\ a \in MapId => blocks[a] = {}
         /\ \A b \in S : b \in MapId /\ blocks[b] = {} /\ blocks'[b] = {b} /\ b # a
         /\ \A b \in MapId : b \notin S /\ b # a => blocks'[b] = blocks[b]
         /\ a \in MapId => blocks'[a] = M
         /\ \A b \in MapId : blocks[b] \subseteq blocks'[b]
         /\ blocks' \in [MapId -> SUBSET Block] /\ allocated' = allocated \cup M \cup S
         /\ allocated' \subseteq Block
         /\ slices' = slices /\ held' = held
<1>1. M \subseteq Block \ (allocated \cup StringPlace) /\ S \subseteq StringPlace \ allocated
  BY UnusedIs DEF Grows
<1>2. /\ a \in MapId \cup {NoMap} /\ a \notin StringPlace /\ (a = NoMap => M = {})
      /\ a \in MapId => blocks[a] = {}
  BY Addresses DEF Grows
<1>3. \A b \in S : b \in MapId /\ b \in Block /\ blocks[b] = {}
  BY <1>1, UnusedIs, Addresses DEF Grows
<1>4. /\ \A b \in MapId : blocks[b] \subseteq Block /\ allocated \subseteq Block
      /\ blocks' = [b \in MapId |-> IF b \in S THEN {b} ELSE IF b = a THEN M ELSE blocks[b]]
  BY DEF IInv, TypeOK, Grows
<1>5. blocks' \in [MapId -> SUBSET Block]
  <2>1. \A b \in MapId : (IF b \in S THEN {b} ELSE IF b = a THEN M ELSE blocks[b]) \in SUBSET Block
    BY <1>1, <1>3, <1>4
  <2> QED BY <1>4, <2>1
<1>6. allocated' = allocated \cup M \cup S /\ allocated' \subseteq Block
  <2>1. allocated \subseteq Block
    BY DEF IInv, TypeOK
  <2> QED BY <1>1, <1>3, <2>1 DEF Grows
<1>7. slices' = slices /\ held' = held
  BY DEF Grows
<1> QED BY <1>1, <1>2, <1>3, <1>4, <1>5, <1>6, <1>7

(* What a variable reaches after a step that allocates.                     *)
LEMMA AllocatesReaches ==
  ASSUME IInv, NEW M, NEW S, NEW a, Allocates(M, S, a)
  PROVE  /\ ref' \in [Var -> CObjects]
         /\ \A w \in Var : ~ref'[w].set => ref'[w] = NoRef
         /\ \A w \in Var : \/ ref'[w] = ref[w] /\ allocs'[w] = allocs[w] /\ allocs[w] # a
                           \/ ref'[w] = ref[w] /\ allocs'[w] = allocs[w] /\ allocs[w] = NoMap
                           \/ IsCached(w, M, a) /\ ref'[w].set /\ allocs'[w] = a
         /\ \A w \in Var : ref[w].set => ref'[w] = ref[w] /\ allocs'[w] = allocs[w]
         /\ \A w \in Var : ref'[w] = ref[w] => Reaches(w)' = Reaches(w)
         /\ \A v \in Var : IsCached(v, M, a) =>
              \A q \in Reaches(v)' : q \in M \/ \E y \in Below[v] : ref[y].set /\ q \in Reaches(y)
         /\ allocs' \in [Var -> MapId \cup {NoMap}]
         /\ \A w \in Var : allocs'[w] \in MapsOf(w) \cup {NoMap}
<1>1. /\ ref \in [Var -> CObjects] /\ \A w \in Var : ~ref[w].set => ref[w] = NoRef
      /\ allocs \in [Var -> MapId \cup {NoMap}] /\ \A w \in Var : allocs[w] \in MapsOf(w) \cup {NoMap}
  BY DEF IInv, TypeOK, Typed, KeepsOwnMap
<1>2. \A w \in Var : ref'[w] = ref[w] => Reaches(w)' = Reaches(w)
  BY DEF Reaches
<1>3. CASE IsForgotten(M, a)
  <2>1. \A v \in Var : ~IsCached(v, M, a)
    <3> SUFFICES ASSUME NEW v \in Var, IsCached(v, M, a) PROVE FALSE
      OBVIOUS
    <3>1. ref' = ref /\ ref'[v].set /\ ~ref[v].set
      BY <1>1, <1>3 DEF IsForgotten, IsCached
    <3> QED BY <3>1
  <2>2. ref' = ref /\ allocs' = allocs /\ \A w \in Var : allocs[w] = a => a = NoMap
    BY <1>3 DEF IsForgotten
  <2> QED BY <1>1, <1>2, <2>1, <2>2
<1>4. ASSUME NEW v \in Var, IsCached(v, M, a)
      PROVE  /\ ref' \in [Var -> CObjects] /\ ref'[v].set /\ allocs'[v] = a
             /\ \A w \in Var : w # v => ref'[w] = ref[w] /\ allocs'[w] = allocs[w]
             /\ a \in MapsOf(v) /\ ~ref[v].set
             /\ allocs' \in [Var -> MapId \cup {NoMap}]
             /\ \A q \in Reaches(v)' : q \in M \/ \E y \in Below[v] : ref[y].set /\ q \in Reaches(y)
  <2>1. PICK c \in CObjects :
          /\ ref' = [ref EXCEPT ![v] = c]
          /\ c.set /\ c.home \in M
          /\ \A x \in Var : \A q \in c.points[x] :
                q \in M \/ \E y \in Below[v] : ref[y].set /\ q \in Reaches(y)
    BY <1>4 DEF IsCached
  <2>2. ref' \in [Var -> CObjects] /\ ref'[v] = c /\ \A w \in Var : w # v => ref'[w] = ref[w]
    BY <1>1, <2>1
  <2>3. a \in MapsOf(v) /\ ~ref[v].set /\ allocs' = [allocs EXCEPT ![v] = a]
    BY <1>4 DEF IsCached
  <2>4. a \in MapId
    BY <2>3, Addresses
  <2>5. \A q \in Reaches(v)' : q = c.home \/ \E x \in Var : q \in c.points[x]
    BY <2>2 DEF Reaches
  <2> QED BY <1>1, <2>1, <2>2, <2>3, <2>4, <2>5
<1>5. ASSUME NEW v \in Var, IsCached(v, M, a), NEW w \in Var
      PROVE  /\ w # v => ~IsCached(w, M, a) /\ allocs[w] # a
             /\ allocs'[w] \in MapsOf(w) \cup {NoMap}
  <2>1. a \in MapsOf(v) /\ (allocs[w] = NoMap \/ allocs[w] \in MapsOf(w)) /\ a # NoMap
    BY <1>1, <1>4, <1>5, Addresses
  <2>2. w # v => a \notin MapsOf(w)
    BY <2>1, Addresses
  <2>3. w # v => allocs[w] # a
    BY <2>1, <2>2
  <2> QED BY <1>1, <1>4, <1>5, <2>1, <2>2, <2>3 DEF IsCached
<1>6. ASSUME NEW v \in Var, IsCached(v, M, a)
      PROVE  /\ \A w \in Var : ~ref'[w].set => ref'[w] = NoRef
             /\ \A w \in Var : \/ ref'[w] = ref[w] /\ allocs'[w] = allocs[w] /\ allocs[w] # a
                               \/ IsCached(w, M, a) /\ ref'[w].set /\ allocs'[w] = a
             /\ \A w \in Var : ref[w].set => ref'[w] = ref[w] /\ allocs'[w] = allocs[w]
  BY <1>1, <1>4, <1>5, <1>6
<1> QED BY <1>2, <1>3, <1>4, <1>5, <1>6 DEF Allocates
(* The new map is the variable's own and lists memory that is not lost.     *)
LEMMA AllocatesTyped ==
  ASSUME IInv, NEW M, NEW S, NEW a, Allocates(M, S, a)
  PROVE  Typed' /\ KeepsOwnMap' /\ Lost' \subseteq allocated' /\ LostForEver' /\ ListsOwnMemory'
<1>1. Grows(M, S, a)
  BY DEF Allocates
<1>2. lost' \in [Causes -> SUBSET Block] /\ (Lost' = Lost \/ (Lost' = Lost \cup M /\ IsForgotten(M, a)))
  BY DEF Allocates, IsForgotten, IsCached, Lost, IInv, Typed
<1>3. Typed'
  BY <1>1, <1>2, AllocatesReaches, GrowsIs DEF IInv, Typed
<1>4. KeepsOwnMap'
  <2> SUFFICES ASSUME NEW v \in Var, allocs'[v] # NoMap, ~ref'[v].set PROVE blocks'[allocs'[v]] = {}
    BY AllocatesReaches DEF KeepsOwnMap
  <2>1. allocs'[v] = allocs[v] /\ allocs[v] # a /\ ~ref[v].set /\ allocs[v] \in MapsOf(v)
    BY AllocatesReaches DEF IInv, KeepsOwnMap
  <2>2. blocks[allocs[v]] = {} /\ allocs[v] \notin S /\ allocs[v] \in MapId
    BY <1>1, <2>1, GrowsIs, Addresses DEF IInv, KeepsOwnMap
  <2> QED BY <1>1, <2>1, <2>2, GrowsIs
<1>5. Lost' \subseteq allocated'
  <2>1. Lost \subseteq allocated
    BY DEF IInv, TypeOK
  <2> QED BY <1>1, <1>2, <2>1, GrowsIs
<1>6. LostForEver'
  <2>1. Lost' \cap StringPlace = {}
    BY <1>1, <1>2, GrowsIs DEF IInv, LostForEver
  <2>2. ASSUME NEW v \in Var, allocs'[v] # NoMap PROVE blocks'[allocs'[v]] \cap Lost' = {}
    <3>1. Lost \subseteq allocated
      BY DEF IInv, TypeOK
    <3>2. CASE IsCached(v, M, a)
      <4>1. Lost' = Lost /\ allocs'[v] = a /\ a \in MapsOf(v)
        BY <3>2, AllocatesReaches DEF IsCached, Lost, IInv, TypeOK
      <4>2. blocks'[allocs'[v]] = M
        BY <1>1, <4>1, GrowsIs, Addresses
      <4> QED BY <1>1, <3>1, <4>1, <4>2, GrowsIs
    <3>3. CASE ~IsCached(v, M, a)
      <4>1. allocs'[v] = allocs[v] /\ allocs[v] # a /\ allocs[v] \in MapsOf(v)
        BY <2>2, <3>3, AllocatesReaches DEF IInv, KeepsOwnMap
      <4>2. allocs[v] \in MapId /\ allocs[v] \notin S
        BY <1>1, <4>1, GrowsIs, Addresses
      <4>3. blocks'[allocs'[v]] = blocks[allocs[v]]
        BY <1>1, <4>1, <4>2, GrowsIs
      <4>4. blocks[allocs[v]] \cap Lost = {} /\ blocks[allocs[v]] \subseteq allocated
        BY <2>2, <4>1, <4>2 DEF IInv, LostForEver, ListsApart
      <4> QED BY <1>1, <1>2, <4>3, <4>4, GrowsIs
    <3> QED BY <3>2, <3>3
  <2> QED BY <2>1, <2>2 DEF LostForEver
<1>7. ListsOwnMemory'
  <2>1. ASSUME NEW v \in Var, NEW b \in MapsOf(v), NEW p \in blocks'[b] PROVE p[1] \in Below[v]
    <3>1. b \in MapId /\ b \notin S
      BY <1>1, GrowsIs, Addresses
    <3>2. CASE b = a
      <4>1. PICK w \in Var : a \in MapsOf(w) /\ \A q \in M : q[1] \in Below[w]
        BY <1>1, <3>1, <3>2, Addresses DEF Grows
      <4>2. w = v
        BY <3>2, <4>1, Addresses
      <4> QED BY <1>1, <2>1, <3>1, <3>2, <4>1, <4>2, GrowsIs
    <3>3. CASE b # a
      BY <1>1, <2>1, <3>1, <3>3, GrowsIs DEF IInv, ListsOwnMemory
    <3> QED BY <3>2, <3>3
  <2>2. ASSUME NEW b \in UnpackedMaps PROVE blocks'[b] = {}
    <3>1. b \in MapId /\ b \notin StringPlace /\ \A v \in Var : b \notin MapsOf(v)
      BY Addresses
    <3>2. b \notin S /\ b # a
      <4>1. S \subseteq StringPlace
        BY <1>1, GrowsIs
      <4>2. a = NoMap \/ \E v \in Var : a \in MapsOf(v)
        BY <1>1 DEF Grows
      <4>3. NoMap \notin MapId
        BY Addresses
      <4> QED BY <3>1, <4>1, <4>2, <4>3
    <3> QED BY <1>1, <3>1, <3>2, GrowsIs DEF IInv, ListsOwnMemory
  <2>3. ASSUME NEW b \in StringPlace PROVE blocks'[b] \subseteq {b}
    <3>1. b \in MapId /\ b # a
      BY <1>1, Addresses DEF Grows
    <3> QED BY <1>1, <3>1, GrowsIs DEF IInv, ListsOwnMemory
  <2> QED BY <2>1, <2>2, <2>3 DEF ListsOwnMemory
<1> QED BY <1>3, <1>4, <1>5, <1>6, <1>7

(* What a new C object reaches is allocated and below its variable.         *)
LEMMA AllocatesPoints ==
  ASSUME IInv, NEW M, NEW S, NEW a, Allocates(M, S, a)
  PROVE  PointsBelow' /\ SlicesAreCached' /\ ReachedIsAlive'
<1>1. Grows(M, S, a)
  BY DEF Allocates
<1>2. PointsBelow'
  <2> SUFFICES ASSUME NEW w \in Var
               PROVE  /\ \A x \in Var : \A p \in ref'[w].points[x] : p[1] \in Below[x] /\ p[1] \in Below[w]
                      /\ ref'[w].home # Null => /\ ref'[w].home \in Var \X {0} \X (1 .. Copies)
                                                /\ w \in Below[ref'[w].home[1]]
    BY DEF PointsBelow
  <2>1. CASE ref'[w] = ref[w]
    BY <2>1 DEF IInv, PointsBelow
  <2>2. CASE IsCached(w, M, a)
    <3>1. PICK c \in CObjects :
            /\ ref' = [ref EXCEPT ![w] = c]
            /\ c.home \in {w} \X {0} \X (1 .. Copies)
            /\ \A x \in Var : \A q \in c.points[x] : q[1] \in Below[x] /\ q[1] \in Below[w]
      BY <2>2 DEF IsCached
    <3>2. ref'[w] = c
      BY <3>1 DEF IInv, Typed
    <3>3. c.home[1] = w /\ c.home \in Var \X {0} \X (1 .. Copies)
      BY <3>1
    <3> QED BY <3>1, <3>2, <3>3, BelowIsForest
  <2> QED BY <2>1, <2>2, AllocatesReaches
<1>3. SlicesAreCached'
  BY <1>1, AllocatesReaches, GrowsIs DEF IInv, SlicesAreCached
<1>4. ReachedIsAlive'
  <2> SUFFICES ASSUME NEW w \in Var PROVE Reaches(w)' \subseteq allocated' /\ slices'[w] \subseteq allocated'
    BY DEF ReachedIsAlive
  <2>1. \A y \in Var : Reaches(y) \subseteq allocated /\ slices[y] \subseteq allocated
    BY DEF IInv, ReachedIsAlive
  <2>2. slices'[w] \subseteq allocated'
    BY <1>1, <2>1, GrowsIs
  <2>3. CASE ref'[w] = ref[w]
    BY <1>1, <2>1, <2>3, AllocatesReaches, GrowsIs
  <2>4. CASE IsCached(w, M, a)
    <3>1. \A q \in Reaches(w)' : q \in M \/ \E y \in Below[w] : q \in Reaches(y)
      BY <2>4, AllocatesReaches
    <3>2. \A y \in Below[w] : y \in Var
      BY BelowIs
    <3> QED BY <1>1, <2>1, <2>2, <3>1, <3>2, GrowsIs
  <2> QED BY <2>2, <2>3, <2>4, AllocatesReaches
<1> QED BY <1>2, <1>3, <1>4

(* The new memory is listed once, and only where it is lost not reclaimable.*)
LEMMA AllocatesLists ==
  ASSUME IInv, NEW M, NEW S, NEW a, Allocates(M, S, a)
  PROVE  ListsApart' /\ CanBeFreed'
<1>1. Grows(M, S, a)
  BY DEF Allocates
<1>2. ListsApart'
  <2>1. \A b \in MapId : blocks[b] \subseteq allocated
    BY DEF IInv, ListsApart
  <2>2. \A b \in MapId : \/ b \in S /\ blocks'[b] = {b}
                         \/ b \notin S /\ b = a /\ blocks'[b] = M
                         \/ b \notin S /\ b # a /\ blocks'[b] = blocks[b] /\ blocks[b] \subseteq allocated
    BY <1>1, <2>1, GrowsIs
  <2>3. \A b \in MapId : blocks'[b] \subseteq allocated'
    BY <1>1, <2>2, GrowsIs
  <2>4. ASSUME NEW b \in MapId, NEW d \in MapId, b # d PROVE blocks'[b] \cap blocks'[d] = {}
    <3>1. blocks[b] \cap blocks[d] = {}
      BY <2>4 DEF IInv, ListsApart
    <3>2. M \cap (allocated \cup S) = {} /\ S \cap allocated = {}
      BY <1>1, GrowsIs
    <3> QED BY <2>2, <2>4, <3>1, <3>2
  <2> QED BY <2>3, <2>4 DEF ListsApart
<1>3. CanBeFreed'
  <2> SUFFICES ASSUME NEW p \in allocated' \ Lost'
               PROVE  \E b \in MapId : /\ p \in blocks'[b]
                                       /\ HasFinalizer(b) \/ \E v \in Var : ref'[v].set /\ allocs'[v] = b
    BY DEF CanBeFreed
  <2>1. CASE p \in S
    BY <1>1, <2>1, GrowsIs, Addresses
  <2>2. CASE p \in M
    <3>1. PICK v \in Var : IsCached(v, M, a)
      BY <2>2 DEF Allocates, IsForgotten
    <3>2. ref'[v].set /\ allocs'[v] = a /\ a \in MapId
      BY <3>1, AllocatesReaches, Addresses DEF IsCached
    <3> QED BY <1>1, <2>2, <3>2, GrowsIs
  <2>3. CASE p \in allocated
    <3>1. p \in allocated \ Lost
      BY <2>3 DEF Allocates, IsForgotten, IsCached, Lost
    <3>2. PICK b \in MapId : /\ p \in blocks[b]
                             /\ HasFinalizer(b) \/ \E v \in Var : ref[v].set /\ allocs[v] = b
      BY <3>1 DEF IInv, CanBeFreed
    <3>3. p \in blocks'[b]
      BY <1>1, <3>2, GrowsIs
    <3> QED BY <3>2, <3>3, AllocatesReaches
  <2> QED BY <1>1, <2>1, <2>2, <2>3, GrowsIs
<1> QED BY <1>2, <1>3
(* The new memory is reached by its variable alone, and the C objects of    *)
(* its parts, which it reaches too, are in no map of what holds it.         *)
LEMMA AllocatesForOthers ==
  ASSUME IInv, NEW M, NEW S, NEW a, Allocates(M, S, a)
  PROVE  OthersReachNothing'
<1> SUFFICES ASSUME NEW v \in Var, NEW w \in Below[v], allocs'[v] # NoMap, w # v,
                    ~(IsReadBack(w)' /\ w \in Parts(v))
             PROVE  Reaches(w)' \cap blocks'[allocs'[v]] = {}
  BY DEF OthersReachNothing
<1>1. Grows(M, S, a) /\ w \in Var
  BY BelowIs DEF Allocates
<1>2. /\ \A y \in Var : Reaches(y) \subseteq allocated
      /\ \A b \in MapId : blocks[b] \subseteq allocated
  BY DEF IInv, ReachedIsAlive, ListsApart
<1>3. \A y \in Var : IsCached(y, M, a) => a \in MapsOf(y) /\ a \in MapId
  BY Addresses DEF IsCached
<1>4. \/ IsCached(v, M, a) /\ allocs'[v] = a
      \/ /\ allocs'[v] = allocs[v] /\ allocs[v] # a /\ allocs[v] \in MapId
         /\ blocks'[allocs'[v]] = blocks[allocs[v]]
  <2>1. CASE IsCached(v, M, a)
    BY <2>1 DEF IsCached, IInv, TypeOK
  <2>2. CASE ~IsCached(v, M, a)
    <3>1. allocs'[v] = allocs[v] /\ allocs[v] # a
      BY <2>2, AllocatesReaches
    <3>2. allocs[v] \in MapsOf(v)
      BY <3>1, AllocatesReaches
    <3>3. allocs[v] \in MapId /\ allocs[v] \notin S
      BY <1>1, <3>2, GrowsIs, Addresses
    <3> QED BY <1>1, <3>1, <3>3, GrowsIs
  <2> QED BY <2>1, <2>2
<1>5. CASE IsCached(v, M, a) /\ allocs'[v] = a
  <2>1. ~IsCached(w, M, a)
    BY <1>1, <1>3, <1>5, Addresses
  <2>2. Reaches(w)' = Reaches(w)
    BY <1>1, <2>1, AllocatesReaches
  <2> QED BY <1>1, <1>2, <1>3, <1>5, <2>2, GrowsIs
<1>6. CASE /\ allocs'[v] = allocs[v] /\ allocs[v] # a /\ allocs[v] \in MapId
           /\ blocks'[allocs'[v]] = blocks[allocs[v]]
  <2>1. CASE IsCached(w, M, a)
    <3> SUFFICES ASSUME NEW q \in Reaches(w)', q \in blocks[allocs[v]] PROVE FALSE
      BY <1>6
    <3>1. q \notin M
      BY <1>1, <1>2, <1>6, GrowsIs
    <3>2. PICK y \in Below[w] : ref[y].set /\ q \in Reaches(y)
      BY <1>1, <2>1, <3>1, AllocatesReaches
    <3>3. y # w /\ y \in Var /\ y \in Below[v]
      BY <1>1, <2>1, <3>2, BelowIsForest DEF IsCached
    <3>4. v \notin Below[w]
      BY BelowIsForest
    <3>5. y # v /\ y \notin Parts(v)
      BY <1>1, <3>2, <3>3, <3>4, WholeIsBelow
    <3>6. allocs[v] # NoMap
      BY <1>6
    <3> QED BY <3>2, <3>3, <3>5, <3>6 DEF IInv, OthersReachNothing
  <2>2. CASE ~IsCached(w, M, a)
    <3>1. ref'[w] = ref[w] /\ allocs'[w] = allocs[w] /\ Reaches(w)' = Reaches(w)
      BY <1>1, <2>2, AllocatesReaches
    <3>2. IsReadBack(w)' <=> IsReadBack(w)
      BY <3>1 DEF IsReadBack
    <3> QED BY <1>6, <3>1, <3>2 DEF IInv, OthersReachNothing
  <2> QED BY <2>1, <2>2
<1> QED BY <1>4, <1>5, <1>6

(* Frames stay as they are, or one is added that fits, while no allocated    *)
(* memory that a frame reads is freed.                                      *)
LEMMA FramesFit ==
  ASSUME IInv, \A g \in Proc : frame[g].reads \subseteq allocated', Calls \/ UNCHANGED frame
  PROVE  /\ frame' \in [Proc -> [reads : SUBSET Block, keeps : SUBSET MapId, args : SUBSET Var]]
         /\ ReadsArguments' /\ NoDanglingRead'
<1> DEFINE Frames == [reads : SUBSET Block, keeps : SUBSET MapId, args : SUBSET Var]
<1>1. frame \in [Proc -> Frames]
  BY DEF IInv, TypeOK
<1>2. \A g \in Proc : FrameFits(frame[g])
  BY <1>1 DEF FrameFits, IInv, ReadsArguments
<1>3. frame' \in [Proc -> Frames] /\ \A g \in Proc : FrameFits(frame'[g])
  <2>1. CASE Calls
    <3>1. PICK g \in Proc, f \in Frames : FrameFits(f) /\ frame' = [frame EXCEPT ![g] = f]
      BY <2>1 DEF Calls
    <3> HIDE DEF Frames
    <3> QED BY <1>1, <1>2, <3>1
  <2>2. CASE UNCHANGED frame
    BY <1>1, <1>2, <2>2
  <2> QED BY <2>1, <2>2
<1> QED BY <1>3 DEF FrameFits, ReadsArguments, NoDanglingRead

(* The invariant after a step that allocates.                               *)
LEMMA AllocatesIInv ==
  ASSUME IInv, NEW M, NEW S, NEW a, Allocates(M, S, a), Calls \/ UNCHANGED frame
  PROVE  IInv'
<1>1. Grows(M, S, a)
  BY DEF Allocates
<1>2. \A g \in Proc : frame[g].reads \subseteq allocated'
  BY <1>1, GrowsIs DEF IInv, NoDanglingRead
<1>3. TypeOK'
  <2>1. \A v \in Var : /\ ref'[v].home \in Block \cup {Null} /\ ref'[v].set \in BOOLEAN
                       /\ ref'[v].points \in [Var -> SUBSET Block]
    BY AllocatesReaches DEF CObjects
  <2>2. slices' \in [Var -> SUBSET Block]
    BY <1>1, GrowsIs DEF IInv, TypeOK
  <2> QED BY <1>1, <1>2, <2>1, <2>2, AllocatesReaches, AllocatesTyped, GrowsIs, FramesFit DEF TypeOK
<1> QED BY <1>2, <1>3, AllocatesTyped, AllocatesPoints, AllocatesLists, AllocatesForOthers, FramesFit
        DEF IInv
-----------------------------------------------------------------------------
(* Free, the garbage collector and the other steps preserve the invariant. *)

(* What a variable reaches, or its byte slices are in, is memory of what is *)
(* below it or of what holds it, and never a string.                        *)
LEMMA ReachesIs ==
  ASSUME IInv, NEW w \in Var, NEW p \in Reaches(w) \cup slices[w]
  PROVE  p[1] \in Var /\ (p[1] \in Below[w] \/ w \in Below[p[1]])
<1>1. CASE p = ref[w].home
  <2>1. ref[w].home # Null
    BY <1>1, Addresses DEF IInv, TypeOK, Reaches
  <2> QED BY <1>1, <2>1 DEF IInv, PointsBelow
<1>2. CASE \E x \in Var : p \in ref[w].points[x]
  BY <1>2, BelowIs DEF IInv, PointsBelow
<1> QED BY <1>1, <1>2 DEF Reaches, IInv, SlicesAreCached
(* Nothing but the variable itself refers to the memory that Free frees.    *)
LEMMA FreedIsUnused ==
  ASSUME IInv, NEW v \in Var, MayFree(v)
  PROVE  /\ allocs[v] \in MapsOf(v) /\ allocs[v] \in MapId /\ slices[v] = {}
         /\ \A w \in Var : w # v => (Reaches(w) \cup slices[w]) \cap blocks[allocs[v]] = {}
         /\ \A g \in Proc : frame[g].reads \cap blocks[allocs[v]] = {}
<1>1. allocs[v] \in MapsOf(v) /\ allocs[v] \in MapId /\ slices[v] = {} /\ allocs[v] # NoMap
  BY Addresses DEF MayFree, IInv, KeepsOwnMap
<1>2. \A p \in blocks[allocs[v]] : p[1] \in Below[v] /\ p[1] \in Var
  BY <1>1, BelowIs DEF IInv, ListsOwnMemory
<1>3. ASSUME NEW w \in Var, w # v, NEW p \in Reaches(w) \cup slices[w], p \in blocks[allocs[v]]
      PROVE  FALSE
  <2>1. p[1] \in Below[w] \/ w \in Below[p[1]]
    BY <1>3, ReachesIs
  <2>2. w \in Below[v] \/ v \in Below[w]
    BY <1>2, <1>3, <2>1, BelowIsForest
  <2>3. ref[w].set /\ p \in Reaches(w)
    <3>1. ref[w].set
      <4> SUFFICES ASSUME ~ref[w].set PROVE FALSE
        OBVIOUS
      <4>1. ref[w] = NoRef /\ slices[w] = {}
        BY DEF IInv, Typed, SlicesAreCached
      <4> QED BY <1>3, <4>1, Addresses DEF Reaches, NoRef
    <3>2. slices[w] \subseteq Reaches(w)
      BY DEF IInv, SlicesAreCached, TypeOK, Reaches
    <3> QED BY <1>3, <3>1, <3>2
  <2>4. v \notin Below[w]
    BY <1>3, <2>3 DEF MayFree
  <2>5. w \in Below[v] /\ ~IsReadBack(w)
    BY <1>3, <2>2, <2>4 DEF MayFree
  <2> QED BY <1>1, <1>3, <2>3, <2>5 DEF IInv, OthersReachNothing
<1>4. ASSUME NEW g \in Proc, NEW p \in frame[g].reads, p \in blocks[allocs[v]] PROVE FALSE
  <2>1. p \notin StringPlace
    BY <1>2, <1>4, Addresses
  <2>2. PICK x \in frame[g].args : IsWhole(x) /\ p[1] \in Below[x]
    BY <1>4, <2>1 DEF IInv, ReadsArguments
  <2>3. x \in Var /\ v \notin Below[x]
    BY <2>2 DEF MayFree, IInv, TypeOK
  <2>4. x \in Below[v]
    BY <1>2, <1>4, <2>2, <2>3, BelowIsForest
  <2>5. x # v
    BY <2>3, BelowIsForest
  <2> QED BY <2>2, <2>4, <2>5, BelowIsForest DEF IsWhole
<1> QED BY <1>1, <1>3, <1>4

(* Free frees what nothing else refers to and lists.                        *)
LEMMA FreeIInv ==
  ASSUME IInv, NEW v \in Var, Free(v)
  PROVE  IInv'
<1> PICK a : a = allocs[v]
  OBVIOUS
<1>1. /\ MayFree(v) /\ allocated' = allocated \ blocks[a] /\ blocks' = [blocks EXCEPT ![a] = {}]
      /\ ref' = [ref EXCEPT ![v] = NoRef] /\ UNCHANGED <<allocs, slices, frame, lost, held>>
  BY DEF Free
<1>2. a \in MapsOf(v) /\ a \in MapId /\ slices[v] = {} /\ a # NoMap
  BY <1>1, FreedIsUnused DEF MayFree
<1>3. /\ \A w \in Var : w # v => (Reaches(w) \cup slices[w]) \cap blocks[a] = {}
      /\ \A g \in Proc : frame[g].reads \cap blocks[a] = {}
  BY <1>1, FreedIsUnused
<1>4. /\ ref \in [Var -> CObjects] /\ ref' \in [Var -> CObjects]
      /\ ref'[v] = NoRef /\ ~ref'[v].set
      /\ \A w \in Var : w # v => ref'[w] = ref[w]
  <2>1. NoRef \in CObjects
    BY DEF NoRef, CObjects
  <2> QED BY <1>1, <2>1 DEF IInv, Typed, NoRef
<1>5. /\ blocks' \in [MapId -> SUBSET Block] /\ blocks'[a] = {}
      /\ \A b \in MapId : b # a => blocks'[b] = blocks[b]
      /\ \A b \in MapId : blocks'[b] \subseteq blocks[b]
  BY <1>1, <1>2 DEF IInv, TypeOK
<1>6. \A w \in Var : w # v => Reaches(w)' = Reaches(w) /\ allocs[w] # a
  <2>1. \A w \in Var : w # v => Reaches(w)' = Reaches(w)
    BY <1>4 DEF Reaches
  <2>2. \A w \in Var : w # v => allocs[w] # a
    BY <1>2, Addresses DEF IInv, KeepsOwnMap
  <2> QED BY <2>1, <2>2
<1>7. Reaches(v)' = {}
  BY <1>4, Addresses DEF Reaches, NoRef
<1>8. Lost' = Lost /\ Lost \subseteq allocated /\ blocks[a] \cap Lost = {}
  BY <1>1, <1>2 DEF Lost, IInv, TypeOK, LostForEver
<1>9. TypeOK' /\ Typed'
  <2>1. Typed'
    BY <1>1, <1>4 DEF IInv, Typed
  <2>2. \A w \in Var : /\ ref'[w].home \in Block \cup {Null} /\ ref'[w].set \in BOOLEAN
                       /\ ref'[w].points \in [Var -> SUBSET Block]
    BY <1>4 DEF CObjects
  <2> QED BY <1>1, <1>5, <1>8, <2>1, <2>2 DEF IInv, TypeOK
<1>10. KeepsOwnMap'
  BY <1>1, <1>2, <1>4, <1>5, <1>6, Addresses DEF IInv, KeepsOwnMap
<1>11. ListsOwnMemory'
  <2>1. \A w \in Var : \A b \in MapsOf(w) : b \in MapId
    BY Addresses
  <2>2. \A b \in UnpackedMaps : b \in MapId
    BY Addresses
  <2>3. \A b \in StringPlace : b \in MapId
    BY Addresses
  <2> QED BY <1>5, <2>1, <2>2, <2>3 DEF IInv, ListsOwnMemory
<1>12. PointsBelow' /\ SlicesAreCached'
  BY <1>1, <1>2, <1>4 DEF IInv, PointsBelow, SlicesAreCached, NoRef
<1>13. OthersReachNothing'
  <2> SUFFICES ASSUME NEW u \in Var, NEW w \in Below[u], allocs'[u] # NoMap, w # u,
                      ~(IsReadBack(w)' /\ w \in Parts(u))
               PROVE  Reaches(w)' \cap blocks'[allocs'[u]] = {}
    BY DEF OthersReachNothing
  <2>1. CASE w = v
    BY <1>7, <2>1
  <2>2. CASE w # v
    <3>1. w \in Var /\ (IsReadBack(w)' <=> IsReadBack(w)) /\ Reaches(w)' = Reaches(w)
      BY <1>1, <1>4, <1>6, <2>2, BelowIs DEF IsReadBack
    <3>2. allocs[u] \in MapId /\ blocks'[allocs'[u]] \subseteq blocks[allocs[u]] /\ allocs[u] # NoMap
      BY <1>1, <1>5, Addresses DEF IInv, KeepsOwnMap
    <3> QED BY <3>1, <3>2 DEF IInv, OthersReachNothing
  <2> QED BY <2>1, <2>2
<1>14. NoDanglingRead' /\ ReadsArguments'
  BY <1>1, <1>3 DEF IInv, NoDanglingRead, ReadsArguments
<1>15. ReachedIsAlive'
  BY <1>1, <1>2, <1>3, <1>6, <1>7 DEF IInv, ReachedIsAlive
<1>16. LostForEver'
  BY <1>1, <1>5, <1>8, Addresses DEF IInv, LostForEver, KeepsOwnMap
<1>17. ListsApart'
  <2>1. \A b \in MapId : b # a => blocks[a] \cap blocks[b] = {}
    BY <1>2 DEF IInv, ListsApart
  <2> QED BY <1>1, <1>5, <2>1 DEF IInv, ListsApart
<1>18. CanBeFreed'
  <2> SUFFICES ASSUME NEW p \in allocated' \ Lost'
               PROVE  \E b \in MapId : /\ p \in blocks'[b]
                                       /\ HasFinalizer(b) \/ \E w \in Var : ref'[w].set /\ allocs'[w] = b
    BY DEF CanBeFreed
  <2>1. p \in allocated \ Lost /\ p \notin blocks[a]
    BY <1>1, <1>8
  <2>2. PICK b \in MapId : /\ p \in blocks[b]
                           /\ HasFinalizer(b) \/ \E w \in Var : ref[w].set /\ allocs[w] = b
    BY <2>1 DEF IInv, CanBeFreed
  <2>3. b # a /\ p \in blocks'[b]
    BY <1>5, <2>1, <2>2
  <2>4. \A w \in Var : allocs[w] = b => w # v
    BY <2>3
  <2> QED BY <1>1, <1>4, <2>2, <2>3, <2>4
<1> QED BY <1>9, <1>10, <1>11, <1>12, <1>13, <1>14, <1>15, <1>16, <1>17, <1>18 DEF IInv
(* What Deref reads a part back into reaches what the variable reaches.     *)
LEMMA ReadBackIs ==
  ASSUME IInv, NEW v \in Var, ref[v].set, NEW w \in Parts(v)
  PROVE  /\ ReadBack(v, w) \in CObjects /\ ReadBack(v, w).set
         /\ \A x \in Var : \A p \in ReadBack(v, w).points[x] :
              p \in ref[v].points[x] /\ p[1] \in Below[x] /\ p[1] \in Below[w]
         /\ ReadBack(v, w).home \in {Null, ref[v].home}
         /\ ReadBack(v, w).home # Null =>
              /\ ReadBack(v, w).home \in Var \X {0} \X (1 .. Copies)
              /\ w \in Below[ReadBack(v, w).home[1]]
<1> DEFINE points == [x \in Var |-> IF x \in Below[w] THEN ref[v].points[x] ELSE {}]
           home == IF w \in Nested[v] THEN ref[v].home ELSE Null
<1>1. ref[v] \in CObjects
  BY DEF IInv, Typed
<1>2. points \in [Var -> SUBSET Block] /\ home \in Block \cup {Null}
  BY <1>1 DEF CObjects
<1>3. ReadBack(v, w) = [home |-> home, points |-> points, set |-> TRUE]
  BY DEF ReadBack, CObject
<1>4. w \in Var /\ w \in Below[v]
  BY WholeIsBelow
<1>5. ASSUME NEW x \in Var, NEW p \in points[x]
      PROVE  p \in ref[v].points[x] /\ p[1] \in Below[x] /\ p[1] \in Below[w]
  <2>1. x \in Below[w] /\ p \in ref[v].points[x]
    BY <1>5
  <2>2. p[1] \in Below[x]
    BY <2>1 DEF IInv, PointsBelow
  <2> QED BY <1>4, <2>1, <2>2, BelowIsForest
<1>6. ASSUME home # Null
      PROVE  home = ref[v].home /\ home \in Var \X {0} \X (1 .. Copies) /\ w \in Below[home[1]]
  <2>1. home = ref[v].home
    BY <1>6
  <2>2. home \in Var \X {0} \X (1 .. Copies) /\ v \in Below[home[1]]
    BY <1>6, <2>1 DEF IInv, PointsBelow
  <2>3. home[1] \in Var
    BY <2>2
  <2> QED BY <1>4, <2>1, <2>2, <2>3, BelowIsForest
<1> HIDE DEF points, home
<1>7. /\ ReadBack(v, w).home = home /\ ReadBack(v, w).points = points /\ ReadBack(v, w).set
      /\ ReadBack(v, w) \in CObjects
  BY <1>2, <1>3 DEF CObjects
<1> QED BY <1>5, <1>6, <1>7

(* Deref loses what the maps of the parts list, and nothing else.           *)
LEMMA DerefIInv ==
  ASSUME IInv, NEW v \in Var, Deref(v)
  PROVE  IInv'
<1> PICK F : F = Filled(v)
  OBVIOUS
<1>1. /\ ref[v].set
      /\ ref' = [w \in Var |-> IF w \in F THEN ReadBack(v, w) ELSE ref[w]]
      /\ allocs' = [w \in Var |-> IF w \in F THEN NoMap ELSE allocs[w]]
      /\ slices' = [w \in Var |-> CASE w = v /\ Type[v].bytes > 0 -> ref[v].points[v]
                                 [] w \in F -> {}
                                 [] OTHER -> slices[w]]
      /\ Loses("Deref", UNION {blocks[allocs[w]] : w \in {p \in F : allocs[p] # NoMap}})
      /\ UNCHANGED <<blocks, allocated, frame, held>>
  BY DEF Deref
<1>2. /\ F \subseteq Parts(v) /\ F \subseteq Var /\ v \notin F
      /\ F # {} => ~(IsReadBack(v) /\ \E u \in Var : v \in Parts(u))
  <2>1. F \subseteq Parts(v)
    BY DEF Filled, Parts
  <2>2. ASSUME F # {}, IsReadBack(v), NEW u \in Var, v \in Parts(u) PROVE FALSE
    BY <2>2, PartsNest DEF Filled
  <2> QED BY <2>1, <2>2, WholeIsBelow
<1>3. ref \in [Var -> CObjects] /\ ref' \in [Var -> CObjects]
  <2>1. \A w \in F : ReadBack(v, w) \in CObjects
    BY <1>1, <1>2, ReadBackIs
  <2> QED BY <1>1, <2>1 DEF IInv, Typed
<1>4. /\ \A w \in F : ref'[w] = ReadBack(v, w) /\ ref'[w].set /\ allocs'[w] = NoMap
      /\ \A w \in Var \ F : ref'[w] = ref[w] /\ allocs'[w] = allocs[w]
      /\ \A w \in Var : allocs'[w] # NoMap => w \notin F /\ allocs'[w] = allocs[w]
  <2>1. \A w \in F : ReadBack(v, w).set
    BY <1>1, <1>2, ReadBackIs
  <2> QED BY <1>1, <1>2, <2>1
<1>5. /\ \A w \in Var \ F : Reaches(w)' = Reaches(w)
      /\ \A w \in F : Reaches(w)' \subseteq Reaches(v)
  <2>1. \A w \in Var \ F : Reaches(w)' = Reaches(w)
    BY <1>4 DEF Reaches
  <2>2. ASSUME NEW w \in F, NEW p \in Reaches(w)' PROVE p \in Reaches(v)
    <3>1. p \in Block /\ (p = ReadBack(v, w).home \/ \E x \in Var : p \in ReadBack(v, w).points[x])
      BY <1>4, <2>2 DEF Reaches
    <3>2. p # Null
      BY <3>1, Addresses
    <3>3. p = ref[v].home \/ \E x \in Var : p \in ref[v].points[x]
      BY <1>1, <1>2, <3>1, <3>2, ReadBackIs
    <3> QED BY <3>1, <3>3 DEF Reaches
  <2> QED BY <2>1, <2>2
<1>6. /\ \A w \in Var : slices'[w] # {} => \/ w = v /\ slices'[w] = ref[v].points[v]
                                           \/ w \notin F /\ slices'[w] = slices[w]
      /\ slices' \in [Var -> SUBSET Block]
  <2>1. slices \in [Var -> SUBSET Block] /\ ref[v].points[v] \in SUBSET Block
    BY DEF IInv, TypeOK
  <2> QED BY <1>1, <2>1
<1>7. PICK L : /\ L = UNION {blocks[allocs[w]] : w \in {p \in F : allocs[p] # NoMap}}
               /\ lost' = [lost EXCEPT !["Deref"] = lost["Deref"] \cup L]
  BY <1>1 DEF Loses
<1>8. \A p : p \in L <=> \E w \in F : allocs[w] # NoMap /\ p \in blocks[allocs[w]]
  BY <1>7
<1>9. \A w \in Var : allocs[w] # NoMap => /\ allocs[w] \in MapsOf(w) /\ allocs[w] \in MapId
                                          /\ blocks[allocs[w]] \subseteq allocated
                                          /\ blocks[allocs[w]] \subseteq Block
                                          /\ blocks[allocs[w]] \cap StringPlace = {}
  <2> SUFFICES ASSUME NEW w \in Var, allocs[w] # NoMap
               PROVE  /\ allocs[w] \in MapsOf(w) /\ allocs[w] \in MapId
                      /\ blocks[allocs[w]] \subseteq allocated
                      /\ blocks[allocs[w]] \subseteq Block
                      /\ blocks[allocs[w]] \cap StringPlace = {}
    OBVIOUS
  <2>1. allocs[w] \in MapsOf(w) /\ allocs[w] \in MapId
    BY Addresses DEF IInv, KeepsOwnMap
  <2>2. \A p \in blocks[allocs[w]] : p[1] \in Var
    BY <2>1, BelowIs DEF IInv, ListsOwnMemory
  <2> QED BY <2>1, <2>2, Addresses DEF IInv, TypeOK, ListsApart
<1>10. /\ L \subseteq allocated /\ L \subseteq Block /\ L \cap StringPlace = {}
       /\ \A w \in Var \ F : allocs[w] # NoMap => blocks[allocs[w]] \cap L = {}
  <2>1. \A w \in Var \ F, u \in F : allocs[w] # NoMap /\ allocs[u] # NoMap
                                     => blocks[allocs[w]] \cap blocks[allocs[u]] = {}
    <3> SUFFICES ASSUME NEW w \in Var \ F, NEW u \in F, allocs[w] # NoMap, allocs[u] # NoMap
                 PROVE  blocks[allocs[w]] \cap blocks[allocs[u]] = {}
      OBVIOUS
    <3>1. allocs[w] # allocs[u]
      BY <1>2, <1>9, Addresses
    <3> QED BY <1>2, <1>9, <3>1 DEF IInv, ListsApart
  <2> QED BY <1>2, <1>8, <1>9, <2>1
<1>11. lost' \in [Causes -> SUBSET Block] /\ Lost' = Lost \cup L
  <2>1. lost \in [Causes -> SUBSET Block]
    BY DEF IInv, Typed
  <2> QED BY <1>7, <1>10, <2>1 DEF Lost, Causes
<1>12. Typed' /\ TypeOK'
  <2>1. \A w \in Var : ~ref'[w].set => ref'[w] = NoRef
    BY <1>4 DEF IInv, Typed
  <2>2. Typed'
    BY <1>1, <1>3, <1>11, <2>1 DEF IInv, Typed
  <2>3. \A w \in Var : /\ ref'[w].home \in Block \cup {Null} /\ ref'[w].set \in BOOLEAN
                       /\ ref'[w].points \in [Var -> SUBSET Block]
    BY <1>3 DEF CObjects
  <2>4. allocs' \in [Var -> MapId \cup {NoMap}] /\ Lost' \subseteq allocated'
    BY <1>1, <1>10, <1>11 DEF IInv, TypeOK
  <2> QED BY <1>1, <1>6, <2>2, <2>3, <2>4 DEF IInv, TypeOK
<1>13. KeepsOwnMap' /\ ListsOwnMemory'
  BY <1>1, <1>4 DEF IInv, KeepsOwnMap, ListsOwnMemory
<1>14. PointsBelow'
  <2> SUFFICES ASSUME NEW w \in Var
               PROVE  /\ \A x \in Var : \A p \in ref'[w].points[x] : p[1] \in Below[x] /\ p[1] \in Below[w]
                      /\ ref'[w].home # Null => /\ ref'[w].home \in Var \X {0} \X (1 .. Copies)
                                                /\ w \in Below[ref'[w].home[1]]
    BY DEF PointsBelow
  <2>1. CASE w \in F
    <3>1. ref'[w] = ReadBack(v, w)
      BY <1>4, <2>1
    <3> QED BY <1>1, <1>2, <2>1, <3>1, ReadBackIs
  <2>2. CASE w \notin F
    BY <1>4, <2>2 DEF IInv, PointsBelow
  <2> QED BY <2>1, <2>2
<1>15. OthersReachNothing'
  <2> SUFFICES ASSUME NEW u \in Var, NEW w \in Below[u], allocs'[u] # NoMap, w # u,
                      ~(IsReadBack(w)' /\ w \in Parts(u))
               PROVE  Reaches(w)' \cap blocks'[allocs'[u]] = {}
    BY DEF OthersReachNothing
  <2>1. w \in Var /\ allocs'[u] = allocs[u] /\ allocs[u] # NoMap /\ blocks' = blocks
    BY <1>1, <1>4, BelowIs
  <2>2. CASE w \in F
    <3>1. IsReadBack(w)' /\ w \in Parts(v)
      BY <1>2, <1>4, <2>2 DEF IsReadBack
    <3>2. u # v /\ v \in Below[u]
      BY <3>1, WholeIsBelow
    <3>3. Reaches(v) \cap blocks[allocs[u]] = {}
      BY <1>2, <2>1, <2>2, <3>2 DEF IInv, OthersReachNothing
    <3> QED BY <1>5, <2>1, <2>2, <3>3
  <2>3. CASE w \notin F
    <3>1. IsReadBack(w)' <=> IsReadBack(w)
      BY <1>4, <2>1, <2>3 DEF IsReadBack
    <3> QED BY <1>5, <2>1, <2>3, <3>1 DEF IInv, OthersReachNothing
  <2> QED BY <2>2, <2>3
<1>16. SlicesAreCached'
  BY <1>1, <1>2, <1>4, <1>6 DEF IInv, SlicesAreCached
<1>17. NoDanglingRead' /\ ReadsArguments' /\ ListsApart'
  BY <1>1 DEF IInv, NoDanglingRead, ReadsArguments, ListsApart
<1>18. ReachedIsAlive'
  <2>1. ref[v].points[v] \subseteq allocated
    BY DEF IInv, ReachedIsAlive, Reaches, TypeOK
  <2> QED BY <1>1, <1>5, <1>6, <2>1 DEF IInv, ReachedIsAlive
<1>19. LostForEver'
  BY <1>1, <1>4, <1>10, <1>11 DEF IInv, LostForEver
<1>20. CanBeFreed'
  <2> SUFFICES ASSUME NEW p \in allocated' \ Lost'
               PROVE  \E b \in MapId : /\ p \in blocks'[b]
                                       /\ HasFinalizer(b) \/ \E w \in Var : ref'[w].set /\ allocs'[w] = b
    BY DEF CanBeFreed
  <2>1. p \in allocated \ Lost /\ p \notin L
    BY <1>1, <1>11
  <2>2. PICK b \in MapId : /\ p \in blocks[b]
                           /\ HasFinalizer(b) \/ \E w \in Var : ref[w].set /\ allocs[w] = b
    BY <2>1 DEF IInv, CanBeFreed
  <2>3. \A w \in Var : allocs[w] = b => w \notin F
    BY <1>8, <2>1, <2>2, Addresses
  <2> QED BY <1>1, <1>4, <2>2, <2>3
<1> QED BY <1>12, <1>13, <1>14, <1>15, <1>16, <1>17, <1>18, <1>19, <1>20 DEF IInv
(* Assigning a new Go value only forgets pointers into somebody else's C    *)
(* object.                                                                  *)
LEMMA AssignIInv ==
  ASSUME IInv, NEW v \in Var, Assign(v)
  PROVE  IInv'
<1>1. UNCHANGED <<allocs, blocks, allocated, frame, lost, held>>
  BY DEF Assign
<1>2. /\ ref' \in [Var -> CObjects]
      /\ \A w \in Var : \/ ref'[w] = ref[w]
                        \/ ref'[w] = NoRef /\ w = v /\ allocs[w] = NoMap
      /\ \A w \in Var : ref'[w].set => ref'[w] = ref[w]
  <2>1. NoRef \in CObjects /\ ~NoRef.set
    BY DEF NoRef, CObjects
  <2>2. CASE IsReadBack(v)
    BY <2>1, <2>2 DEF Assign, IsReadBack, IInv, Typed
  <2>3. CASE ~IsReadBack(v)
    BY <2>3 DEF Assign, IInv, Typed
  <2> QED BY <2>2, <2>3
<1>3. /\ slices' \in [Var -> SUBSET Block] /\ slices'[v] = {}
      /\ \A w \in Var : w # v => ref'[w] = ref[w] /\ slices'[w] = slices[w]
  BY <1>2 DEF Assign, IInv, TypeOK
<1>4. \A w \in Var : /\ ref'[w] = ref[w] => Reaches(w)' = Reaches(w)
                     /\ ref'[w] = NoRef => Reaches(w)' = {}
  <2>1. \A w \in Var : ref'[w] = ref[w] => Reaches(w)' = Reaches(w)
    BY DEF Reaches
  <2>2. \A w \in Var : ref'[w] = NoRef => Reaches(w)' = {}
    BY Addresses DEF Reaches, NoRef
  <2> QED BY <2>1, <2>2
<1>5. Lost' = Lost
  BY <1>1 DEF Lost
<1>6. Typed' /\ TypeOK'
  <2>1. Typed'
    BY <1>1, <1>2 DEF IInv, Typed
  <2>2. \A w \in Var : /\ ref'[w].home \in Block \cup {Null} /\ ref'[w].set \in BOOLEAN
                       /\ ref'[w].points \in [Var -> SUBSET Block]
    BY <1>2 DEF CObjects
  <2> QED BY <1>1, <1>3, <1>5, <2>1, <2>2 DEF IInv, TypeOK
<1>7. KeepsOwnMap' /\ ListsOwnMemory' /\ NoDanglingRead' /\ ReadsArguments' /\ ListsApart' /\ LostForEver'
  <2>1. KeepsOwnMap'
    BY <1>1, <1>2 DEF IInv, KeepsOwnMap
  <2> QED BY <1>1, <1>5, <2>1 DEF IInv, ListsOwnMemory, NoDanglingRead, ReadsArguments, ListsApart, LostForEver
<1>8. PointsBelow'
  BY <1>2 DEF IInv, PointsBelow, NoRef
<1>9. SlicesAreCached'
  BY <1>2, <1>3 DEF IInv, SlicesAreCached
<1>10. ReachedIsAlive'
  BY <1>1, <1>2, <1>3, <1>4 DEF IInv, ReachedIsAlive
<1>11. OthersReachNothing'
  <2> SUFFICES ASSUME NEW u \in Var, NEW w \in Below[u], allocs'[u] # NoMap, w # u,
                      ~(IsReadBack(w)' /\ w \in Parts(u))
               PROVE  Reaches(w)' \cap blocks'[allocs'[u]] = {}
    BY DEF OthersReachNothing
  <2>1. w \in Var
    BY BelowIs
  <2>2. CASE ref'[w] = NoRef
    BY <1>4, <2>1, <2>2
  <2>3. CASE ref'[w] = ref[w]
    <3>1. IsReadBack(w)' <=> IsReadBack(w)
      BY <1>1, <2>3 DEF IsReadBack
    <3> QED BY <1>1, <1>4, <2>1, <2>3, <3>1 DEF IInv, OthersReachNothing
  <2> QED BY <1>2, <2>1, <2>2, <2>3
<1>12. CanBeFreed'
  <2> SUFFICES ASSUME NEW p \in allocated \ Lost
               PROVE  \E b \in MapId : /\ p \in blocks[b]
                                       /\ HasFinalizer(b) \/ \E w \in Var : ref'[w].set /\ allocs[w] = b
    BY <1>1, <1>5 DEF CanBeFreed
  <2>1. PICK b \in MapId : /\ p \in blocks[b]
                           /\ HasFinalizer(b) \/ \E w \in Var : ref[w].set /\ allocs[w] = b
    BY DEF IInv, CanBeFreed
  <2>2. \A w \in Var : allocs[w] = b => ref'[w] = ref[w]
    BY <1>2, Addresses
  <2> QED BY <2>1, <2>2
<1> QED BY <1>6, <1>7, <1>8, <1>9, <1>10, <1>11, <1>12 DEF IInv

(* A frame that is left refers to nothing.                                  *)
LEMMA ReturnIInv ==
  ASSUME IInv, NEW g \in Proc, Return(g)
  PROVE  IInv'
<1>1. /\ frame' = [frame EXCEPT ![g] = NoCall]
      /\ UNCHANGED <<ref, allocs, slices, blocks, allocated, lost, held>>
  BY DEF Return
<1>2. frame' \in [Proc -> [reads : SUBSET Block, keeps : SUBSET MapId, args : SUBSET Var]]
      /\ \A h \in Proc : frame'[h] = frame[h] \/ frame'[h] = NoCall
  <2>1. NoCall \in [reads : SUBSET Block, keeps : SUBSET MapId, args : SUBSET Var]
    BY DEF NoCall
  <2> HIDE DEF NoCall
  <2> QED BY <1>1, <2>1 DEF IInv, TypeOK
<1>3. Lost' = Lost /\ (\A w \in Var : Reaches(w)' = Reaches(w) /\ (IsReadBack(w)' <=> IsReadBack(w)))
  BY <1>1 DEF Lost, Reaches, IsReadBack
<1>4. TypeOK' /\ Typed'
  BY <1>1, <1>2, <1>3 DEF IInv, TypeOK, Typed
<1>5. NoDanglingRead' /\ ReadsArguments'
  BY <1>1, <1>2 DEF IInv, NoDanglingRead, ReadsArguments, NoCall
<1>6. OthersReachNothing' /\ ReachedIsAlive'
  BY <1>1, <1>3, BelowIs DEF IInv, OthersReachNothing, ReachedIsAlive
<1>7. KeepsOwnMap' /\ ListsOwnMemory' /\ PointsBelow' /\ SlicesAreCached'
  BY <1>1 DEF IInv, KeepsOwnMap, ListsOwnMemory, PointsBelow, SlicesAreCached
<1>8. LostForEver' /\ ListsApart' /\ CanBeFreed'
  BY <1>1, <1>3 DEF IInv, LostForEver, ListsApart, CanBeFreed
<1> QED BY <1>4, <1>5, <1>6, <1>7, <1>8 DEF IInv

(* A collection frees strings that no call keeps, or forgets what was lost. *)
LEMMA CollectIInv ==
  ASSUME IInv, NEW a \in NonEmpty, Collect(a)
  PROVE  IInv'
<1>1. /\ ~Reachable(a)
      /\ allocated' = IF HasFinalizer(a) THEN allocated \ blocks[a] ELSE allocated
      /\ blocks' = [blocks EXCEPT ![a] = {}]
      /\ UNCHANGED <<ref, allocs, slices, frame, lost, held>>
  BY DEF Collect
<1>2. a \in MapId /\ blocks[a] # {} /\ \A w \in Var : allocs[w] # a
  BY <1>1 DEF NonEmpty, Reachable
<1>3. /\ blocks' \in [MapId -> SUBSET Block] /\ blocks'[a] = {}
      /\ \A b \in MapId : b # a => blocks'[b] = blocks[b]
      /\ \A b \in MapId : blocks'[b] \subseteq blocks[b]
  BY <1>1, <1>2 DEF IInv, TypeOK
<1>4. Lost' = Lost /\ (\A w \in Var : Reaches(w)' = Reaches(w) /\ (IsReadBack(w)' <=> IsReadBack(w)))
  BY <1>1 DEF Lost, Reaches, IsReadBack
<1>5. \/ HasFinalizer(a) /\ a \in StringPlace /\ blocks[a] = {a} /\ allocated' = allocated \ {a}
      \/ ~HasFinalizer(a) /\ allocated' = allocated
  <2>1. CASE HasFinalizer(a)
    <3>1. a \notin UnpackedMaps
      BY <1>2 DEF IInv, ListsOwnMemory
    <3>2. a \in StringPlace
      BY <1>2, <2>1, <3>1, Addresses
    <3> QED BY <1>1, <1>2, <2>1, <3>2 DEF IInv, ListsOwnMemory
  <2>2. CASE ~HasFinalizer(a)
    BY <1>1, <2>2
  <2> QED BY <2>1, <2>2
<1>6. \A g \in Proc : frame[g].reads \subseteq allocated'
  <2> SUFFICES ASSUME NEW g \in Proc, NEW p \in frame[g].reads PROVE p \in allocated'
    OBVIOUS
  <2>1. p \in allocated
    BY DEF IInv, NoDanglingRead
  <2>2. ASSUME p = a, a \in StringPlace PROVE FALSE
    <3>1. a \notin frame[g].keeps
      BY <1>1 DEF Reachable
    <3>2. PICK x \in frame[g].args : p[1] \in Below[x]
      BY <2>2, <3>1 DEF IInv, ReadsArguments
    <3>3. x \in Var
      BY DEF IInv, TypeOK
    <3> QED BY <2>2, <3>2, <3>3, BelowIs, Addresses
  <2> QED BY <1>5, <2>1, <2>2
<1>7. ReachedIsAlive'
  <2>1. \A w \in Var : \A p \in Reaches(w) \cup slices[w] : p \notin StringPlace
    BY ReachesIs, Addresses
  <2>2. \A w \in Var : Reaches(w) \cup slices[w] \subseteq allocated'
    BY <1>5, <2>1 DEF IInv, ReachedIsAlive
  <2> QED BY <1>1, <1>4, <2>2 DEF ReachedIsAlive
<1>8. Lost' \subseteq allocated' /\ allocated' \subseteq Block
  BY <1>4, <1>5 DEF IInv, TypeOK, LostForEver
<1>9. TypeOK' /\ Typed'
  BY <1>1, <1>3, <1>8 DEF IInv, TypeOK, Typed
<1>10. NoDanglingRead' /\ ReadsArguments'
  BY <1>1, <1>6 DEF IInv, NoDanglingRead, ReadsArguments
<1>11. \A w \in Var : allocs[w] # NoMap => allocs[w] \in MapId /\ blocks'[allocs'[w]] = blocks[allocs[w]]
  BY <1>1, <1>2, <1>3, Addresses DEF IInv, KeepsOwnMap
<1>12. KeepsOwnMap' /\ LostForEver'
  BY <1>1, <1>4, <1>11 DEF IInv, KeepsOwnMap, LostForEver
<1>13. OthersReachNothing'
  BY <1>1, <1>4, <1>11, BelowIs DEF IInv, OthersReachNothing
<1>14. ListsOwnMemory'
  <2>1. \A w \in Var : \A b \in MapsOf(w) : b \in MapId
    BY Addresses
  <2>2. \A b \in UnpackedMaps : b \in MapId
    BY Addresses
  <2>3. \A b \in StringPlace : b \in MapId
    BY Addresses
  <2> QED BY <1>3, <2>1, <2>2, <2>3 DEF IInv, ListsOwnMemory
<1>15. PointsBelow' /\ SlicesAreCached'
  BY <1>1 DEF IInv, PointsBelow, SlicesAreCached
<1>16. ListsApart'
  <2>1. \A b \in MapId : b # a => blocks[a] \cap blocks[b] = {}
    BY <1>2 DEF IInv, ListsApart
  <2> QED BY <1>2, <1>3, <1>5, <2>1 DEF IInv, ListsApart
<1>17. CanBeFreed'
  <2> SUFFICES ASSUME NEW p \in allocated' \ Lost'
               PROVE  \E b \in MapId : /\ p \in blocks'[b]
                                       /\ HasFinalizer(b) \/ \E w \in Var : ref'[w].set /\ allocs'[w] = b
    BY DEF CanBeFreed
  <2>1. p \in allocated \ Lost
    BY <1>4, <1>5
  <2>2. PICK b \in MapId : /\ p \in blocks[b]
                           /\ HasFinalizer(b) \/ \E w \in Var : ref[w].set /\ allocs[w] = b
    BY <2>1 DEF IInv, CanBeFreed
  <2>3. b # a
    BY <1>2, <1>5, <2>2
  <2> QED BY <1>1, <1>3, <2>2, <2>3
<1> QED BY <1>7, <1>9, <1>10, <1>12, <1>13, <1>14, <1>15, <1>16, <1>17 DEF IInv

-----------------------------------------------------------------------------
(* The invariant holds initially. *)
LEMMA InitIInv == Init => IInv
<1> SUFFICES ASSUME Init PROVE IInv
  OBVIOUS
<1>1. /\ ref = [v \in Var |-> NoRef] /\ allocs = [v \in Var |-> NoMap] /\ slices = [v \in Var |-> {}]
      /\ blocks = [a \in MapId |-> {}] /\ allocated = {} /\ frame = [g \in Proc |-> NoCall]
      /\ lost = [cause \in Causes |-> {}] /\ held \in Holdings
  BY DEF Init, Causes
<1>2. NoRef \in CObjects /\ ~NoRef.set /\ NoRef.home = Null /\ \A x \in Var : NoRef.points[x] = {}
  BY DEF NoRef, CObjects
<1>3. \A w \in Var : Reaches(w) = {}
  BY <1>1, <1>2, Addresses DEF Reaches
<1>4. Lost = {}
  BY <1>1 DEF Lost, Causes
<1>5. Typed /\ TypeOK
  <2>1. held \subseteq Var
    BY <1>1, HoldingsAssumption
  <2>2. NoCall \in [reads : SUBSET Block, keeps : SUBSET MapId, args : SUBSET Var]
    BY DEF NoCall
  <2>3. \A v \in Var : /\ ref[v].home \in Block \cup {Null} /\ ref[v].set \in BOOLEAN
                       /\ ref[v].points \in [Var -> SUBSET Block]
    BY <1>1, <1>2 DEF CObjects
  <2> HIDE DEF NoCall
  <2> QED BY <1>1, <1>2, <1>4, <2>1, <2>2, <2>3 DEF Typed, TypeOK
<1>6. \A a \in MapId : blocks[a] = {}
  BY <1>1
<1>7. KeepsOwnMap /\ ListsOwnMemory
  BY <1>1, <1>6, Addresses DEF KeepsOwnMap, ListsOwnMemory
<1>8. PointsBelow /\ SlicesAreCached
  BY <1>1, <1>2 DEF PointsBelow, SlicesAreCached
<1>9. OthersReachNothing /\ ReachedIsAlive
  BY <1>1, <1>3, BelowIs DEF OthersReachNothing, ReachedIsAlive
<1>10. ReadsArguments /\ NoDanglingRead
  BY <1>1 DEF ReadsArguments, NoDanglingRead, NoCall
<1>11. LostForEver /\ ListsApart /\ CanBeFreed
  BY <1>1, <1>4, <1>6 DEF LostForEver, ListsApart, CanBeFreed
<1> QED BY <1>5, <1>7, <1>8, <1>9, <1>10, <1>11 DEF IInv

(* Every step of a caller, of a call and of the garbage collector preserves it. *)
LEMMA NextIInv == IInv /\ [Next]_vars => IInv'
<1> SUFFICES ASSUME IInv, [Next]_vars PROVE IInv'
  OBVIOUS
<1>0. held \subseteq Var
  BY DEF IInv, Typed
<1>1. ASSUME NEW v \in held, PassRef(v) PROVE IInv'
  BY <1>0, <1>1, PassRefAllocates, AllocatesIInv
<1>2. ASSUME NEW v \in held, Free(v) PROVE IInv'
  BY <1>0, <1>2, FreeIInv
<1>3. ASSUME NEW v \in held, Deref(v) PROVE IInv'
  BY <1>0, <1>3, DerefIInv
<1>4. ASSUME NEW v \in held, Assign(v) PROVE IInv'
  BY <1>0, <1>4, AssignIInv
<1>5. ASSUME NEW g \in Proc, NEW c \in Wrappers, NEW v \in held, CallByValue(g, c, v) PROVE IInv'
  BY <1>0, <1>5, CallByValueAllocates, AllocatesIInv
<1>6. ASSUME NEW g \in Proc, NEW c \in Wrappers, NEW v \in held, CallByPointer(g, c, v) PROVE IInv'
  BY <1>0, <1>6, CallByPointerAllocates, AllocatesIInv
<1>7. ASSUME NEW g \in Proc, NEW c \in Wrappers, CallWithStrings(g, c) PROVE IInv'
  BY <1>7, CallWithStringsAllocates, AllocatesIInv
<1>8. ASSUME NEW g \in Proc, Return(g) PROVE IInv'
  BY <1>8, ReturnIInv
<1>9. ASSUME NEW a \in NonEmpty, Collect(a) PROVE IInv'
  BY <1>9, CollectIInv
<1>10. CASE UNCHANGED vars
  <2>1. UNCHANGED <<ref, allocs, slices, blocks, allocated, frame, lost, held>>
    BY <1>10 DEF vars
  <2>2. Lost' = Lost /\ (\A w \in Var : Reaches(w)' = Reaches(w) /\ (IsReadBack(w)' <=> IsReadBack(w)))
    BY <2>1 DEF Lost, Reaches, IsReadBack
  <2>3. /\ TypeOK' /\ Typed' /\ KeepsOwnMap' /\ ListsOwnMemory' /\ PointsBelow' /\ SlicesAreCached'
    BY <2>1, <2>2 DEF IInv, TypeOK, Typed, KeepsOwnMap, ListsOwnMemory, PointsBelow, SlicesAreCached
  <2>4. OthersReachNothing' /\ ReachedIsAlive'
    BY <2>1, <2>2, BelowIs DEF IInv, OthersReachNothing, ReachedIsAlive
  <2>5. ReadsArguments' /\ LostForEver' /\ NoDanglingRead' /\ ListsApart' /\ CanBeFreed'
    BY <2>1, <2>2 DEF IInv, ReadsArguments, LostForEver, NoDanglingRead, ListsApart, CanBeFreed
  <2> QED BY <2>3, <2>4, <2>5 DEF IInv
<1> QED BY <1>1, <1>2, <1>3, <1>4, <1>5, <1>6, <1>7, <1>8, <1>9, <1>10 DEF Next

(* The invariant holds in every state of every behaviour.                   *)
LEMMA Inductive == Spec => []IInv
BY InitIInv, NextIInv, PTL DEF Spec

-----------------------------------------------------------------------------
(* The C objects, maps and frames keep their types, and only allocated      *)
(* memory is ever counted as lost.                                          *)
THEOREM TypeCorrect == Spec => []TypeOK
<1>1. IInv => TypeOK
  BY DEF IInv
<1> QED BY Inductive, <1>1, PTL

(* Whatever other goroutines, Free and the finalizers do while a native     *)
(* function runs, it reads only memory that is allocated.                   *)
THEOREM NativeNeverReadsFreed == Spec => []NoDanglingRead
<1>1. IInv => NoDanglingRead
  BY DEF IInv
<1> QED BY Inductive, <1>1, PTL

(* Everything that a cached C object or a byte slice points to is alive     *)
(* after any sequence of operations on a variable, its parts and its whole. *)
THEOREM CachesStayAlive == Spec => []CachedIsAlive
<1>1. IInv => CachedIsAlive
  <2> SUFFICES ASSUME IInv, NEW v \in Var
               PROVE  /\ ref[v].home \in allocated \cup {Null}
                      /\ slices[v] \cup UNION Range(ref[v].points) \subseteq allocated
    BY DEF CachedIsAlive
  <2>1. ref[v].home \in Block \cup {Null} /\ ref[v].points \in [Var -> SUBSET Block]
    BY DEF IInv, TypeOK
  <2>2. Reaches(v) \subseteq allocated /\ slices[v] \subseteq allocated
    BY DEF IInv, ReachedIsAlive
  <2>3. ref[v].home \in allocated \cup {Null}
    BY <2>1, <2>2 DEF Reaches
  <2>4. \A x \in Var : ref[v].points[x] \subseteq allocated
    BY <2>1, <2>2 DEF Reaches
  <2>5. UNION Range(ref[v].points) \subseteq allocated
    BY <2>1, <2>4 DEF Range
  <2> QED BY <2>2, <2>3, <2>5
<1> QED BY Inductive, <1>1, PTL

(* No two maps list one block and none lists a freed one: nothing is freed  *)
(* twice.                                                                   *)
THEOREM NothingIsListedTwice == Spec => []ListedOnce
<1>1. IInv => ListedOnce
  BY DEF IInv, ListsApart, ListedOnce, NonEmpty
<1> QED BY Inductive, <1>1, PTL

(* All memory but what PassValue and Deref lose can still be freed.         *)
THEOREM NothingElseIsLost == Spec => []Reclaimable
<1>1. IInv => Reclaimable
  BY DEF IInv, CanBeFreed, Reclaimable, IsReclaimable, NonEmpty
<1> QED BY Inductive, <1>1, PTL
=============================================================================
