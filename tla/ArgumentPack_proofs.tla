-------------------------- MODULE ArgumentPack_proofs --------------------------
(***************************************************************************)
(* Proofs about ArgumentPack for any number of addresses and any length of *)
(* an argument.                                                            *)
(***************************************************************************)
EXTENDS ArgumentPack, FiniteSetTheorems, TLAPS

-----------------------------------------------------------------------------
(* The inductive invariant. *)

Entries == [own : SUBSET Block, strings : SUBSET Block]

(* What is allocated is the array, what was packed by now, and what failed  *)
(* pairs have lost; and these do not overlap.                              *)
Held ==
  /\ heap = dropped \cup Packing \cup ({array} \ {Null})
  /\ dropped \cap Packing = {}
  /\ array \notin dropped \cup Packing

(* Each entry packed so far could be copied, and only a value, which is     *)
(* borrowed, has no block.                                                 *)
Copied ==
  \A i \in DOMAIN packed :
    ~Bad(args.items[i]) /\ (NullEntry(packed[i]) <=> kind = "values")

(* How far the loop is in each phase. *)
Phases ==
  /\ at \notin {"packing", "native", "called"} => array = Null /\ packed = << >>
  /\ at = "packing" => /\ array \in Block
                      /\ Len(args.items) = args.len /\ Len(packed) <= args.len
  /\ at = "native" => Len(packed) = args.len
  /\ at = "refused" => ctxErr = hasCtx

IInv == TypeOK /\ Held /\ Copied /\ Phases

-----------------------------------------------------------------------------
(* A finite set with n elements or more has a subset with n. *)
LEMMA SubsetOfSize ==
  ASSUME NEW S, IsFiniteSet(S), NEW n \in Nat, n <= Cardinality(S)
  PROVE  \E T \in SUBSET S : Cardinality(T) = n
<1> DEFINE m == Cardinality(S)
<1>1. m \in Nat /\ \E f : f \in Bijection(1 .. m, S)
  BY FS_CardinalityType DEF ExistsBijection
<1>2. PICK f : f \in Bijection(1 .. m, S)
  BY <1>1
<1> DEFINE T == {f[i] : i \in 1 .. n}
           g == [i \in 1 .. n |-> f[i]]
<1>3. 1 .. n \subseteq 1 .. m
  BY <1>1
<1>4. T \in SUBSET S
  BY <1>2, <1>3 DEF Bijection, Injection
<1>5. g \in Bijection(1 .. n, T)
  BY <1>2, <1>3 DEF Bijection, Injection, Surjection, IsInjective
<1>6. Cardinality(T) = n
  BY <1>5, FS_CountingElements DEF ExistsBijection
<1> QED BY <1>4, <1>6

(* What the allocator hands out is free, and is as much as was asked for:   *)
(* something, if that is not nothing.                                      *)
LEMMA FreshIs ==
  ASSUME NEW h \in SUBSET Block, NEW n \in Nat, NEW bs \in Fresh(h, n)
  PROVE  /\ bs \in SUBSET (Block \ h) /\ (bs = {} <=> n = 0)
         /\ n = 1 => \E x : bs = {x}
<1>1. IsFiniteSet(Block \ h) /\ Cardinality(Block \ h) \in Nat
  BY FiniteAssumption, FS_Subset, FS_CardinalityType
<1>2. n <= Cardinality(Block \ h) /\ bs = CHOOSE T \in SUBSET (Block \ h) : Cardinality(T) = n
  BY <1>1 DEF Fresh
<1>3. \E T \in SUBSET (Block \ h) : Cardinality(T) = n
  BY <1>1, <1>2, SubsetOfSize
<1>4. bs \in SUBSET (Block \ h) /\ Cardinality(bs) = n
  BY <1>2, <1>3
<1>5. IsFiniteSet(bs)
  BY <1>1, <1>4, FS_Subset
<1>6. bs = {} <=> n = 0
  BY <1>4, <1>5, FS_EmptySet
<1>7. n = 1 => \E x : bs = {x}
  BY <1>4, <1>5, FS_Singleton
<1> QED BY <1>4, <1>6, <1>7

(* How many blocks an entry takes: none for a value, some for the others.   *)
LEMMA BlockCounts ==
  ASSUME NEW item, kind \in Kind
  PROVE  /\ Pairs \in Nat /\ StringBlocks(item) \in Nat
         /\ kind = "values" => Pairs = 0 /\ StringBlocks(item) = 0
         /\ kind # "values" => StringBlocks(item) # 0
<1>1. Pairs \in Nat /\ (kind = "values" => Pairs = 0)
  BY DEF Pairs, Kind
<1>2. CASE kind = "values"
  BY <1>1, <1>2 DEF StringBlocks
<1>3. CASE kind # "values"
  <2>1. IsFiniteSet({"value"}) /\ IsFiniteSet({"key", "value"})
    <3>1. IsFiniteSet({"value"}) /\ IsFiniteSet({"key"} \cup {"value"})
      BY FS_Singleton, FS_AddElement
    <3>2. {"key", "value"} = {"key"} \cup {"value"}
      OBVIOUS
    <3> QED BY <3>1, <3>2
  <2>2. IsFiniteSet(Parts) /\ Parts # {}
    BY <2>1 DEF Parts, PartsOf
  <2>3. Cardinality(Parts) \in Nat /\ Cardinality(Parts) # 0
    BY <2>2, FS_EmptySet, FS_CardinalityType
  <2> QED BY <1>1, <1>3, <2>3 DEF StringBlocks
<1> QED BY <1>2, <1>3

(* One entry more adds its blocks to what is packed. *)
LEMMA OneMore ==
  ASSUME NEW e \in Entries, packed \in Seq(Entries), packed' = Append(packed, e)
  PROVE  /\ packed' \in Seq(Entries) /\ Len(packed') = Len(packed) + 1
         /\ DOMAIN packed' = DOMAIN packed \cup {Len(packed) + 1}
         /\ \A i \in DOMAIN packed : packed'[i] = packed[i]
         /\ packed'[Len(packed) + 1] = e
         /\ Packing' = Packing \cup BlocksOf(e)
<1>1. /\ packed' \in Seq(Entries) /\ Len(packed') = Len(packed) + 1
      /\ DOMAIN packed' = DOMAIN packed \cup {Len(packed) + 1}
      /\ \A i \in DOMAIN packed : packed'[i] = packed[i]
      /\ packed'[Len(packed) + 1] = e
  OBVIOUS
<1>2. Packing' = Packing \cup BlocksOf(e)
  BY <1>1 DEF Packing
<1> QED BY <1>1, <1>2

(* The pairs are some of the blocks that are packed. *)
LEMMA PairsArePacked == PairsAlone \subseteq Packing
BY DEF PairsAlone, Packing, BlocksOf

(* Nothing is packed in an empty array. *)
LEMMA NothingPacked ==
  ASSUME packed = << >>
  PROVE  Packing = {} /\ DOMAIN packed = {}
BY DEF Packing

(* The argument is an array with its length, or no array. *)
LEMMA ArgumentsAre ==
  ASSUME NEW k \in Kind, NEW a \in Args(k)
  PROVE  a.len \in Nat /\ (a.items # NoItems => Len(a.items) = a.len)
BY LenAssumption DEF Args, NoItems

-----------------------------------------------------------------------------
(* The invariant holds initially. *)
LEMMA InitIInv == Init => IInv
<1> SUFFICES ASSUME Init PROVE IInv
  OBVIOUS
<1>1. ctxErr \in BOOLEAN /\ hasCtx \in BOOLEAN
  BY Zenon DEF Init
<1>2. args \in Args(kind) /\ kind \in Kind
  <2>1. << >> \in [1 .. 0 -> Items("params")] /\ 0 \in 0 .. MaxLen["params"] /\ Len(<< >>) = 0
    BY LenAssumption DEF Kind
  <2> QED BY <2>1 DEF Init, Args, NoItems, Kind
<1>3. TypeOK
  BY <1>1, <1>2 DEF Init, TypeOK
<1>4. Held /\ Copied
  BY NothingPacked DEF Init, Held, Copied
<1> QED BY <1>3, <1>4 DEF Init, IInv, Phases

(* Giving up keeps what earlier calls have lost, and what this one loses.   *)
LEMMA RefuseIInv ==
  ASSUME IInv, NEW kept, Refuse(kept), kept = dropped', kept \in SUBSET Block
  PROVE  IInv'
<1>1. TypeOK'
  BY DEF IInv, TypeOK, Refuse
<1>2. packed' = << >> /\ array' = Null /\ heap' = dropped'
  BY DEF Refuse
<1>3. Packing' = {} /\ DOMAIN packed' = {}
  BY <1>2 DEF Packing
<1>4. Held' /\ Copied'
  BY <1>1, <1>2, <1>3, NullAssumption DEF Held, Copied, TypeOK
<1>5. Phases'
  BY <1>2 DEF Phases, Refuse
<1> QED BY <1>1, <1>4, <1>5 DEF IInv

(* A step that touches no memory changes nothing that was packed. *)
LEMMA SamePacking ==
  ASSUME IInv, UNCHANGED <<kind, args, array, packed, heap, dropped>>
  PROVE  Held' /\ Copied'
<1>1. Packing' = Packing
  BY DEF Packing
<1>2. \A item : Bad(item)' <=> Bad(item)
  BY DEF Bad, Parts
<1> QED BY <1>1, <1>2 DEF IInv, Held, Copied, NullEntry

(* An array of values holds no memory but its own. *)
LEMMA ValuesAreBorrowed ==
  ASSUME IInv, kind = "values"
  PROVE  Packing = {}
BY DEF IInv, Copied, NullEntry, Packing

(* Before the loop, only what earlier calls have lost is allocated. *)
LEMMA NothingHeld ==
  ASSUME IInv, array = Null, packed = << >>
  PROVE  heap = dropped
BY NothingPacked DEF IInv, Held

(* Every step of a call preserves the invariant. *)
LEMMA NextIInv == IInv /\ [Next]_vars => IInv'
<1> SUFFICES ASSUME IInv, [Next]_vars PROVE IInv'
  OBVIOUS
<1> USE DEF IInv
<1>0. Null \notin heap /\ heap \in SUBSET Block /\ dropped \subseteq heap
  BY NullAssumption DEF TypeOK
<1>1. ASSUME NEW k \in Kind, NEW ctx \in BOOLEAN, NEW a \in Args(k), Begin(k, a, ctx)
      PROVE  IInv'
  <2>1. ctxErr' \in BOOLEAN /\ hasCtx' \in BOOLEAN
    BY <1>1, Zenon DEF Begin
  <2>2. TypeOK'
    BY <1>1, <2>1 DEF Begin, TypeOK
  <2>3. packed' = << >> /\ packed = << >> /\ array' = Null
    BY <1>1 DEF Begin, Phases
  <2>4. Packing' = {} /\ Packing = {} /\ DOMAIN packed' = {}
    BY <2>3 DEF Packing
  <2>5. Held' /\ Copied'
    BY <1>1, <2>3, <2>4 DEF Begin, Held, Copied
  <2> QED BY <1>1, <2>2, <2>3, <2>5 DEF Begin, Phases
<1>2. CASE PackNothing
  <2>1. packed = << >> /\ array = Null
    BY <1>2 DEF PackNothing, Phases
  <2>2. Held' /\ Copied'
    BY <1>2, SamePacking DEF PackNothing
  <2> QED BY <1>2, <2>1, <2>2 DEF PackNothing, TypeOK, Phases
<1>3. CASE RefuseNoItems
  BY <1>0, <1>3, RefuseIInv, NothingHeld DEF RefuseNoItems, Phases
<1>4. CASE AllocateArray
  <2>1. CASE Refuse(heap) /\ UNCHANGED dropped
    BY <1>0, <1>4, <2>1, RefuseIInv, NothingHeld DEF AllocateArray, Phases
  <2>2. CASE ~(Refuse(heap) /\ UNCHANGED dropped)
    <3>1. PICK bs \in Fresh(heap, 1) : heap' = heap \cup bs /\ array' \in bs
      BY <1>4, <2>2 DEF AllocateArray
    <3>2. /\ at' = "packing" /\ array = Null /\ packed = << >> /\ args.items # NoItems
          /\ UNCHANGED <<kind, args, packed, hasCtx, ctxErr, dropped>>
      BY <1>4, <2>2 DEF AllocateArray, Phases
    <3>3. bs \in SUBSET (Block \ heap) /\ \E x : bs = {x}
      BY <1>0, <3>1, FreshIs
    <3>4. array' \in Block \ heap /\ bs = {array'}
      BY <3>1, <3>3
    <3>5. Packing' = {} /\ Packing = {} /\ DOMAIN packed' = {}
      BY <3>2 DEF Packing
    <3>6. heap = dropped
      BY <3>2, NothingHeld
    <3>7. heap' = dropped' \cup {array'} /\ array' # Null /\ array' \notin dropped'
      BY <3>1, <3>2, <3>4, <3>6, NullAssumption
    <3>8. Held' /\ Copied'
      BY <3>5, <3>7 DEF Held, Copied
    <3>9. TypeOK'
      BY <3>1, <3>2, <3>3, <3>4 DEF TypeOK
    <3>10. Phases'
      BY <3>2, <3>4, ArgumentsAre DEF Phases, TypeOK
    <3> QED BY <3>8, <3>9, <3>10
  <2> QED BY <2>1, <2>2
<1>5. CASE PackItem
  <2>1. kind \in Kind /\ packed \in Seq(Entries)
    BY DEF TypeOK, Entries
  <2>2. PICK pair \in Fresh(heap, Pairs) :
        \E strings \in Fresh(heap \cup pair, StringBlocks(Current)) :
          /\ heap' = heap \cup pair \cup strings
          /\ packed' = Append(packed, Entry(pair, strings))
    BY <1>5 DEF PackItem
  <2>3. pair \in SUBSET (Block \ heap) /\ (pair = {} <=> Pairs = 0)
    BY <1>0, <2>1, <2>2, FreshIs, BlockCounts
  <2>4. PICK strings \in Fresh(heap \cup pair, StringBlocks(Current)) :
          /\ heap' = heap \cup pair \cup strings
          /\ packed' = Append(packed, Entry(pair, strings))
    BY <2>2
  <2>5. /\ strings \in SUBSET (Block \ (heap \cup pair))
        /\ strings = {} <=> StringBlocks(Current) = 0
    <3>1. heap \cup pair \in SUBSET Block /\ StringBlocks(Current) \in Nat
      BY <1>0, <2>1, <2>3, BlockCounts
    <3> QED BY <3>1, FreshIs
  <2>6. /\ Entry(pair, strings) \in Entries
        /\ BlocksOf(Entry(pair, strings)) = pair \cup strings
    BY <2>3, <2>5 DEF Entry, Entries, BlocksOf
  <2>7. /\ at = "packing" /\ Len(packed) < args.len /\ ~Bad(Current)
        /\ UNCHANGED <<kind, at, args, array, hasCtx, ctxErr, dropped>>
    BY <1>5 DEF PackItem, Unpacked
  <2>8. /\ packed' \in Seq(Entries) /\ Len(packed') = Len(packed) + 1
        /\ DOMAIN packed' = DOMAIN packed \cup {Len(packed) + 1}
        /\ \A i \in DOMAIN packed : packed'[i] = packed[i]
        /\ packed'[Len(packed) + 1] = Entry(pair, strings)
        /\ Packing' = Packing \cup pair \cup strings
    BY <2>1, <2>4, <2>6, OneMore
  <2>9. TypeOK'
    BY <2>3, <2>4, <2>5, <2>7, <2>8 DEF TypeOK, Entries
  <2>10. Held'
    <3>1. /\ heap = dropped \cup Packing \cup ({array} \ {Null})
          /\ dropped \cap Packing = {} /\ array \notin dropped \cup Packing
          /\ array \in heap
      BY <2>7, NullAssumption DEF Held, Phases
    <3>2. (pair \cup strings) \cap heap = {} /\ heap' = heap \cup (pair \cup strings)
      BY <2>3, <2>4, <2>5
    <3>3. Packing' = Packing \cup (pair \cup strings) /\ UNCHANGED <<dropped, array>>
      BY <2>7, <2>8
    <3>4. heap' = dropped' \cup Packing' \cup ({array'} \ {Null})
      BY <3>1, <3>2, <3>3
    <3>5. dropped' \cap Packing' = {} /\ array' \notin dropped' \cup Packing'
      BY <3>1, <3>2, <3>3
    <3> QED BY <3>4, <3>5 DEF Held
  <2>11. Copied'
    <3>1. NullEntry(Entry(pair, strings)) <=> kind = "values"
      BY <2>1, <2>3, <2>5, <2>6, BlockCounts DEF NullEntry
    <3>2. ~Bad(args.items[Len(packed) + 1])
      BY <2>7 DEF Current
    <3>3. \A item : Bad(item)' <=> Bad(item)
      BY <2>7 DEF Bad, Parts
    <3> QED BY <2>7, <2>8, <3>1, <3>2, <3>3 DEF Copied, NullEntry
  <2>12. Phases'
    BY <2>1, <2>7, <2>8, ArgumentsAre DEF Phases, TypeOK
  <2> QED BY <2>9, <2>10, <2>11, <2>12
<1>6. CASE PairFails
  <2>1. heap \ (PairsAlone \cup {array}) = dropped \cup (Packing \ PairsAlone)
    BY PairsArePacked DEF Held
  <2> QED BY <1>0, <1>6, <2>1, RefuseIInv DEF PairFails
<1>7. CASE CopyFails
  <2>1. heap \ (Packing \cup {array}) = dropped
    BY DEF Held
  <2> QED BY <1>0, <1>7, <2>1, RefuseIInv DEF CopyFails
<1>8. CASE RefuseNullValue
  <2>1. kind = "values" /\ at = "packing"
    BY <1>8 DEF RefuseNullValue, Unpacked
  <2>2. heap \ {array} = dropped
    BY <2>1, ValuesAreBorrowed DEF Held
  <2> QED BY <1>0, <1>8, <2>2, RefuseIInv DEF RefuseNullValue
<1>9. CASE Terminate
  BY <1>9, SamePacking DEF Terminate, TypeOK, Phases
<1>10. CASE NativeCall
  <2>1. ctxErr' \in BOOLEAN
    BY <1>10, Zenon DEF NativeCall, TypeOK
  <2>2. TypeOK' /\ Phases'
    BY <1>10, <2>1 DEF NativeCall, TypeOK, Phases
  <2> QED BY <1>10, <2>2, SamePacking DEF NativeCall
<1>11. CASE FreePacked
  <2>1. Freed = Packing
    <3>1. CASE kind = "values"
      <4>1. \A i \in DOMAIN packed : BlocksOf(packed[i]) = {}
        BY <3>1 DEF Copied, NullEntry
      <4> QED BY <4>1 DEF Packing, Freed, Walked
    <3>2. CASE kind # "values"
      <4>1. \A i \in DOMAIN packed : \A j \in 1 .. i : j \in DOMAIN packed
        BY DEF TypeOK
      <4>2. Walked = DOMAIN packed
        BY <3>2, <4>1 DEF Walked, Copied
      <4> QED BY <4>2 DEF Packing, Freed
    <3> QED BY <3>1, <3>2
  <2>2. heap' = dropped /\ dropped' = dropped /\ packed' = << >> /\ array' = Null
    <3>1. heap' = heap \ (Packing \cup {array})
      BY <1>11, <2>1 DEF FreePacked
    <3>2. heap \ (Packing \cup {array}) = dropped
      BY DEF Held
    <3> QED BY <1>11, <3>1, <3>2 DEF FreePacked
  <2>3. Packing' = {} /\ DOMAIN packed' = {}
    BY <2>2 DEF Packing
  <2>4. TypeOK'
    BY <1>0, <1>11, <2>2 DEF FreePacked, TypeOK
  <2>5. Held' /\ Copied'
    BY <1>0, <2>2, <2>3 DEF Held, Copied
  <2> QED BY <1>11, <2>2, <2>4, <2>5 DEF FreePacked, Phases
<1>12. CASE Continue
  BY <1>12, SamePacking DEF Continue, TypeOK, Phases
<1>13. CASE UNCHANGED vars
  BY <1>13, SamePacking DEF vars, TypeOK, Phases
<1> QED
  BY <1>1, <1>2, <1>3, <1>4, <1>5, <1>6, <1>7, <1>8, <1>9, <1>10, <1>11, <1>12, <1>13 DEF Next

(* The invariant holds in every state of every behaviour. *)
LEMMA Inductive == Spec => []IInv
BY InitIInv, NextIInv, PTL DEF Spec

-----------------------------------------------------------------------------
(* The array, its entries and the context keep their types. *)
THEOREM TypeCorrect == Spec => []TypeOK
<1>1. IInv => TypeOK
  BY DEF IInv
<1> QED BY Inductive, <1>1, PTL

(* Nix is called with everything Go passed, or the caller has an error.     *)
THEOREM NothingIsCutShort == Spec => []AllOrReported
<1>1. IInv => AllOrReported
  BY ArgumentsAre DEF IInv, AllOrReported, Phases, Copied, TypeOK
<1> QED BY Inductive, <1>1, PTL

(* A call gives back all its memory but the strings a failed pair loses.    *)
THEOREM OthersGiveBack == Spec => []OnlyPairsLeak
<1>1. IInv => OnlyPairsLeak
  BY NothingHeld DEF IInv, OnlyPairsLeak, Phases
<1> QED BY Inductive, <1>1, PTL
=============================================================================
