------------------------- MODULE ResultCollector_proofs -------------------------
(***************************************************************************)
(* Proofs about ResultCollector for every allocator, word size and number  *)
(* of delivered elements.                                                  *)
(***************************************************************************)
EXTENDS ResultCollector, TLAPS

-----------------------------------------------------------------------------
(* The inductive invariant.  Sound(r, h) says that the struct r is well      *)
(* formed and that the allocated addresses h are exactly its own and the     *)
(* caller's; Progress ties the stored elements to the deliveries.            *)

Sized(r) ==
  /\ Len(r.items) <= r.cap
  /\ r.size = r.cap * ItemSize
  /\ r.size <= MaxAlloc

Exclusive(r) ==
  /\ clones \cap BlocksOf(r) = {}
  /\ \A i, j \in DOMAIN r.items : i # j => r.items[i].copies \cap r.items[j].copies = {}
  /\ \A i \in DOMAIN r.items : {r.self, r.array} \cap r.items[i].copies = {}
  /\ r.self = r.array => r.self = Null

Sound(r, h) ==
  /\ r \in ResultsType
  /\ Sized(r)
  /\ Exclusive(r)
  /\ h = (BlocksOf(r) \ {Null}) \cup clones

Progress ==
  /\ phase \in {"none", "null"} => results = NoResults
  /\ phase \in {"collecting", "handle"} =>
       /\ results.self \in Block
       /\ \A i \in DOMAIN results.items : results.items[i].elem = i
  /\ phase \in {"collecting", "handle"} /\ ~results.failed =>
       /\ Len(results.items) = delivered
       /\ ~ctxErr
  /\ phase = "handle" => ~results.failed
  /\ phase = "null" => ctxErr = hasCtx

IInv == TypeOK /\ Sound(results, heap) /\ Progress

-----------------------------------------------------------------------------
(* malloc gives an address that was not allocated. *)
LEMMA MallocFresh ==
  ASSUME NEW h, NEW b \in Malloc(h)
  PROVE  b \in Block \ h /\ b # Null
BY NullAssumption DEF Malloc

(* The copies of an element are addresses that were not allocated. *)
LEMMA CopiesFresh ==
  ASSUME NEW h, NEW c \in Copies(h)
  PROVE  c \subseteq Block \ h /\ Null \notin c
<1>1. CASE kind = "realise"
  <2>1. PICK name \in Malloc(h) : \E path \in Malloc(h \cup {name}) : c = {name, path}
    BY <1>1 DEF Copies
  <2>3. PICK path \in Malloc(h \cup {name}) : c = {name, path}
    BY <2>1
  <2>2. name \in Block \ h /\ path \in Block \ (h \cup {name})
    BY MallocFresh
  <2> QED BY <2>3, <2>2, NullAssumption
<1>2. CASE kind # "realise"
  <2>1. PICK path \in Malloc(h) : c = {path}
    BY <1>2 DEF Copies
  <2> QED BY <2>1, MallocFresh, NullAssumption
<1> QED BY <1>1, <1>2

(* Likewise what was copied before a copy failed. *)
LEMMA PartialFresh ==
  ASSUME NEW h, NEW c \in PartialCopies(h)
  PROVE  c \subseteq Block \ h
<1>1. CASE c = {} BY <1>1
<1>2. CASE c # {}
  <2>1. PICK copy \in Malloc(h) : c = {copy}
    BY <1>2 DEF PartialCopies
  <2> QED BY <2>1, MallocFresh
<1> QED BY <1>1, <1>2

(* A remainder that changes nothing. *)
LEMMA SmallModulo ==
  ASSUME NEW m \in Nat, NEW x \in Nat, x < m
  PROVE  x % m = x
OBVIOUS

(* size_t never wraps around while the array grows: the new capacity and    *)
(* its size in words are what they are without the modulus.                 *)
LEMMA GrowthDoesNotWrap ==
  ASSUME results \in ResultsType, Sized(results)
  PROVE  /\ NewCap \in Nat /\ NewCap > results.cap
         /\ Bytes(NewCap) = NewCap * ItemSize
<1> USE AllocatorAssumption
<1>1. results.cap \in Nat /\ ItemSize \in {1, 2} /\ FirstCap \in {4, 8}
      /\ FirstCap * ItemSize = 8
  BY DEF ResultsType, ItemSize, FirstCap
<1>2. results.cap * ItemSize <= MaxAlloc
  BY DEF Sized
<1>3. CASE results.cap = 0
  <2>1. NewCap = FirstCap BY <1>3 DEF NewCap
  <2>2. (FirstCap * ItemSize) % SizeModulus = FirstCap * ItemSize
    BY <1>1, SmallModulo
  <2> QED BY <1>1, <1>3, <2>1, <2>2 DEF Bytes
<1>4. CASE results.cap # 0
  <2>1. results.cap * 2 < SizeModulus
    BY <1>1, <1>2
  <2>2. NewCap = results.cap * 2
    BY <1>1, <1>4, <2>1, SmallModulo DEF NewCap
  <2>3. (results.cap * 2) * ItemSize < SizeModulus
    BY <1>1, <1>2
  <2>4. (results.cap * 2) * ItemSize \in Nat
    BY <1>1
  <2>5. Bytes(NewCap) = NewCap * ItemSize
    BY <2>2, <2>3, <2>4, SmallModulo DEF Bytes
  <2> QED BY <1>1, <1>4, <2>2, <2>5
<1> QED BY <1>3, <1>4

(* Making room keeps the struct sound, leaves its elements alone and gives  *)
(* an unused slot.                                                          *)
LEMMA RoomIsSound ==
  ASSUME Sound(results, heap), clones \subseteq Block, results.self \in Block,
         NEW room \in WithRoom
  PROVE  /\ Sound(room.r, room.h)
         /\ Len(room.r.items) < room.r.cap
         /\ room.r.items = results.items
         /\ room.r.self = results.self
         /\ room.r.failed = results.failed
<1> USE DEF Sound
<1>1. CASE ~MustGrow
  <2>1. room.r = results /\ room.h = heap
    BY <1>1 DEF WithRoom
  <2>2. Len(results.items) # results.cap
    BY <1>1 DEF MustGrow
  <2>3. Len(results.items) \in Nat /\ results.cap \in Nat
    BY DEF ResultsType
  <2> QED BY <2>1, <2>2, <2>3 DEF Sized
<1>2. CASE MustGrow
  <2>1. room \in Grown
    BY <1>2 DEF WithRoom
  <2> DEFINE Moved(b) ==
               [r |-> [results EXCEPT !.array = b, !.size = Bytes(NewCap), !.cap = NewCap],
                h |-> Free(heap, {results.array}) \cup {b}]
  <2>2. Bytes(NewCap) <= MaxAlloc /\ \E b \in Malloc(heap) : room = Moved(b)
    <3>1. Grown # {} BY <2>1
    <3>2. ~(NewCap < results.cap \/ Bytes(NewCap) > MaxAlloc)
      BY <3>1 DEF Grown
    <3>3. Bytes(NewCap) \in Nat
      BY GrowthDoesNotWrap DEF ItemSize
    <3>4. Grown = {Moved(b) : b \in Malloc(heap)}
      BY <3>2 DEF Grown
    <3> HIDE DEF Moved
    <3>5. \E b \in Malloc(heap) : room = Moved(b)
      BY <2>1, <3>4
    <3>6. Bytes(NewCap) <= MaxAlloc
      BY <3>2, <3>3, AllocatorAssumption
    <3> QED BY <3>5, <3>6
  <2>3. PICK b \in Malloc(heap) : room = Moved(b)
    BY <2>2
  <2>4. b \in Block \ heap /\ b # Null
    BY MallocFresh
  <2>5. /\ room.r.array = b /\ room.r.cap = NewCap /\ room.r.size = Bytes(NewCap)
        /\ room.r.items = results.items /\ room.r.self = results.self
        /\ room.r.failed = results.failed
        /\ room.r \in ResultsType
    <3>1. Bytes(NewCap) \in Nat /\ NewCap \in Nat
      BY GrowthDoesNotWrap DEF ItemSize
    <3> QED BY <2>3, <2>4, <3>1 DEF ResultsType
  <2>6. Sized(room.r) /\ Len(room.r.items) < room.r.cap
    <3>1. Len(results.items) = results.cap /\ results.cap \in Nat
      BY <1>2 DEF MustGrow, ResultsType
    <3> QED BY <2>2, <2>5, <3>1, GrowthDoesNotWrap DEF Sized
  <2>7. BlocksOf(room.r) = {results.self, b} \cup CopiesOf(results)
    BY <2>5 DEF BlocksOf, CopiesOf
  <2>8. b \notin BlocksOf(results) /\ b \notin clones
    BY <2>4
  <2>9. Exclusive(room.r)
    BY <2>5, <2>7, <2>8 DEF Exclusive, BlocksOf, CopiesOf
  <2>10. room.h = (BlocksOf(room.r) \ {Null}) \cup clones
    <3>1. room.h = (heap \ {results.array}) \cup {b}
      BY <2>3 DEF Free
    <3>2. results.array \notin clones /\ results.array \notin CopiesOf(results)
          /\ results.array # results.self
      BY NullAssumption DEF Exclusive, BlocksOf, CopiesOf
    <3> QED BY <2>4, <2>7, <3>1, <3>2, NullAssumption DEF BlocksOf
  <2> QED BY <2>5, <2>6, <2>9, <2>10
<1> QED BY <1>1, <1>2

(* The struct with one more element in its first unused slot. *)
Filled(r, elem, copies) ==
  [r EXCEPT !.items = Append(@, [elem |-> elem, copies |-> copies])]

(* Filling the unused slot with fresh copies keeps the struct sound. *)
LEMMA AppendIsSound ==
  ASSUME NEW r, NEW h, Sound(r, h), Len(r.items) < r.cap,
         NEW elem \in Nat, NEW copies \in Copies(h)
  PROVE  Sound(Filled(r, elem, copies), h \cup copies)
<1> USE DEF Sound
<1> DEFINE item == [elem |-> elem, copies |-> copies]
           n == Len(r.items)
           s == Filled(r, elem, copies)
<1>1. copies \subseteq Block \ h /\ Null \notin copies
  BY CopiesFresh
<1>2. item \in Item
  BY <1>1 DEF Item
<1>3. r.items \in Seq(Item) /\ n \in Nat
  BY DEF ResultsType
<1> HIDE DEF item
<1>a. s = [r EXCEPT !.items = Append(@, item)]
  BY DEF item, Filled
<1>b. Append(r.items, item) \in Seq(Item)
  BY <1>2, <1>3
<1>4. /\ s.items = Append(r.items, item) /\ s.self = r.self /\ s.array = r.array
      /\ s.cap = r.cap /\ s.size = r.size
      /\ s \in ResultsType
  BY <1>a, <1>b DEF ResultsType
<1> HIDE DEF s
<1>5. /\ DOMAIN s.items = 1 .. n + 1
      /\ DOMAIN r.items = 1 .. n
      /\ \A i \in 1 .. n : s.items[i] = r.items[i]
      /\ s.items[n + 1] = item
      /\ Len(s.items) = n + 1
  BY <1>2, <1>3, <1>4
<1>6. item.copies = copies
  BY DEF item
<1>7. Sized(s)
  BY <1>3, <1>4, <1>5 DEF Sized, ResultsType
<1>8. CopiesOf(s) = CopiesOf(r) \cup copies
  <2> HIDE DEF Sound
  <2>1. DOMAIN s.items = DOMAIN r.items \cup {n + 1}
    BY <1>3, <1>5
  <2>2. \A i \in DOMAIN r.items : s.items[i].copies = r.items[i].copies
    BY <1>5
  <2>3. s.items[n + 1].copies = copies
    BY <1>5, <1>6
  <2>4. ASSUME NEW b \in CopiesOf(s) PROVE b \in CopiesOf(r) \cup copies
    <3>1. PICK i \in DOMAIN s.items : b \in s.items[i].copies
      BY <2>4 DEF CopiesOf
    <3> QED BY <2>1, <2>2, <2>3, <3>1 DEF CopiesOf
  <2>5. CopiesOf(r) \subseteq CopiesOf(s)
    BY <2>1, <2>2 DEF CopiesOf
  <2>6. copies \subseteq CopiesOf(s)
    BY <2>1, <2>3 DEF CopiesOf
  <2> QED BY <2>4, <2>5, <2>6
<1>9. BlocksOf(s) = BlocksOf(r) \cup copies
  BY <1>4, <1>8 DEF BlocksOf
<1>10. copies \cap BlocksOf(r) = {} /\ copies \cap clones = {}
  BY <1>1
<1>11. Exclusive(s)
  <2>1. clones \cap BlocksOf(s) = {}
    BY <1>9, <1>10 DEF Exclusive
  <2>2. \A i \in 1 .. n : copies \cap r.items[i].copies = {}
    BY <1>5, <1>10 DEF BlocksOf, CopiesOf
  <2>3. ASSUME NEW i \in DOMAIN s.items, NEW j \in DOMAIN s.items, i # j
        PROVE  s.items[i].copies \cap s.items[j].copies = {}
    <3>1. CASE i = n + 1
      <4>1. j \in 1 .. n BY <1>3, <1>5, <2>3, <3>1
      <4> QED BY <1>5, <1>6, <2>2, <3>1, <4>1
    <3>2. CASE j = n + 1
      <4>1. i \in 1 .. n BY <1>3, <1>5, <2>3, <3>2
      <4> QED BY <1>5, <1>6, <2>2, <3>2, <4>1
    <3>3. CASE i # n + 1 /\ j # n + 1
      <4>1. i \in 1 .. n /\ j \in 1 .. n BY <1>3, <1>5, <3>3
      <4> QED BY <1>5, <2>3, <4>1 DEF Exclusive
    <3> QED BY <3>1, <3>2, <3>3
  <2>4. ASSUME NEW i \in DOMAIN s.items
        PROVE  {s.self, s.array} \cap s.items[i].copies = {}
    <3>1. CASE i = n + 1
      BY <1>4, <1>5, <1>6, <1>10, <3>1 DEF BlocksOf
    <3>2. CASE i # n + 1
      <4>1. i \in 1 .. n BY <1>3, <1>5, <3>2
      <4> QED BY <1>4, <1>5, <4>1 DEF Exclusive
    <3> QED BY <3>1, <3>2
  <2> QED BY <1>4, <2>1, <2>3, <2>4 DEF Exclusive
<1>12. h \cup copies = (BlocksOf(s) \ {Null}) \cup clones
  BY <1>1, <1>9
<1> QED BY <1>4, <1>7, <1>11, <1>12 DEF s

(* The latch does not touch memory. *)
LEMMA LatchIsSound ==
  ASSUME NEW r, NEW h, Sound(r, h), NEW s, s = [r EXCEPT !.failed = TRUE]
  PROVE  /\ Sound(s, h) /\ s.failed
         /\ s.self = r.self /\ s.items = r.items
<1>1. /\ s \in ResultsType /\ s.failed /\ s.self = r.self /\ s.items = r.items
      /\ s.array = r.array /\ s.cap = r.cap /\ s.size = r.size
  BY DEF Sound, ResultsType
<1> QED BY <1>1 DEF Sound, Sized, Exclusive, BlocksOf, CopiesOf

(* Freeing a handle leaves exactly the caller's copies. *)
LEMMA FreeLeavesClones ==
  ASSUME NEW r, NEW h, Sound(r, h)
  PROVE  Free(h, BlocksOf(r)) = clones
BY DEF Sound, Exclusive, Free

(* Nothing outside the address space is allocated. *)
LEMMA SoundHeap ==
  ASSUME NEW r, NEW h, Sound(r, h), clones \subseteq Block
  PROVE  h \subseteq Block
<1>1. \A i \in DOMAIN r.items : r.items[i] \in Item
  BY DEF Sound, ResultsType
<1>2. CopiesOf(r) \subseteq Block
  BY <1>1 DEF CopiesOf, Item
<1>3. BlocksOf(r) \subseteq Block \cup {Null}
  BY <1>2 DEF Sound, ResultsType, BlocksOf
<1> QED BY <1>3 DEF Sound

(* A struct that owns nothing is sound over the caller's copies alone. *)
LEMMA NoResultsIsSound ==
  ASSUME clones \subseteq Block
  PROVE  Sound(NoResults, clones)
<1>1. /\ NoResults.items = << >> /\ NoResults.self = Null /\ NoResults.array = Null
      /\ NoResults.cap = 0 /\ NoResults.size = 0 /\ NoResults \in ResultsType
  BY DEF NoResults, ResultsType
<1>2. BlocksOf(NoResults) = {Null}
  BY <1>1 DEF BlocksOf, CopiesOf
<1>3. Null \notin clones
  BY NullAssumption
<1>4. Sized(NoResults)
  BY <1>1, AllocatorAssumption DEF Sized, ItemSize
<1> QED BY <1>1, <1>2, <1>3, <1>4 DEF Sound, Exclusive

-----------------------------------------------------------------------------
(* The invariant holds initially. *)
LEMMA InitIInv == Init => IInv
<1> SUFFICES ASSUME Init PROVE IInv
  OBVIOUS
<1>1. Sound(results, heap)
  BY NoResultsIsSound DEF Init
<1>2. TypeOK
  BY <1>1 DEF Init, TypeOK, Sound
<1>3. Progress
  BY DEF Init, Progress
<1> QED BY <1>1, <1>2, <1>3 DEF IInv

(* A call that returns NULL has freed everything it allocated. *)
LEMMA ReturnNullIInv == IInv /\ ReturnNull => IInv'
<1> SUFFICES ASSUME IInv, ReturnNull PROVE IInv'
  OBVIOUS
<1> USE DEF IInv, ReturnNull
<1>1. heap' = clones
  BY FreeLeavesClones
<1>2. Sound(NoResults, clones)
  BY NoResultsIsSound DEF TypeOK
<1>3. TypeOK'
  BY <1>1, <1>2 DEF TypeOK, Sound
<1>4. Sound(results, heap)'
  BY <1>1, <1>2 DEF Sound, Exclusive, Sized, ItemSize
<1>5. Progress'
  BY DEF Progress
<1> QED BY <1>3, <1>4, <1>5

(* Every step of the collector preserves the invariant. *)
LEMMA NextIInv == IInv /\ [Next]_vars => IInv'
<1> SUFFICES ASSUME IInv, [Next]_vars PROVE IInv'
  OBVIOUS
<1> USE DEF IInv
<1>0. /\ clones \subseteq Block /\ heap \subseteq Block /\ delivered \in Nat
      /\ results \in ResultsType
  BY DEF TypeOK, Sound
<1>1. ASSUME NEW k \in {"realise", "closure"}, NEW ctx \in BOOLEAN, Begin(k, ctx)
      PROVE  IInv'
  <2>1. PICK b \in Malloc(heap) : results' = [NoResults EXCEPT !.self = b]
                                  /\ heap' = heap \cup {b}
    BY <1>1 DEF Begin
  <2>2. b \in Block \ heap /\ b # Null
    BY MallocFresh
  <2>3. /\ results'.self = b /\ results'.array = Null /\ results'.items = << >>
        /\ results'.cap = 0 /\ results'.size = 0 /\ results'.failed = FALSE
        /\ results' \in ResultsType
    <3>1. NoResults \in ResultsType
      BY <1>0, NoResultsIsSound DEF Sound
    <3> QED BY <2>1, <2>2, <3>1 DEF NoResults, ResultsType
  <2>4. heap = clones
    <3>1. results = NoResults
      BY <1>1 DEF Begin, Progress
    <3>2. BlocksOf(results) = {Null}
      BY <3>1 DEF BlocksOf, CopiesOf, NoResults
    <3> QED BY <1>0, <3>2, NullAssumption DEF Sound
  <2>5. BlocksOf(results)' = {b, Null}
    BY <2>3 DEF BlocksOf, CopiesOf
  <2>6. Sized(results)'
    BY <2>3, AllocatorAssumption DEF Sized, ItemSize
  <2>7. Exclusive(results)'
    BY <1>0, <1>1, <2>2, <2>3, <2>4, <2>5, NullAssumption DEF Begin, Exclusive
  <2>8. Sound(results, heap)'
    BY <1>0, <1>1, <2>1, <2>2, <2>3, <2>4, <2>5, <2>6, <2>7, NullAssumption DEF Begin, Sound
  <2>9. TypeOK'
    BY <1>0, <1>1, <2>1, <2>2, <2>3 DEF Begin, TypeOK
  <2>10. Progress'
    BY <1>1, <2>2, <2>3 DEF Begin, Progress
  <2> QED BY <2>8, <2>9, <2>10
<1>2. ASSUME NEW k \in {"realise", "closure"}, NEW ctx \in BOOLEAN, BeginFails(k, ctx)
      PROVE  IInv'
  <2>1. results = NoResults /\ results' = NoResults /\ heap' = heap /\ clones' = clones
    BY <1>2 DEF BeginFails, Progress
  <2>2. heap = clones
    BY <2>1, NullAssumption DEF Sound, BlocksOf, CopiesOf, NoResults, TypeOK
  <2>3. Sized(results)'
    BY <2>1, AllocatorAssumption DEF Sized, NoResults, ItemSize
  <2>4. Sound(results, heap)'
    BY <1>0, <2>1, <2>3 DEF Sound, Exclusive
  <2>5. TypeOK' /\ Progress'
    BY <1>0, <1>2, <2>1 DEF BeginFails, TypeOK, Progress
  <2> QED BY <2>4, <2>5
<1>3. CASE AppendLatched
  BY <1>0, <1>3 DEF AppendLatched, Delivered, CallbackReturns, TypeOK, Progress, Sound, Exclusive, Sized, ItemSize
<1>4. CASE GrowFails
  <2>1. Sound(results', heap) /\ results'.failed
        /\ results'.self = results.self /\ results'.items = results.items
    BY <1>4, LatchIsSound DEF GrowFails
  <2>2. Sound(results, heap)'
    BY <1>4, <2>1 DEF GrowFails, Delivered, Sound, Exclusive, Sized, ItemSize
  <2>3. TypeOK'
    BY <1>0, <1>4, <2>1 DEF GrowFails, Delivered, CallbackReturns, TypeOK, Sound
  <2>4. Progress'
    BY <1>4, <2>1 DEF GrowFails, Delivered, Progress
  <2> QED BY <2>2, <2>3, <2>4
<1>5. CASE CopyFails
  <2>1. PICK room \in WithRoom : \E partial \in PartialCopies(room.h) :
               /\ results' = [room.r EXCEPT !.failed = TRUE]
               /\ heap' = Free(room.h \cup partial, partial)
    BY <1>5 DEF CopyFails
  <2>2. PICK partial \in PartialCopies(room.h) :
               /\ results' = [room.r EXCEPT !.failed = TRUE]
               /\ heap' = Free(room.h \cup partial, partial)
    BY <2>1
  <2>3. Sound(room.r, room.h) /\ room.r.items = results.items /\ room.r.self = results.self
    BY <1>0, <1>5, RoomIsSound DEF CopyFails, Delivered, Progress
  <2>4. heap' = room.h
    BY <2>2, PartialFresh DEF Free
  <2>5. Sound(results', heap') /\ results'.failed
        /\ results'.self = results.self /\ results'.items = results.items
    BY <2>2, <2>3, <2>4, LatchIsSound
  <2>6. Sound(results, heap)'
    BY <1>5, <2>5 DEF CopyFails, Delivered, Sound, Exclusive, Sized, ItemSize
  <2>7. heap' \subseteq Block
    BY <1>0, <2>5, SoundHeap
  <2>8. TypeOK'
    <3>1. /\ kind' = kind /\ phase' = phase /\ clones' = clones /\ hasCtx' = hasCtx
          /\ reply' = reply
          /\ delivered' = delivered + 1
          /\ ctxErr' \in BOOLEAN
      BY <1>5 DEF CopyFails, Delivered, CallbackReturns, TypeOK
    <3> QED BY <1>0, <2>5, <2>7, <3>1 DEF TypeOK, Sound
  <2>9. Progress'
    BY <1>5, <2>5 DEF CopyFails, Delivered, Progress
  <2> QED BY <2>6, <2>8, <2>9
<1>6. CASE Append1
  <2>1. PICK room \in WithRoom : \E copies \in Copies(room.h) :
               /\ results' = Filled(room.r, delivered + 1, copies)
               /\ heap' = room.h \cup copies
    BY <1>6 DEF Append1, Filled
  <2>2. PICK copies \in Copies(room.h) :
               /\ results' = Filled(room.r, delivered + 1, copies)
               /\ heap' = room.h \cup copies
    BY <2>1
  <2>3. /\ Sound(room.r, room.h) /\ room.r.items = results.items
        /\ room.r.self = results.self /\ room.r.failed = results.failed
        /\ Len(room.r.items) < room.r.cap
    BY <1>0, <1>6, RoomIsSound DEF Append1, Delivered, Progress
  <2>4. Sound(results', heap')
    <3>1. delivered + 1 \in Nat BY <1>0
    <3> QED BY <2>2, <2>3, <3>1, AppendIsSound
  <2> DEFINE item == [elem |-> delivered + 1, copies |-> copies]
  <2>5. /\ results'.self = results.self /\ results'.failed = results.failed
        /\ results'.items = Append(results.items, item)
    BY <2>2, <2>3 DEF Sound, ResultsType, Filled
  <2>6. Sound(results, heap)'
    BY <1>6, <2>4 DEF Append1, Delivered, Sound, Exclusive, Sized, ItemSize
  <2>7. heap' \subseteq Block
    BY <1>0, <2>4, SoundHeap
  <2>8. TypeOK'
    BY <1>0, <1>6, <2>4, <2>7 DEF Append1, Delivered, CallbackReturns, TypeOK, Sound
  <2>9. Progress'
    <3>1. /\ phase = "collecting" /\ phase' = phase /\ ~results.failed
          /\ delivered' = delivered + 1 /\ ctxErr' = ctxErr
      BY <1>6 DEF Append1, Delivered, CallbackReturns, TypeOK
    <3>2. Len(results.items) = delivered /\ ~ctxErr /\ results.self \in Block
          /\ \A i \in DOMAIN results.items : results.items[i].elem = i
      BY <3>1 DEF Progress
    <3>3. /\ item.elem = delivered + 1
          /\ results.items \in Seq(Item) /\ item \in Item
      BY <1>0, <2>2, CopiesFresh DEF ResultsType, Item
    <3> HIDE DEF item
    <3>4. /\ Len(results'.items) = delivered + 1
          /\ \A i \in DOMAIN results'.items : results'.items[i].elem = i
      BY <1>0, <2>5, <3>2, <3>3
    <3> QED BY <2>5, <3>1, <3>2, <3>4 DEF Progress
  <2> QED BY <2>6, <2>8, <2>9
<1>7. CASE NixFails
  BY <1>7, ReturnNullIInv DEF NixFails
<1>8. CASE NixSucceeds
  <2>1. CASE AppendFailed
    BY <1>8, <2>1, ReturnNullIInv DEF NixSucceeds
  <2>2. CASE ~AppendFailed
    BY <1>0, <1>8, <2>2 DEF NixSucceeds, AppendFailed, TypeOK, Progress, Sound, Exclusive, Sized, ItemSize
  <2> QED BY <2>1, <2>2
<1>9. ASSUME NEW index \in 0 .. MaxDelivered, Clone(index) PROVE IInv'
  <2>1. PICK b \in Malloc(heap) : heap' = heap \cup {b} /\ clones' = clones \cup {b}
    BY <1>9 DEF Clone
  <2>2. b \in Block \ heap /\ b # Null
    BY MallocFresh
  <2>3. results' = results /\ kind' = kind /\ phase' = phase /\ delivered' = delivered
        /\ hasCtx' = hasCtx /\ ctxErr' = ctxErr
    BY <1>9 DEF Clone
  <2>4. BlocksOf(results)' = BlocksOf(results)
    BY <2>3
  <2>5. Exclusive(results)'
    BY <2>1, <2>2, <2>3, <2>4 DEF Exclusive, Sound
  <2>6. Sound(results, heap)'
    BY <2>1, <2>2, <2>3, <2>4, <2>5 DEF Sound, Sized, ItemSize
  <2>7. reply' \in [index : Nat, elem : Nat] \cup {Null}
    <3>1. index \in Nat /\ index + 1 \in DOMAIN results.items
      BY <1>0, <1>9, BoundAssumption DEF Clone, InRange, ResultsType
    <3>2. results.items[index + 1] \in Item
      BY <1>0, <3>1 DEF ResultsType
    <3>3. results.items[index + 1].elem \in Nat
      BY <3>2 DEF Item
    <3> QED BY <1>9, <3>1, <3>3 DEF Clone
  <2>8. TypeOK'
    BY <2>1, <2>2, <2>3, <2>7 DEF TypeOK
  <2>9. Progress'
    BY <2>3 DEF Progress
  <2> QED BY <2>6, <2>8, <2>9
<1>10. CASE CloneFails
  BY <1>0, <1>10 DEF CloneFails, TypeOK, Progress, Sound, Exclusive, Sized, ItemSize
<1>11. ASSUME NEW b \in clones, FreeClone(b) PROVE IInv'
  <2>1. /\ results' = results /\ kind' = kind /\ phase' = phase /\ delivered' = delivered
        /\ hasCtx' = hasCtx /\ ctxErr' = ctxErr /\ reply' = reply
        /\ heap' = heap \ {b} /\ clones' = clones \ {b}
    BY <1>11 DEF FreeClone, Free
  <2>2. b \notin BlocksOf(results)
    BY DEF Sound, Exclusive
  <2>3. Exclusive(results)'
    BY <2>1 DEF Sound, Exclusive
  <2>4. Sound(results, heap)'
    BY <2>1, <2>2, <2>3 DEF Sound, Sized, ItemSize
  <2>5. TypeOK' /\ Progress'
    BY <2>1 DEF TypeOK, Progress
  <2> QED BY <2>4, <2>5
<1>12. CASE FreeHandle
  <2>1. heap' = clones /\ results' = NoResults /\ phase' = "none" /\ clones' = clones
    BY <1>12, FreeLeavesClones DEF FreeHandle
  <2>2. Sized(results)'
    BY <2>1, AllocatorAssumption DEF Sized, NoResults, ItemSize
  <2>3. Sound(results, heap)'
    BY <1>0, <2>1, <2>2, NoResultsIsSound DEF Sound, Exclusive
  <2>4. TypeOK'
    BY <1>0, <1>12, <2>1, <2>3 DEF FreeHandle, TypeOK, Sound
  <2>5. Progress'
    BY <2>1 DEF Progress
  <2> QED BY <2>3, <2>4, <2>5
<1>13. CASE UNCHANGED vars
  BY <1>13 DEF vars, TypeOK, Progress, Sound, Exclusive, Sized, ItemSize
<1> QED BY <1>1, <1>2, <1>3, <1>4, <1>5, <1>6, <1>7, <1>8, <1>9, <1>10, <1>11, <1>12, <1>13 DEF Next

(* The invariant holds in every state of every behaviour. *)
LEMMA Inductive == Spec => []IInv
BY InitIInv, NextIInv, PTL DEF Spec

-----------------------------------------------------------------------------
(* The collector's state keeps its types, whichever allocations fail. *)
THEOREM TypeCorrect == Spec => []TypeOK
<1>1. IInv => TypeOK
  BY DEF IInv
<1> QED BY Inductive, <1>1, PTL

(* The append functions never write outside the array they grow: realloc is *)
(* never passed a size that wrapped around, for any width of size_t, as     *)
(* long as the allocator refuses objects above half the address space.      *)
THEOREM WritesInBounds == Spec => []InBounds
<1>1. IInv => InBounds
  <2> SUFFICES ASSUME IInv PROVE InBounds
    OBVIOUS
  <2>1. Sized(results) /\ results \in ResultsType
    BY DEF IInv, Sound
  <2>2. results.cap * ItemSize \in Nat
    BY <2>1 DEF ResultsType, ItemSize
  <2> QED BY <2>1, <2>2 DEF InBounds, Sized
<1> QED BY Inductive, <1>1, PTL

(* A handle that reaches Go lists every element Nix delivered, in order.    *)
THEOREM HandleIsComplete == Spec => []AllOrNothing
<1>1. IInv => AllOrNothing
  BY DEF IInv, TypeOK, Progress, AllOrNothing, ResultsType
<1> QED BY Inductive, <1>1, PTL

(* On every path, failing ones included, the allocated memory is exactly    *)
(* what can still be freed through the handle or the caller's copies.       *)
THEOREM NothingLeaks == Spec => []NoLeak
<1>1. IInv => NoLeak
  BY DEF IInv, Sound, NoLeak
<1> QED BY Inductive, <1>1, PTL

(* No address is reachable from two owners, so no free is a double free.    *)
THEOREM OwnersAreDisjoint == Spec => []SingleOwner
<1>1. IInv => SingleOwner
  BY DEF IInv, Sound, Exclusive, SingleOwner
<1> QED BY Inductive, <1>1, PTL

(* NULL comes with an error on the caller's context and a handle without.   *)
THEOREM FailureIsReported == Spec => []ErrorReported
<1>1. IInv => ErrorReported
  BY DEF IInv, Progress, ErrorReported
<1> QED BY Inductive, <1>1, PTL

(* The array-growing collector implements the all-or-nothing list.          *)
THEOREM CollectorImplementsList == Spec => ListSpec
<1>1. Init => List!Init
  BY DEF Init, List!Init, Listed
<1>2. IInv /\ IInv' /\ [Next]_vars => [List!Next]_(List!vars)
  <2> SUFFICES ASSUME IInv, IInv', [Next]_vars PROVE [List!Next]_(List!vars)
    OBVIOUS
  <2> USE DEF List!Next, List!vars
  <2>1. ASSUME NEW k \in {"realise", "closure"}, NEW ctx \in BOOLEAN,
               Begin(k, ctx) \/ BeginFails(k, ctx)
        PROVE  List!Start
    BY <2>1 DEF Begin, BeginFails, List!Start, Listed
  <2>2. ASSUME AppendLatched \/ GrowFails \/ CopyFails \/ Append1
        PROVE  List!Deliver
    <3>1. Delivered
      BY <2>2 DEF AppendLatched, GrowFails, CopyFails, Append1
    <3> QED BY <3>1 DEF Delivered, List!Deliver, Listed
  <2>3. ASSUME ReturnNull, phase = "collecting" PROVE List!Fail
    BY <2>3 DEF ReturnNull, List!Fail, Listed
  <2>4. ASSUME NixSucceeds, ~AppendFailed PROVE List!Succeed
    <3>1. /\ phase = "collecting" /\ phase' = "handle" /\ results' = results
          /\ delivered' = delivered /\ reply' = reply
      BY <2>4 DEF NixSucceeds
    <3>2. Len(results.items) = delivered /\ results.items \in Seq(Item)
          /\ \A i \in DOMAIN results.items : results.items[i].elem = i
      BY <2>4, <3>1 DEF IInv, Sound, ResultsType, Progress, AppendFailed
    <3>3. Listed' = [i \in 1 .. delivered |-> results.items[i].elem]
      BY <3>1, <3>2 DEF Listed
    <3>4. \A i \in 1 .. delivered : results.items[i].elem = i
      BY <3>2
    <3>5. Listed' = [i \in 1 .. delivered |-> i]
      BY <3>3, <3>4
    <3> QED BY <3>1, <3>5 DEF List!Succeed
  <2>5. ASSUME NEW index \in 0 .. MaxDelivered, Clone(index) PROVE List!Read
    <3>1. /\ phase = "handle" /\ index \in Nat /\ index < Len(results.items)
          /\ phase' = phase /\ results' = results /\ delivered' = delivered
          /\ reply' = [index |-> index, elem |-> results.items[index + 1].elem]
      BY <2>5, BoundAssumption DEF Clone, InRange
    <3>2. Len(results.items) \in Nat
      BY DEF IInv, Sound, ResultsType
    <3>3. index + 1 \in 1 .. Len(results.items) /\ (index + 1) - 1 = index
      BY <3>1, <3>2
    <3>4. Listed[index + 1] = results.items[index + 1].elem /\ index + 1 \in DOMAIN Listed
      BY <3>1, <3>3 DEF Listed
    <3>5. reply' = [index |-> (index + 1) - 1, elem |-> Listed[index + 1]]
      BY <3>1, <3>3, <3>4
    <3>6. reply' \in {[index |-> i - 1, elem |-> Listed[i]] : i \in DOMAIN Listed}
      BY <3>4, <3>5
    <3>7. Listed' = Listed
      BY <3>1 DEF Listed
    <3> QED BY <3>1, <3>6, <3>7 DEF List!Read
  <2>6. ASSUME CloneFails PROVE List!Read
    BY <2>6 DEF CloneFails, List!Read, Listed
  <2>7. ASSUME NEW b \in clones, FreeClone(b) PROVE UNCHANGED List!vars
    BY <2>7 DEF FreeClone, Listed
  <2>8. ASSUME FreeHandle PROVE List!Drop
    BY <2>8 DEF FreeHandle, List!Drop, Listed
  <2>9. ASSUME UNCHANGED vars PROVE UNCHANGED List!vars
    BY <2>9 DEF vars, Listed
  <2>10. ASSUME NixFails \/ NixSucceeds PROVE List!Fail \/ List!Succeed
    BY <2>3, <2>4, <2>10 DEF NixFails, NixSucceeds
  <2> QED BY <2>1, <2>2, <2>5, <2>6, <2>7, <2>8, <2>9, <2>10 DEF Next
<1> QED BY Inductive, <1>1, <1>2, PTL DEF Spec, ListSpec, List!Spec
=============================================================================
