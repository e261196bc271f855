-------------------------------- MODULE Marshal --------------------------------
(***************************************************************************)
(* The life of the C memory behind the arguments of a wrapper in nix.go:   *)
(* PassRef, PassValue, Free and Deref of the wrapping structs, the unpack  *)
(* helpers, the calls of the wrappers with their KeepAlives, and the       *)
(* garbage collector with the finalizers of cgo_helpers.go.                *)
(*                                                                         *)
(* The structs of GoStructs are variables here: one may hold others, in a  *)
(* slice or nested, as deep as the types allow.  Allocation maps are taken *)
(* at their specification (AllocLedger), one step per operation, and C     *)
(* values are abstracted to the blocks that their pointers reach.          *)
(***************************************************************************)
EXTENDS Naturals, FiniteSetsExt, Functions, GoStructs

CONSTANTS
  Proc,       \* goroutines that call wrappers
  Var,        \* Go variables of the wrapping struct types
  Type,       \* the type of each
  Items,      \* the elements of the slice of structs in each, none if it is nil
  Nested,     \* the structs nested in each
  Holdings,   \* sets of variables, one of which the callers of a behaviour have
  Copies,     \* bound: blocks, or maps, of one place that are in use at a time
  MaxStrings, \* bound: strings that are in use at a time
  MaxLost     \* bound: the C blocks lost for ever before no more may be

ASSUME TypeAssumption ==
  /\ Type \in [Var -> Structs]
  /\ Items \in [Var -> SUBSET Var] /\ Nested \in [Var -> SUBSET Var]
  /\ \A v \in Var : /\ {Type[w] : w \in Items[v]} \subseteq Type[v].items
                    /\ {Type[w] : w \in Nested[v]} = Type[v].nested

(* A struct holds its parts by value: each is in one place of one variable. *)
ASSUME PartsAssumption ==
  /\ \A u, v \in Var : (Items[u] \cup Nested[u]) \cap (Items[v] \cup Nested[v]) # {} => u = v
  /\ "string" \notin Var
ASSUME HoldingsAssumption ==
  Holdings \subseteq {V \in SUBSET Var : \A v \in V : Items[v] \cup Nested[v] \subseteq V}
ASSUME BoundAssumption == Copies \in Nat \ {0} /\ MaxStrings \in Nat /\ MaxLost \in Nat

VARIABLES
  ref,        \* the C object each variable caches, or NoRef
  allocs,     \* the map each variable keeps, or NoMap
  slices,     \* the C blocks that the byte slices of each variable are in
  blocks,     \* the blocks of each map
  allocated,  \* the C blocks that are allocated
  frame,      \* the wrapper call each goroutine is in
  lost,       \* history: blocks whose map no Go variable has any more, by cause
  held        \* the variables that the callers have

vars == <<ref, allocs, slices, blocks, allocated, frame, lost, held>>

(* Every place that allocates has addresses of its own, and so has every    *)
(* place that makes a map: place n of a variable, or the strings of a call. *)
StringPlace == {"string"} \X {0} \X (1 .. MaxStrings)
Block == StringPlace \cup UNION {{v} \X (0 .. Type[v].bytes + 1) \X (1 .. Copies) : v \in Var}
MapId == (Var \X {0, 1} \X (1 .. Copies)) \cup StringPlace
Null == << >>
NoMap == << >>

(* home is the block that the C struct itself is in, or Null for a Go copy  *)
(* of it.  points says what its pointers reach, for each part of the        *)
(* variable.                                                                *)
NoRef == [home |-> Null, points |-> [v \in Var |-> {}], set |-> FALSE]
CObject(home, points) == [home |-> home, points |-> points, set |-> TRUE]

NoCall == [reads |-> {}, keeps |-> {}, args |-> {}]

-----------------------------------------------------------------------------
(* The structs in a struct. *)

Parts(v) == Items[v] \cup Nested[v]

Below[v \in Var] == {v} \cup UNION {Below[w] : w \in Parts(v)}

(* What Deref leaves: a C object that is somebody else's.  The Go fields of *)
(* such a variable are zero, so that its slice is nil.                      *)
IsReadBack(v) == ref[v].set /\ allocs[v] = NoMap

-----------------------------------------------------------------------------
(* Fresh addresses and maps: ones that are not in use. *)

Unused(v, n, used) == {k \in 1 .. Copies : <<v, n, k>> \notin used}
Fresh(v, n, used) == <<v, n, CHOOSE k \in Unused(v, n, used) : TRUE>>

NonEmpty == {a \in MapId : blocks[a] # {}}
InUse(V) == NonEmpty \cup {allocs[v] : v \in V}
              \cup UNION {frame[g].keeps : g \in Proc}
NewBlock(n) == Fresh(n[1], n[2], allocated)

(* The map that a PassRef makes for v, which takes the place of the empty   *)
(* one that v may keep, or for a copy of v.                                 *)
NewMap(v) == Fresh(v, 0, InUse(Var \ {v}))
CopyMap(v) == Fresh(v, 0, InUse(Var))
UnpackedMap(v) == Fresh(v, 1, InUse(Var))

(* unpackPCharString: a block and a map for each of n strings, which have   *)
(* the same name here.                                                      *)
UnusedStrings == StringPlace \ (allocated \cup InUse(Var))
NewStrings(n) == CHOOSE S \in kSubset(n, UnusedStrings) : TRUE

(* The unpack helpers give their maps a finalizer, PassRef does not. *)
HasFinalizer(a) == a \notin Var \X {0} \X (1 .. Copies)

-----------------------------------------------------------------------------
(* Marshalling.  A variable that caches a C object is marshalled to that,   *)
(* and nothing is allocated for it or for its parts.                        *)

(* One block each: 0 for the struct itself, by alloc...Memory, one for each  *)
(* byte slice, by copyPCharBytes, and one for the array of its slice.       *)
Own(v) == {v} \X (0 .. Type[v].bytes + (IF Items[v] = {} THEN 0 ELSE 1))

Needs[v \in Var] ==
  IF ref[v].set THEN {} ELSE Own(v) \cup UNION {Needs[w] : w \in Parts(v)}

Memory(v) == {NewBlock(n) : n \in Needs[v]}

(* The pointers of the C value: to what was allocated for it, other than    *)
(* the structs, which are copied into the array or the struct around them;  *)
(* or, of a part that caches a C object, that object's.                     *)
Reach[v \in Var] ==
  IF ref[v].set THEN ref[v].points
  ELSE [x \in Var |->
          (IF x = v THEN {NewBlock(n) : n \in Own(v) \ {<<v, 0>>}} ELSE {})
            \cup UNION {Reach[w][IF x = v THEN w ELSE x] : w \in Parts(v)}]

CValue(v) ==
  IF ref[v].set THEN ref[v] ELSE CObject(NewBlock(<<v, 0>>), Reach[v])

(* Defect: Borrow leaves the pointers in both maps. *)
BorrowedTwice(own, unpacked) == [outer |-> own \cup unpacked, inner |-> unpacked]

(* Borrow leaves the unpacked map, which has a finalizer, with nothing. *)
Borrowed(own, unpacked) == [outer |-> own \cup unpacked, inner |-> {}]

(* The maps after PassRef: its own, a, lists all of the memory. *)
WithMap(v, a) ==
  LET own == {NewBlock(<<v, 0>>)}
      borrowed == Borrowed(own, Memory(v) \ own)
  IN  IF ref[v].set THEN blocks
      ELSE [blocks EXCEPT ![a] = borrowed.outer, ![UnpackedMap(v)] = borrowed.inner]

Room(v) ==
  /\ \A n \in Needs[v] : Unused(n[1], n[2], allocated) # {}
  /\ \A n \in {0, 1} : Unused(v, n, InUse(Var)) # {}

-----------------------------------------------------------------------------
(* What a caller does with a variable. *)

Lost == lost["PassValue"] \cup lost["Deref"]
Loses(cause, memory) ==
  /\ Cardinality(Lost) < MaxLost \/ memory = {}
  /\ lost' = [lost EXCEPT ![cause] = @ \cup memory]

(* Defect: the struct does not keep its map. *)
CachesOnly(v) ==
  /\ ref' = [ref EXCEPT ![v] = CValue(v)]
  /\ UNCHANGED allocs

(* Defect: it keeps the map of the unpack helper. *)
CachesUnpacked(v) ==
  /\ ref' = [ref EXCEPT ![v] = CValue(v)]
  /\ allocs' = IF ref[v].set THEN allocs ELSE [allocs EXCEPT ![v] = UnpackedMap(v)]

Caches(v) ==
  /\ ref' = [ref EXCEPT ![v] = CValue(v)]
  /\ allocs' = IF ref[v].set THEN allocs ELSE [allocs EXCEPT ![v] = NewMap(v)]

(* x.PassRef() *)
PassRef(v) ==
  /\ ~ref[v].set /\ Room(v)
  /\ Caches(v)
  /\ blocks' = WithMap(v, NewMap(v))
  /\ allocated' = allocated \cup Memory(v)
  /\ UNCHANGED <<slices, frame, lost, held>>

(* The caller frees a variable when no running call was given it or one it  *)
(* is a part of, and nothing points into its memory: no part of it was read *)
(* back, nothing it is a part of is marshalled, and no byte slice is in it. *)
MayFree(v) ==
  /\ allocs[v] # NoMap
  /\ \A g \in Proc : \A x \in frame[g].args : v \notin Below[x]
  /\ \A w \in Below[v] \ {v} : ~IsReadBack(w)
  /\ \A x \in Var \ {v} : v \in Below[x] => ~ref[x].set
  /\ slices[v] = {}

(* Defect: the C object stays cached. *)
FreeKeepingRef(v) ==
  /\ MayFree(v)
  /\ allocated' = allocated \ blocks[allocs[v]]
  /\ blocks' = [blocks EXCEPT ![allocs[v]] = {}]
  /\ UNCHANGED <<ref, allocs, slices, frame, lost, held>>

(* x.Free() frees what the map lists and forgets the C object; the empty    *)
(* map stays.                                                               *)
Free(v) ==
  /\ MayFree(v)
  /\ allocated' = allocated \ blocks[allocs[v]]
  /\ blocks' = [blocks EXCEPT ![allocs[v]] = {}]
  /\ ref' = [ref EXCEPT ![v] = NoRef]
  /\ UNCHANGED <<allocs, slices, frame, lost, held>>

(* The C object that Deref gives a part: for an element a Go copy of its C  *)
(* struct in the array, for a nested struct a pointer into that of v.       *)
ReadBack(v, w) ==
  CObject(IF w \in Nested[v] THEN ref[v].home ELSE Null,
          [x \in Var |-> IF x \in Below[w] THEN ref[v].points[x] ELSE {}])

(* x.Deref() overwrites every part with a new variable; in one that was     *)
(* read back itself the slice of structs is nil.  A map that a part kept is *)
(* gone, and it has no finalizer.  The byte slices of x now are in C memory.*)
Filled(v) == IF IsReadBack(v) THEN Nested[v] ELSE Parts(v)

Deref(v) ==
  /\ ref[v].set
  /\ Filled(v) # {} \/ Type[v].bytes > 0
  /\ ref' = [w \in Var |-> IF w \in Filled(v) THEN ReadBack(v, w) ELSE ref[w]]
  /\ allocs' = [w \in Var |-> IF w \in Filled(v) THEN NoMap ELSE allocs[w]]
  /\ slices' = [w \in Var |-> CASE w = v /\ Type[v].bytes > 0 -> ref[v].points[v]
                             [] w \in Filled(v) -> {}
                             [] OTHER -> slices[w]]
  /\ Loses("Deref", UNION {blocks[allocs[w]] : w \in {p \in Filled(v) : allocs[p] # NoMap}})
  /\ UNCHANGED <<blocks, allocated, frame, held>>

(* The caller assigns a new Go value to a variable that was read back, or   *)
(* new byte slices to its fields.                                           *)
Assign(v) ==
  /\ IsReadBack(v) \/ slices[v] # {}
  /\ ref' = IF IsReadBack(v) THEN [ref EXCEPT ![v] = NoRef] ELSE ref
  /\ slices' = [slices EXCEPT ![v] = {}]
  /\ UNCHANGED <<allocs, blocks, allocated, frame, lost, held>>

-----------------------------------------------------------------------------
(* Wrappers.  Every call keeps the maps of its arguments alive until the    *)
(* native function has returned.                                            *)

(* Defect: the KeepAlives are missing. *)
KeptNone(maps) == {}

Kept(maps) == maps

(* The map that comes with a marshalled variable: none with a cached one.   *)
ItsMap(v, a) == IF ref[v].set THEN {} ELSE {a}

(* What both kinds of wrapper do with their arguments: strings are copied,  *)
(* each into a map of its own.                                              *)
Enter(g, c, maps, args, reads, keeps) ==
  /\ Cardinality(UnusedStrings) >= c.strings
  /\ LET strings == NewStrings(c.strings)
     IN  /\ blocks' = [a \in MapId |-> IF a \in strings THEN {a} ELSE maps[a]]
         /\ allocated' = allocated \cup strings \cup UNION {Memory(v) : v \in args}
         /\ frame' = [frame EXCEPT ![g] = [reads |-> reads \cup strings, args |-> args,
                                          keeps |-> Kept(keeps \cup strings)]]

(* A wrapper such as StoreOpen.  PassValue works on a copy of the variable: *)
(* what it allocates is known to the call alone.                            *)
CallByValue(g, c, v) ==
  /\ Type[v] \in c.values /\ frame[g] = NoCall
  /\ Room(v)
  /\ Enter(g, c, WithMap(v, CopyMap(v)), {v}, CValue(v).points[v], ItsMap(v, CopyMap(v)))
  /\ Loses("PassValue", Memory(v))
  /\ UNCHANGED <<ref, allocs, slices, held>>

(* A wrapper such as StorePathHash marshals the caller's own variable. *)
CallByPointer(g, c, v) ==
  /\ Type[v] \in c.refs /\ frame[g] = NoCall
  /\ Room(v)
  /\ Enter(g, c, WithMap(v, NewMap(v)), {v},
           CValue(v).points[v] \cup ({CValue(v).home} \ {Null}), ItsMap(v, NewMap(v)))
  /\ Caches(v)
  /\ UNCHANGED <<slices, lost, held>>

(* A wrapper such as SettingSet takes strings alone. *)
CallWithStrings(g, c) ==
  /\ c.values = {} /\ c.refs = {} /\ frame[g] = NoCall
  /\ Enter(g, c, blocks, {}, {}, {})
  /\ UNCHANGED <<ref, allocs, slices, lost, held>>

Return(g) ==
  /\ frame[g] # NoCall
  /\ frame' = [frame EXCEPT ![g] = NoCall]
  /\ UNCHANGED <<ref, allocs, slices, blocks, allocated, lost, held>>

-----------------------------------------------------------------------------
(* The garbage collector: a map that no variable and no call can reach is   *)
(* freed by its finalizer, or just forgotten if it has none.                *)

Reachable(a) ==
  \/ \E v \in Var : allocs[v] = a
  \/ \E g \in Proc : a \in frame[g].keeps

Collect(a) ==
  /\ ~Reachable(a)
  /\ allocated' = IF HasFinalizer(a) THEN allocated \ blocks[a] ELSE allocated
  /\ blocks' = [blocks EXCEPT ![a] = {}]
  /\ UNCHANGED <<ref, allocs, slices, frame, lost, held>>

-----------------------------------------------------------------------------
Init ==
  /\ ref = [v \in Var |-> NoRef]
  /\ allocs = [v \in Var |-> NoMap] /\ slices = [v \in Var |-> {}]
  /\ blocks = [a \in MapId |-> {}]
  /\ allocated = {}
  /\ frame = [g \in Proc |-> NoCall]
  /\ lost = [cause \in {"PassValue", "Deref"} |-> {}]
  /\ held \in Holdings

Next ==
  \/ \E v \in held : PassRef(v) \/ Free(v) \/ Deref(v) \/ Assign(v)
  \/ \E g \in Proc, c \in Wrappers :
       (\E v \in held : CallByValue(g, c, v) \/ CallByPointer(g, c, v)) \/ CallWithStrings(g, c)
  \/ \E g \in Proc : Return(g)
  \/ \E a \in NonEmpty : Collect(a)

Spec == Init /\ [][Next]_vars

-----------------------------------------------------------------------------
(* The maps that PassRef makes for a variable, which it may keep: the ones  *)
(* without a finalizer.                                                     *)
MapsOf(v) == {v} \X {0} \X (1 .. Copies)

TypeOK ==
  /\ \A v \in Var :
       /\ ref[v].home \in Block \cup {Null} /\ ref[v].set \in BOOLEAN
       /\ ref[v].points \in [Var -> SUBSET Block]
       /\ allocs[v] \in MapsOf(v) \cup {NoMap}
  /\ allocs \in [Var -> MapId \cup {NoMap}] /\ slices \in [Var -> SUBSET Block]
  /\ blocks \in [MapId -> SUBSET Block]
  /\ allocated \in SUBSET Block /\ Lost \subseteq allocated
  /\ frame \in [Proc -> [reads : SUBSET Block, keeps : SUBSET MapId, args : SUBSET Var]]

(* Whatever the garbage collector, other goroutines and Free do meanwhile,  *)
(* a running native function reads only memory that is allocated.           *)
NoDanglingRead == \A g \in Proc : frame[g].reads \subseteq allocated

(* A C object that a variable caches is alive with everything its pointers  *)
(* reach, and so is what its byte slices are in, which the next PassRef     *)
(* copies, after any sequence of PassRef, Deref, Free, Assign and calls on  *)
(* the variable, on its parts and on what it is a part of.                  *)
CachedIsAlive ==
  \A v \in Var : /\ ref[v].home \in allocated \cup {Null}
                 /\ slices[v] \cup UNION Range(ref[v].points) \subseteq allocated

(* No two maps list the same block and none lists a freed one: a finalizer  *)
(* and Free never free a block twice.                                       *)
ListedOnce ==
  /\ \A a \in NonEmpty : blocks[a] \subseteq allocated
  /\ \A a, b \in NonEmpty : a # b => blocks[a] \cap blocks[b] = {}

(* A C block can still be freed when it is listed in a map that has a       *)
(* finalizer, or in that of a variable that caches a C object, for Free.    *)
IsReclaimable(p) ==
  \E a \in NonEmpty :
    /\ p \in blocks[a]
    /\ HasFinalizer(a) \/ \E v \in Var : ref[v].set /\ allocs[v] = a

(* PassValue of a fresh struct and Deref of parts that kept a map are the   *)
(* only ways to lose C memory: all other can still be freed, whatever order *)
(* PassRef, Free, calls and collections come in; and nothing is left but    *)
(* what a finalizer knows when no variable caches a C object any more.      *)
Reclaimable == \A p \in allocated \ Lost : IsReclaimable(p)

(* PassValue is documented to do "the same as PassRef", so the memory of a  *)
(* struct passed by value should be reclaimable too.                        *)
PassValueReclaimable == \A p \in lost["PassValue"] : IsReclaimable(p)
=============================================================================
