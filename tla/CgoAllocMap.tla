------------------------------ MODULE CgoAllocMap ------------------------------
(***************************************************************************)
(* cgoAllocMap of cgo_helpers.go: a set of C pointers under a              *)
(* sync.RWMutex, with Add, IsEmpty, Borrow and Free called by any number   *)
(* of goroutines, the one a finalizer starts ("go a.Free()") included.     *)
(*                                                                         *)
(* Each operation is cut where another goroutine can see a difference: at  *)
(* every lock acquisition, between the two C-level effects of Free, and at *)
(* every iteration of the loops.  As in Go, a writer that waits keeps new  *)
(* readers out and one that unlocks lets the waiting ones in.  C.free      *)
(* makes an address available to calloc again.                             *)
(***************************************************************************)
EXTENDS Naturals, FiniteSets

CONSTANTS
  Proc,      \* goroutines
  Map,       \* allocation maps
  Block,     \* C addresses
  Depth,     \* nesting depth of the marshalling call that owns each map
  Nobody     \* no goroutine, no owner

ASSUME DepthAssumption == Depth \in [Map -> Nat]
ASSUME NobodyAssumption == Nobody \notin Proc \cup Map
ASSUME KindsAssumption == Proc \cap Map = {}

VARIABLES
  m,          \* the pointers each map holds
  writer,     \* the goroutine that write-locks each map's mutex
  readers,    \* the goroutines that read-lock it
  allocated,  \* the addresses that are allocated
  call        \* the operation each goroutine is in

vars == <<m, writer, readers, allocated, call>>

(* a is the receiver, b the argument of Borrow, ptr the argument of Add or  *)
(* the loop variable of Free.                                               *)
NoCall == [at |-> "idle", a |-> Nobody, b |-> Nobody, ptr |-> Nobody]

At(g, label) == call[g].at = label
Goto(g, label) == call' = [call EXCEPT ![g].at = label]
Return(g) == call' = [call EXCEPT ![g] = NoCall]

(* What a goroutine waits to write-lock, if it waits. *)
WaitsToWrite(g, a) ==
  \/ call[g].at \in {"add.lock", "free.lock", "borrow.locka"} /\ call[g].a = a
  \/ call[g].at = "borrow.lockb" /\ call[g].b = a

(* Defect: a writer does not wait for readers. *)
CanLockWhileRead(a) == writer[a] = Nobody

CanLock(a) == writer[a] = Nobody /\ readers[a] = {}
CanRLock(g, a) ==
  \/ g \in readers[a]
  \/ writer[a] = Nobody /\ \A h \in Proc : ~WaitsToWrite(h, a)

(* Unlocking lets in every reader that waits, before the next writer. *)
Unlock(a) ==
  /\ writer' = [writer EXCEPT ![a] = Nobody]
  /\ readers' = [readers EXCEPT ![a] =
                    @ \cup {g \in Proc : At(g, "borrow.rlock") /\ call[g].b = a}]

-----------------------------------------------------------------------------
(* Add, of a block the calling goroutine has just obtained from calloc. *)

AddCall(g, a, p) ==
  /\ At(g, "idle")
  /\ p \notin allocated
  /\ allocated' = allocated \cup {p}
  /\ call' = [call EXCEPT ![g] = [at |-> "add.lock", a |-> a, b |-> Nobody, ptr |-> p]]
  /\ UNCHANGED <<m, writer, readers>>

AddLock(g) ==
  /\ At(g, "add.lock")
  /\ CanLock(call[g].a)
  /\ writer' = [writer EXCEPT ![call[g].a] = g]
  /\ Goto(g, "add.put")
  /\ UNCHANGED <<m, readers, allocated>>

(* Defect: the wrong variable is recorded. *)
AddPutOther(g) ==
  /\ At(g, "add.put")
  /\ m' = [m EXCEPT ![call[g].a] = @ \cup {call[g].b}]
  /\ Unlock(call[g].a)
  /\ Return(g)
  /\ UNCHANGED allocated

AddPut(g) ==
  /\ At(g, "add.put")
  /\ m' = [m EXCEPT ![call[g].a] = @ \cup {call[g].ptr}]
  /\ Unlock(call[g].a)
  /\ Return(g)
  /\ UNCHANGED allocated

-----------------------------------------------------------------------------
(* Borrow.  The receiver belongs to an enclosing marshalling call, so it is *)
(* never deeper than the argument: PassRef borrows from the maps its fields *)
(* returned, unpackS... from those its elements returned.                   *)

MayBorrow(a, b) == Depth[a] < Depth[b]

BorrowCall(g, a, b) ==
  /\ At(g, "idle")
  /\ MayBorrow(a, b)
  /\ call' = [call EXCEPT ![g] = [at |-> "borrow.rlock", a |-> a, b |-> b, ptr |-> Nobody]]
  /\ UNCHANGED <<m, writer, readers, allocated>>

(* IsEmpty: the answer is out of date as soon as the read lock is released. *)
IsEmptyLock(g) ==
  /\ At(g, "borrow.rlock")
  /\ CanRLock(g, call[g].b)
  /\ readers' = [readers EXCEPT ![call[g].b] = @ \cup {g}]
  /\ Goto(g, "borrow.len")
  /\ UNCHANGED <<m, writer, allocated>>

IsEmptyLen(g) ==
  /\ At(g, "borrow.len")
  /\ readers' = [readers EXCEPT ![call[g].b] = @ \ {g}]
  /\ IF m[call[g].b] = {} THEN Return(g) ELSE Goto(g, "borrow.lockb")
  /\ UNCHANGED <<m, writer, allocated>>

BorrowLockArgument(g) ==
  /\ At(g, "borrow.lockb")
  /\ CanLock(call[g].b)
  /\ writer' = [writer EXCEPT ![call[g].b] = g]
  /\ Goto(g, "borrow.locka")
  /\ UNCHANGED <<m, readers, allocated>>

BorrowLockReceiver(g) ==
  /\ At(g, "borrow.locka")
  /\ CanLock(call[g].a)
  /\ writer' = [writer EXCEPT ![call[g].a] = g]
  /\ Goto(g, "borrow.move")
  /\ UNCHANGED <<m, readers, allocated>>

(* Defect: the pointer stays in the argument. *)
MovedWithoutDelete(a, b, p) == [m EXCEPT ![a] = @ \cup {p}]

(* One iteration; the order of a Go map is unspecified. *)
Moved(a, b, p) == [m EXCEPT ![a] = @ \cup {p}, ![b] = @ \ {p}]

BorrowMove(g) ==
  /\ At(g, "borrow.move")
  /\ \E p \in m[call[g].b] : m' = Moved(call[g].a, call[g].b, p)
  /\ UNCHANGED <<writer, readers, allocated, call>>

(* Defect: the loop may end early. *)
BorrowUnlockReceiverEarly(g) ==
  /\ At(g, "borrow.move")
  /\ Unlock(call[g].a)
  /\ Goto(g, "borrow.unlockb")
  /\ UNCHANGED <<m, allocated>>

BorrowUnlockReceiver(g) ==
  /\ At(g, "borrow.move")
  /\ m[call[g].b] = {}
  /\ Unlock(call[g].a)
  /\ Goto(g, "borrow.unlockb")
  /\ UNCHANGED <<m, allocated>>

BorrowUnlockArgument(g) ==
  /\ At(g, "borrow.unlockb")
  /\ Unlock(call[g].b)
  /\ Return(g)
  /\ UNCHANGED <<m, allocated>>

-----------------------------------------------------------------------------
(* Free, called by the owner of the wrapping struct or by a finalizer. *)

FreeCall(g, a) ==
  /\ At(g, "idle")
  /\ call' = [call EXCEPT ![g] = [at |-> "free.lock", a |-> a, b |-> Nobody, ptr |-> Nobody]]
  /\ UNCHANGED <<m, writer, readers, allocated>>

FreeLock(g) ==
  /\ At(g, "free.lock")
  /\ CanLock(call[g].a)
  /\ writer' = [writer EXCEPT ![call[g].a] = g]
  /\ Goto(g, "free.next")
  /\ UNCHANGED <<m, readers, allocated>>

(* C.free: from here on calloc may hand the address to another goroutine. *)
FreeBlock(g) ==
  /\ At(g, "free.next")
  /\ \E p \in m[call[g].a] :
       /\ allocated' = allocated \ {p}
       /\ call' = [call EXCEPT ![g].at = "free.delete", ![g].ptr = p]
  /\ UNCHANGED <<m, writer, readers>>

(* Defect: a freed pointer stays in the map. *)
FreeDeleteMissing(g) ==
  /\ At(g, "free.delete")
  /\ Goto(g, "free.next")
  /\ UNCHANGED <<m, writer, readers, allocated>>

FreeDelete(g) ==
  /\ At(g, "free.delete")
  /\ m' = [m EXCEPT ![call[g].a] = @ \ {call[g].ptr}]
  /\ Goto(g, "free.next")
  /\ UNCHANGED <<writer, readers, allocated>>

FreeUnlock(g) ==
  /\ At(g, "free.next")
  /\ m[call[g].a] = {}
  /\ Unlock(call[g].a)
  /\ Return(g)
  /\ UNCHANGED <<m, allocated>>

-----------------------------------------------------------------------------
Init ==
  /\ m = [a \in Map |-> {}]
  /\ writer = [a \in Map |-> Nobody]
  /\ readers = [a \in Map |-> {}]
  /\ allocated = {}
  /\ call = [g \in Proc |-> NoCall]

Acquisition(g) ==
  AddLock(g) \/ IsEmptyLock(g) \/ BorrowLockArgument(g) \/ BorrowLockReceiver(g) \/ FreeLock(g)

Progress(g) ==
  \/ AddPut(g) \/ IsEmptyLen(g)
  \/ BorrowMove(g) \/ BorrowUnlockReceiver(g) \/ BorrowUnlockArgument(g)
  \/ FreeBlock(g) \/ FreeDelete(g) \/ FreeUnlock(g)

Step(g) == Acquisition(g) \/ Progress(g)

Calls(g) ==
  \/ \E a \in Map, p \in Block : AddCall(g, a, p)
  \/ \E a, b \in Map : BorrowCall(g, a, b)
  \/ \E a \in Map : FreeCall(g, a)

Next == \E g \in Proc : Calls(g) \/ Step(g)

Spec == Init /\ [][Next]_vars

(* A goroutine that can run is run, and sync.RWMutex does not starve a      *)
(* waiter: a lock that is free again and again is eventually granted.       *)
FairSpec ==
  Spec /\ \A g \in Proc : WF_vars(Progress(g)) /\ SF_vars(Acquisition(g))

-----------------------------------------------------------------------------
Labels ==
  {"idle", "add.lock", "add.put", "borrow.rlock", "borrow.len", "borrow.lockb",
   "borrow.locka", "borrow.move", "borrow.unlockb",
   "free.lock", "free.next", "free.delete"}

TypeOK ==
  /\ m \in [Map -> SUBSET Block]
  /\ writer \in [Map -> Proc \cup {Nobody}]
  /\ readers \in [Map -> SUBSET Proc]
  /\ allocated \in SUBSET Block
  /\ call \in [Proc -> [at : Labels, a : Map \cup {Nobody}, b : Map \cup {Nobody},
                        ptr : Block \cup {Nobody}]]

(* g has freed p and has yet to take it out of a. *)
Deleting(g, a, p) == At(g, "free.delete") /\ call[g].a = a /\ call[g].ptr = p

(* The maps that will free p, and the goroutines about to put p in a map. *)
Holders(p) ==
  {a \in Map : p \in m[a] /\ \A g \in Proc : ~Deleting(g, a, p)}
  \cup {g \in Proc : call[g].at \in {"add.lock", "add.put"} /\ call[g].ptr = p}

(* Every allocated block is in the care of exactly one map or goroutine and *)
(* no freed one is in anybody's, whatever calls overlap and even though     *)
(* calloc may return an address before Free has taken it out of its map:    *)
(* nothing leaks and nothing is freed twice.                                *)
OneHolder ==
  \A p \in Block :
    Cardinality(Holders(p)) = IF p \in allocated THEN 1 ELSE 0

(* The pointers of a map change only under its write lock, and never while  *)
(* a reader counts them.                                                    *)
LockedWrites ==
  [][\A a \in Map : m'[a] # m[a] => writer[a] # Nobody /\ readers[a] = {}]_vars

(* Every call returns: two overlapping Borrows never wait for each other,   *)
(* and the recheck-free emptiness test never leaves a lock behind.          *)
CallsReturn == \A g \in Proc : ~At(g, "idle") ~> At(g, "idle")

-----------------------------------------------------------------------------
(* Borrow and Free take effect at one moment, when their last lock is       *)
(* acquired: from then on the receiver owns what the argument still lists,  *)
(* and nobody owns what a Free has yet to free.                             *)
TakenBy(b) ==
  {a \in Map : \E g \in Proc : At(g, "borrow.move") /\ call[g].a = a /\ call[g].b = b}

BeingFreed(a) ==
  \E g \in Proc : call[g].at \in {"free.next", "free.delete"} /\ call[g].a = a

OwnerOf(p) ==
  LET adders == {g \in Proc : call[g].at \in {"add.lock", "add.put"} /\ call[g].ptr = p}
      maps == {a \in Map : p \in m[a] /\ ~BeingFreed(a)}
      owners == adders \cup {IF TakenBy(a) = {} THEN a ELSE CHOOSE t \in TakenBy(a) : TRUE :
                             a \in maps}
  IN  IF owners = {} THEN Nobody ELSE CHOOSE o \in owners : TRUE

Ledger == INSTANCE AllocLedger WITH owner <- [p \in Block |-> OwnerOf(p)]

(* Whatever operations overlap, their effect is that of single steps: the   *)
(* maps implement AllocLedger.                                              *)
LedgerSpec == Ledger!Spec
=============================================================================
