--------------------------- MODULE CgoAllocMap_proofs ---------------------------
(***************************************************************************)
(* Proofs about CgoAllocMap for any number of goroutines, maps and         *)
(* addresses.                                                              *)
(***************************************************************************)
EXTENDS CgoAllocMap, FiniteSetTheorems, TLAPS

-----------------------------------------------------------------------------
(* The inductive invariant.                                                *)

Borrowing ==
  {"borrow.rlock", "borrow.len", "borrow.lockb", "borrow.locka", "borrow.move", "borrow.unlockb"}

(* A call carries the arguments that its next steps use. *)
Arguments ==
  \A g \in Proc :
    /\ call[g].at # "idle" => call[g].a \in Map
    /\ call[g].at \in Borrowing => call[g].b \in Map /\ call[g].a # call[g].b
    /\ call[g].at \in {"add.lock", "add.put"} => call[g].ptr \in Block
    /\ call[g].at = "free.delete" => call[g].ptr \in m[call[g].a]

(* Where g is when it has the write lock of a. *)
HoldsWrite(g, a) ==
  \/ call[g].at \in {"add.put", "free.next", "free.delete", "borrow.move"} /\ call[g].a = a
  \/ call[g].at \in {"borrow.locka", "borrow.move", "borrow.unlockb"} /\ call[g].b = a

Locks ==
  \A a \in Map :
    /\ \A g \in Proc : HoldsWrite(g, a) <=> writer[a] = g
    /\ writer[a] # Nobody => readers[a] = {}

(* What makes an address the business of a goroutine, or of a map. *)
Adding(g, p) == call[g].at \in {"add.lock", "add.put"} /\ call[g].ptr = p
Lists(a, p) == p \in m[a] /\ \A g \in Proc : ~Deleting(g, a, p)

Owned ==
  \A p \in Block :
    /\ \A g, h \in Proc : Adding(g, p) /\ Adding(h, p) => g = h
    /\ \A a, b \in Map : Lists(a, p) /\ Lists(b, p) => a = b
    /\ \A g \in Proc, a \in Map : ~(Adding(g, p) /\ Lists(a, p))
    /\ p \in allocated <=> (\E g \in Proc : Adding(g, p)) \/ (\E a \in Map : Lists(a, p))

IInv == TypeOK /\ Arguments /\ Locks /\ Owned
-----------------------------------------------------------------------------
(* Whoever has the write lock of a map is alone with it. *)
LEMMA Exclusion ==
  ASSUME IInv, NEW g \in Proc, NEW h \in Proc, NEW a \in Map, HoldsWrite(g, a), HoldsWrite(h, a)
  PROVE  g = h
BY DEF IInv, Locks

(* The care for a block is left alone by a step that moves none. *)
LEMMA OwnedUndisturbed ==
  ASSUME Owned, m' = m, allocated' = allocated,
         \A g \in Proc, p \in Block : Adding(g, p)' <=> Adding(g, p),
         \A g \in Proc, a \in Map, p \in Block : Deleting(g, a, p)' <=> Deleting(g, a, p)
  PROVE  Owned'
<1>1. \A a \in Map, p \in Block : Lists(a, p)' <=> Lists(a, p)
  BY DEF Lists
<1> QED BY <1>1 DEF Owned

-----------------------------------------------------------------------------
(* The invariant holds initially. *)
LEMMA InitIInv == Init => IInv
BY NobodyAssumption DEF Init, IInv, TypeOK, Labels, NoCall, Arguments, Borrowing, Locks, HoldsWrite,
  Owned, Adding, Lists, Deleting

(* Every step of every goroutine preserves the invariant. *)
LEMMA NextIInv == IInv /\ [Next]_vars => IInv'
<1> SUFFICES ASSUME IInv, [Next]_vars PROVE IInv'
  OBVIOUS
<1> USE NobodyAssumption, KindsAssumption DEF IInv, At, Goto, Return, NoCall, Unlock
<1>1. ASSUME NEW g \in Proc, NEW a \in Map, NEW p \in Block, AddCall(g, a, p) PROVE IInv'
  <2>1. TypeOK' /\ Arguments'
    BY <1>1 DEF AddCall, TypeOK, Labels, Arguments, Borrowing
  <2>2. Locks'
    BY <1>1 DEF AddCall, TypeOK, Labels, Arguments, Borrowing, Locks, HoldsWrite
  <2>3. Owned'
    BY <1>1 DEF AddCall, TypeOK, Labels, Arguments, Borrowing, Owned, Adding, Lists, Deleting
  <2> QED BY <2>1, <2>2, <2>3
<1>2. ASSUME NEW g \in Proc, NEW a \in Map, NEW b \in Map, BorrowCall(g, a, b) PROVE IInv'
  <2>1. TypeOK' /\ Arguments'
    BY <1>2, DepthAssumption DEF BorrowCall, MayBorrow, TypeOK, Labels, Arguments, Borrowing
  <2>2. Locks'
    BY <1>2, DepthAssumption DEF BorrowCall, MayBorrow, TypeOK, Labels, Arguments, Borrowing, Locks, HoldsWrite
  <2>3. Owned'
    BY <1>2, DepthAssumption, OwnedUndisturbed DEF BorrowCall, MayBorrow, TypeOK, Labels, Adding, Deleting
  <2> QED BY <2>1, <2>2, <2>3
<1>3. ASSUME NEW g \in Proc, NEW a \in Map, FreeCall(g, a) PROVE IInv'
  <2>1. TypeOK' /\ Arguments'
    BY <1>3 DEF FreeCall, TypeOK, Labels, Arguments, Borrowing
  <2>2. Locks'
    BY <1>3 DEF FreeCall, TypeOK, Labels, Arguments, Borrowing, Locks, HoldsWrite
  <2>3. Owned'
    BY <1>3, OwnedUndisturbed DEF FreeCall, TypeOK, Labels, Adding, Deleting
  <2> QED BY <2>1, <2>2, <2>3
<1>4. ASSUME NEW g \in Proc, AddLock(g) PROVE IInv'
  <2>1. TypeOK' /\ Arguments'
    BY <1>4 DEF AddLock, CanLock, TypeOK, Labels, Arguments, Borrowing
  <2>2. Locks'
    BY <1>4 DEF AddLock, CanLock, TypeOK, Labels, Arguments, Borrowing, Locks, HoldsWrite
  <2>3. Owned'
    BY <1>4, OwnedUndisturbed DEF AddLock, CanLock, TypeOK, Labels, Adding, Deleting
  <2> QED BY <2>1, <2>2, <2>3
<1>5. ASSUME NEW g \in Proc, AddPut(g) PROVE IInv'
  <2>1. TypeOK' /\ Arguments'
    BY <1>5 DEF AddPut, TypeOK, Labels, Arguments, Borrowing
  <2>2. Locks'
    BY <1>5 DEF AddPut, TypeOK, Labels, Arguments, Borrowing, Locks, HoldsWrite
  <2>3. Owned'
    <3> DEFINE a == call[g].a
               p == call[g].ptr
    <3>1. a \in Map /\ p \in Block /\ call[g].at = "add.put"
      BY <1>5 DEF AddPut, Arguments
    <3>2. \A h \in Proc, q \in Block : Adding(h, q)' <=> h # g /\ Adding(h, q)
      BY <1>5 DEF AddPut, TypeOK, Adding
    <3>3. \A h \in Proc, c \in Map, q \in Block : Deleting(h, c, q)' <=> Deleting(h, c, q)
      BY <1>5 DEF AddPut, TypeOK, Deleting
    <3>4. \A h \in Proc, q \in Block : ~Deleting(h, a, q)
      BY <3>1, Exclusion DEF Deleting, HoldsWrite
    <3>5. \A c \in Map, q \in Block : Lists(c, q)' <=> Lists(c, q) \/ (c = a /\ q = p)
      BY <1>5, <3>1, <3>3, <3>4 DEF AddPut, TypeOK, Lists
    <3>6. Adding(g, p) /\ \A q \in Block : Adding(g, q) => q = p
      BY <3>1 DEF Adding
    <3> HIDE DEF a, p
    <3>7. allocated' = allocated
      BY <1>5 DEF AddPut
    <3> QED BY <3>1, <3>2, <3>5, <3>6, <3>7 DEF Owned
  <2> QED BY <2>1, <2>2, <2>3
<1>6. ASSUME NEW g \in Proc, IsEmptyLock(g) PROVE IInv'
  <2>1. TypeOK' /\ Arguments'
    BY <1>6 DEF IsEmptyLock, CanRLock, TypeOK, Labels, Arguments, Borrowing
  <2>2. Locks'
    BY <1>6 DEF IsEmptyLock, CanRLock, TypeOK, Labels, Arguments, Borrowing, Locks, HoldsWrite
  <2>3. Owned'
    BY <1>6, OwnedUndisturbed DEF IsEmptyLock, CanRLock, TypeOK, Labels, Adding, Deleting
  <2> QED BY <2>1, <2>2, <2>3
<1>7. ASSUME NEW g \in Proc, IsEmptyLen(g) PROVE IInv'
  <2>1. TypeOK' /\ Arguments'
    BY <1>7 DEF IsEmptyLen, TypeOK, Labels, Arguments, Borrowing
  <2>2. Locks'
    BY <1>7 DEF IsEmptyLen, TypeOK, Labels, Arguments, Borrowing, Locks, HoldsWrite
  <2>3. Owned'
    BY <1>7, OwnedUndisturbed DEF IsEmptyLen, TypeOK, Labels, Adding, Deleting
  <2> QED BY <2>1, <2>2, <2>3
<1>8. ASSUME NEW g \in Proc, BorrowLockArgument(g) PROVE IInv'
  <2>1. TypeOK' /\ Arguments'
    BY <1>8 DEF BorrowLockArgument, CanLock, TypeOK, Labels, Arguments, Borrowing
  <2>2. Locks'
    BY <1>8 DEF BorrowLockArgument, CanLock, TypeOK, Labels, Arguments, Borrowing, Locks, HoldsWrite
  <2>3. Owned'
    BY <1>8, OwnedUndisturbed DEF BorrowLockArgument, CanLock, TypeOK, Labels, Adding, Deleting
  <2> QED BY <2>1, <2>2, <2>3
<1>9. ASSUME NEW g \in Proc, BorrowLockReceiver(g) PROVE IInv'
  <2>1. TypeOK' /\ Arguments'
    BY <1>9 DEF BorrowLockReceiver, CanLock, TypeOK, Labels, Arguments, Borrowing
  <2>2. Locks'
    BY <1>9 DEF BorrowLockReceiver, CanLock, TypeOK, Labels, Arguments, Borrowing, Locks, HoldsWrite
  <2>3. Owned'
    BY <1>9, OwnedUndisturbed DEF BorrowLockReceiver, CanLock, TypeOK, Labels, Adding, Deleting
  <2> QED BY <2>1, <2>2, <2>3
<1>10. ASSUME NEW g \in Proc, BorrowMove(g) PROVE IInv'
  <2> DEFINE a == call[g].a
             b == call[g].b
  <2>0. a \in Map /\ b \in Map /\ a # b /\ call[g].at = "borrow.move"
    BY <1>10 DEF BorrowMove, Arguments, Borrowing
  <2>1. PICK p \in m[b] : m' = Moved(a, b, p)
    BY <1>10 DEF BorrowMove
  <2>2. p \in Block
    BY <2>0, <2>1 DEF TypeOK
  <2>3. \A h \in Proc, q \in Block : ~Deleting(h, a, q) /\ ~Deleting(h, b, q)
    BY <2>0, Exclusion DEF Deleting, HoldsWrite
  <2> HIDE DEF a, b
  <2>4. \A c \in Map : m'[c] = CASE c = a -> m[a] \cup {p} [] c = b -> m[b] \ {p} [] OTHER -> m[c]
    BY <2>0, <2>1 DEF Moved, TypeOK
  <2>5. TypeOK'
    BY <1>10, <2>0, <2>1, <2>2 DEF BorrowMove, TypeOK, Moved
  <2>6. Arguments'
    BY <1>10, <2>2, <2>3, <2>4 DEF BorrowMove, Arguments, Deleting
  <2>7. Locks'
    BY <1>10 DEF BorrowMove, Locks, HoldsWrite
  <2>8. Owned'
    <3>1. \A h \in Proc, q \in Block : Adding(h, q)' <=> Adding(h, q)
      BY <1>10 DEF BorrowMove, Adding
    <3>2. \A h \in Proc, c \in Map, q \in Block : Deleting(h, c, q)' <=> Deleting(h, c, q)
      BY <1>10 DEF BorrowMove, Deleting
    <3>3. \A c \in Map, q \in Block :
            Lists(c, q)' <=> IF q = p THEN c = a \/ (c # b /\ Lists(c, p)) ELSE Lists(c, q)
      BY <2>0, <2>1, <2>2, <2>3, <2>4, <3>2 DEF Lists
    <3>4. Lists(b, p)
      BY <2>1, <2>2, <2>3 DEF Lists
    <3> QED BY <1>10, <2>0, <2>2, <3>1, <3>3, <3>4 DEF BorrowMove, Owned
  <2> QED BY <2>5, <2>6, <2>7, <2>8
<1>11. ASSUME NEW g \in Proc, BorrowUnlockReceiver(g) PROVE IInv'
  <2>1. TypeOK' /\ Arguments'
    BY <1>11 DEF BorrowUnlockReceiver, TypeOK, Labels, Arguments, Borrowing
  <2>2. Locks'
    BY <1>11 DEF BorrowUnlockReceiver, TypeOK, Labels, Arguments, Borrowing, Locks, HoldsWrite
  <2>3. Owned'
    BY <1>11, OwnedUndisturbed DEF BorrowUnlockReceiver, TypeOK, Labels, Adding, Deleting
  <2> QED BY <2>1, <2>2, <2>3
<1>12. ASSUME NEW g \in Proc, BorrowUnlockArgument(g) PROVE IInv'
  <2>1. TypeOK' /\ Arguments'
    BY <1>12 DEF BorrowUnlockArgument, TypeOK, Labels, Arguments, Borrowing
  <2>2. Locks'
    BY <1>12 DEF BorrowUnlockArgument, TypeOK, Labels, Arguments, Borrowing, Locks, HoldsWrite
  <2>3. Owned'
    BY <1>12, OwnedUndisturbed DEF BorrowUnlockArgument, TypeOK, Labels, Adding, Deleting
  <2> QED BY <2>1, <2>2, <2>3
<1>13. ASSUME NEW g \in Proc, FreeLock(g) PROVE IInv'
  <2>1. TypeOK' /\ Arguments'
    BY <1>13 DEF FreeLock, CanLock, TypeOK, Labels, Arguments, Borrowing
  <2>2. Locks'
    BY <1>13 DEF FreeLock, CanLock, TypeOK, Labels, Arguments, Borrowing, Locks, HoldsWrite
  <2>3. Owned'
    BY <1>13, OwnedUndisturbed DEF FreeLock, CanLock, TypeOK, Labels, Adding, Deleting
  <2> QED BY <2>1, <2>2, <2>3
<1>14. ASSUME NEW g \in Proc, FreeBlock(g) PROVE IInv'
  <2> DEFINE a == call[g].a
  <2>0. a \in Map /\ call[g].at = "free.next"
    BY <1>14 DEF FreeBlock, Arguments
  <2>1. PICK p \in m[a] :
               /\ allocated' = allocated \ {p}
               /\ call' = [call EXCEPT ![g].at = "free.delete", ![g].ptr = p]
    BY <1>14 DEF FreeBlock
  <2>2. p \in Block
    BY <2>0, <2>1 DEF TypeOK
  <2> HIDE DEF a
  <2>3. TypeOK'
    <3>1. "free.delete" \in Labels
      BY DEF Labels
    <3>2. /\ call'[g] = [call[g] EXCEPT !.at = "free.delete", !.ptr = p]
          /\ \A h \in Proc : h # g => call'[h] = call[h]
          /\ DOMAIN call' = Proc /\ call' = [h \in Proc |-> call'[h]]
      BY <2>1 DEF TypeOK
    <3> QED BY <1>14, <2>1, <2>2, <3>1, <3>2 DEF FreeBlock, TypeOK
  <2>6. Arguments'
    BY <1>14, <2>0, <2>1, <2>2 DEF a, FreeBlock, TypeOK, Arguments, Borrowing
  <2>4. Locks'
    BY <1>14, <2>0, <2>1 DEF FreeBlock, TypeOK, Locks, HoldsWrite
  <2>5. Owned'
    <3>1. \A h \in Proc, q \in Block : Adding(h, q)' <=> Adding(h, q)
      BY <2>0, <2>1 DEF TypeOK, Adding
    <3>2. \A h \in Proc, c \in Map, q \in Block :
            Deleting(h, c, q)' <=> Deleting(h, c, q) \/ (h = g /\ c = a /\ q = p)
      BY <2>0, <2>1 DEF a, TypeOK, Deleting
    <3>3. \A c \in Map, q \in Block : Lists(c, q)' <=> Lists(c, q) /\ ~(c = a /\ q = p)
      BY <1>14, <2>0, <2>2, <3>2 DEF FreeBlock, Lists
    <3>4. Lists(a, p)
      BY <2>0, <2>1, <2>2, Exclusion DEF a, Lists, Deleting, HoldsWrite
    <3> QED BY <2>0, <2>1, <2>2, <3>1, <3>3, <3>4 DEF Owned
  <2> QED BY <2>3, <2>4, <2>5, <2>6
<1>15. ASSUME NEW g \in Proc, FreeDelete(g) PROVE IInv'
  <2> DEFINE a == call[g].a
             p == call[g].ptr
  <2>0. a \in Map /\ p \in m[a] /\ call[g].at = "free.delete"
    BY <1>15 DEF FreeDelete, Arguments
  <2>1. \A h \in Proc, q \in Block : Deleting(h, a, q) => h = g /\ q = p
    BY <2>0, Exclusion DEF Deleting, HoldsWrite
  <2>2. TypeOK'
    <3>1. "free.next" \in Labels
      BY DEF Labels
    <3> QED BY <1>15, <2>0, <3>1 DEF FreeDelete, TypeOK
  <2>3. Arguments'
    BY <1>15, <2>0, <2>1 DEF FreeDelete, TypeOK, Labels, Arguments, Borrowing, Deleting
  <2>4. Locks'
    BY <1>15, <2>0 DEF FreeDelete, TypeOK, Locks, HoldsWrite
  <2>5. Owned'
    <3>1. \A h \in Proc, q \in Block : Adding(h, q)' <=> Adding(h, q)
      BY <1>15 DEF FreeDelete, TypeOK, Adding
    <3>2. \A h \in Proc, c \in Map, q \in Block : Deleting(h, c, q)' <=> h # g /\ Deleting(h, c, q)
      BY <1>15 DEF FreeDelete, TypeOK, Deleting
    <3>3. Deleting(g, a, p) /\ p \in Block
      BY <2>0 DEF Deleting, TypeOK
    <3>4. \A c \in Map, q \in Block : Lists(c, q)' <=> Lists(c, q)
      BY <1>15, <2>0, <2>1, <3>2, <3>3 DEF FreeDelete, TypeOK, Lists, Deleting
    <3> QED BY <1>15, <3>1, <3>4 DEF FreeDelete, Owned
  <2> QED BY <2>2, <2>3, <2>4, <2>5
<1>16. ASSUME NEW g \in Proc, FreeUnlock(g) PROVE IInv'
  <2>1. TypeOK' /\ Arguments'
    BY <1>16 DEF FreeUnlock, TypeOK, Labels, Arguments, Borrowing
  <2>2. Locks'
    BY <1>16 DEF FreeUnlock, TypeOK, Labels, Arguments, Borrowing, Locks, HoldsWrite
  <2>3. Owned'
    BY <1>16, OwnedUndisturbed DEF FreeUnlock, TypeOK, Labels, Adding, Deleting
  <2> QED BY <2>1, <2>2, <2>3
<1>17. CASE UNCHANGED vars
  BY <1>17 DEF vars, TypeOK, Labels, Arguments, Borrowing, Locks, HoldsWrite, Owned, Adding, Lists, Deleting
<1> QED BY <1>1, <1>2, <1>3, <1>4, <1>5, <1>6, <1>7, <1>8, <1>9, <1>10, <1>11, <1>12, <1>13, <1>14, <1>15, <1>16, <1>17 DEF Next, Calls, Step, Acquisition, Progress

(* The invariant holds in every state of every behaviour. *)
LEMMA Inductive == Spec => []IInv
BY InitIInv, NextIInv, PTL DEF Spec

-----------------------------------------------------------------------------
(* Maps, mutexes and calls keep their types, whatever operations overlap.   *)
THEOREM TypeCorrect == Spec => []TypeOK
<1>1. IInv => TypeOK
  BY DEF IInv
<1> QED BY Inductive, <1>1, PTL

(* Every allocated block is in the care of exactly one map or goroutine and *)
(* no freed one is in anybody's, for any number of overlapping operations:  *)
(* nothing leaks and nothing is freed twice.                                *)
THEOREM BlocksHaveOneHolder == Spec => []OneHolder
<1>1. IInv => OneHolder
  <2> SUFFICES ASSUME IInv, NEW p \in Block
               PROVE  Cardinality(Holders(p)) = IF p \in allocated THEN 1 ELSE 0
    BY DEF OneHolder
  <2>1. Holders(p) = {a \in Map : Lists(a, p)} \cup {g \in Proc : Adding(g, p)}
    BY DEF Holders, Lists, Adding
  <2>2. CASE p \in allocated
    <3>1. PICK x : x \in Holders(p)
      BY <2>1, <2>2 DEF IInv, Owned
    <3>2. Holders(p) = {x}
      BY <2>1, <3>1 DEF IInv, Owned
    <3> QED BY <2>2, <3>2, FS_Singleton
  <2>3. CASE p \notin allocated
    <3>1. Holders(p) = {}
      BY <2>1, <2>3 DEF IInv, Owned
    <3> QED BY <2>3, <3>1, FS_EmptySet
  <2> QED BY <2>2, <2>3
<1> QED BY Inductive, <1>1, PTL

(* Add, Borrow and Free change the pointers of a map only under its write   *)
(* lock, when IsEmpty does not read them.                                   *)
THEOREM WritesAreLocked == Spec => LockedWrites
<1>1. IInv /\ [Next]_vars =>
        [\A a \in Map : m'[a] # m[a] => writer[a] # Nobody /\ readers[a] = {}]_vars
  <2> SUFFICES ASSUME IInv, [Next]_vars, NEW a \in Map, m'[a] # m[a]
               PROVE  writer[a] # Nobody /\ readers[a] = {}
    OBVIOUS
  <2>1. PICK g \in Proc : AddPut(g) \/ BorrowMove(g) \/ FreeDelete(g)
    BY DEF Next, Calls, Step, Acquisition, Progress, AddCall, BorrowCall, FreeCall, AddLock,
      IsEmptyLock, BorrowLockArgument, BorrowLockReceiver, FreeLock, IsEmptyLen,
      BorrowUnlockReceiver, BorrowUnlockArgument, FreeBlock, FreeUnlock, vars
  <2>2. HoldsWrite(g, a)
    BY <2>1 DEF AddPut, BorrowMove, Moved, FreeDelete, At, HoldsWrite, IInv, TypeOK, Arguments, Borrowing
  <2> QED BY <2>2, NobodyAssumption DEF IInv, Locks
<1> QED BY Inductive, <1>1, PTL DEF Spec, LockedWrites

-----------------------------------------------------------------------------
(* The maps implement AllocLedger.  Owns says in a formula what OwnerOf      *)
(* computes for a map.                                                     *)

Takes(g, a, b) == At(g, "borrow.move") /\ call[g].a = a /\ call[g].b = b
Frees(g, a) == call[g].at \in {"free.next", "free.delete"} /\ call[g].a = a

Owns(o, p) ==
  \E a \in Map :
    /\ p \in m[a]
    /\ \A g \in Proc : ~Frees(g, a)
    /\ IF \E g \in Proc, t \in Map : Takes(g, t, a)
       THEN \E g \in Proc : Takes(g, o, a)
       ELSE o = a

(* OwnerOf is whoever adds the block, or the map that owns it.              *)
OwnersKnown ==
  \A p \in Block :
    /\ \A g \in Proc : OwnerOf(p) = g <=> Adding(g, p)
    /\ \A a \in Map : OwnerOf(p) = a <=> Owns(a, p)
    /\ OwnerOf(p) \in Proc \cup Map \cup {Nobody}

(* Under the invariant nobody competes for a block, so OwnerOf has no choice. *)
LEMMA OwnerIs == IInv => OwnersKnown
<1> SUFFICES ASSUME IInv, NEW p \in Block
             PROVE  /\ \A g \in Proc : OwnerOf(p) = g <=> Adding(g, p)
                    /\ \A a \in Map : OwnerOf(p) = a <=> Owns(a, p)
                    /\ OwnerOf(p) \in Proc \cup Map \cup {Nobody}
  BY DEF OwnersKnown
<1> DEFINE adders == {g \in Proc : call[g].at \in {"add.lock", "add.put"} /\ call[g].ptr = p}
           maps == {a \in Map : p \in m[a] /\ ~BeingFreed(a)}
           taker(a) == IF TakenBy(a) = {} THEN a ELSE CHOOSE t \in TakenBy(a) : TRUE
           owners == adders \cup {taker(a) : a \in maps}
<1>1. OwnerOf(p) = IF owners = {} THEN Nobody ELSE CHOOSE o \in owners : TRUE
  BY DEF OwnerOf
<1>2. \A g : g \in adders <=> g \in Proc /\ Adding(g, p)
  BY DEF Adding
<1>3. \A a \in Map : ~BeingFreed(a) <=> \A g \in Proc : ~Frees(g, a)
  BY DEF BeingFreed, Frees
<1>4. \A a \in maps : Lists(a, p)
  BY DEF BeingFreed, Lists, Deleting, At
<1>5. ASSUME NEW a \in Map, NEW g \in Proc, NEW t \in Map, Takes(g, t, a)
      PROVE  /\ TakenBy(a) = {t}
             /\ \A o : (\E h \in Proc : Takes(h, o, a)) <=> o = t
  <2>1. \A o : \A h \in Proc : Takes(h, o, a) => h = g /\ o = t
    BY <1>5, Exclusion DEF Takes, HoldsWrite, At
  <2> QED BY <1>5, <2>1 DEF TakenBy, Takes
<1>6. ASSUME NEW a \in Map, ~(\E g \in Proc, t \in Map : Takes(g, t, a))
      PROVE  TakenBy(a) = {}
  BY <1>6 DEF TakenBy, Takes
<1>7. \A a \in maps : \A o :
        o = taker(a) <=> IF \E g \in Proc, t \in Map : Takes(g, t, a)
                         THEN \E g \in Proc : Takes(g, o, a) ELSE o = a
  <2> TAKE a \in maps
  <2>1. CASE \E g \in Proc, t \in Map : Takes(g, t, a)
    <3>1. PICK t \in Map : /\ TakenBy(a) = {t}
                           /\ \A o : (\E h \in Proc : Takes(h, o, a)) <=> o = t
      BY <1>5, <2>1
    <3>2. taker(a) = t
      BY <3>1
    <3> QED BY <2>1, <3>1, <3>2
  <2>2. CASE ~(\E g \in Proc, t \in Map : Takes(g, t, a))
    <3>1. taker(a) = a
      BY <1>6, <2>2
    <3> QED BY <2>2, <3>1
  <2> QED BY <2>1, <2>2
<1>8. \A a \in maps : taker(a) \in Map
  <2> TAKE a \in maps
  <2>1. CASE \E g \in Proc, t \in Map : Takes(g, t, a)
    <3>1. PICK t \in Map : TakenBy(a) = {t}
      BY <1>5, <2>1
    <3> QED BY <3>1
  <2>2. CASE ~(\E g \in Proc, t \in Map : Takes(g, t, a))
    BY <1>6, <2>2
  <2> QED BY <2>1, <2>2
<1> HIDE DEF adders, taker
<1>9. \A o : (\E a \in maps : o = taker(a)) <=> Owns(o, p)
  BY <1>3, <1>7 DEF Owns
<1> HIDE DEF maps
<1>10. \A o : o \in owners <=> (o \in Proc /\ Adding(o, p)) \/ Owns(o, p)
  BY <1>2, <1>9
<1>11. owners \subseteq Proc \cup Map
  BY <1>2, <1>8
<1>12. \A x, y \in owners : x = y
  <2>1. \A a, b \in maps : a = b
    BY <1>4 DEF IInv, Owned, maps
  <2>2. \A g \in adders, a \in maps : FALSE
    BY <1>2, <1>4 DEF IInv, Owned, maps
  <2>3. \A g, h \in adders : g = h
    BY <1>2 DEF IInv, Owned
  <2> QED BY <2>1, <2>2, <2>3
<1> HIDE DEF owners
<1>13. \A o : o \in owners => OwnerOf(p) = o
  BY <1>1, <1>12
<1>14. OwnerOf(p) # Nobody => OwnerOf(p) \in owners
  BY <1>1
<1>15. \A a \in Map : Owns(a, p) => a \in owners
  BY <1>10
<1>16. \A a \in Map : a \in owners => Owns(a, p)
  BY <1>10, KindsAssumption
<1>17. \A g \in Proc : g \in owners => Adding(g, p)
  <2>1. \A o : Owns(o, p) => o \in Map
    BY <1>8, <1>9
  <2> QED BY <1>10, <2>1, KindsAssumption
<1> QED BY <1>10, <1>11, <1>13, <1>14, <1>15, <1>16, <1>17, NobodyAssumption

owner == [p \in Block |-> OwnerOf(p)]

(* What a map owns it, or another one, lists. *)
LEMMA OwnsListed ==
  ASSUME NEW o, NEW p \in Block, Owns(o, p)
  PROVE  \E a \in Map : Lists(a, p)
BY DEF Owns, Lists, Deleting, At, Frees

(* Who takes from a map, or is taken from or freed, has been locked.       *)
LEMMA TakersAndFreersLock ==
  ASSUME NEW g \in Proc, NEW a \in Map, NEW b \in Map
  PROVE  /\ Takes(g, a, b) => HoldsWrite(g, a) /\ HoldsWrite(g, b)
         /\ Frees(g, a) => HoldsWrite(g, a)
BY DEF Takes, Frees, At, HoldsWrite

(* A step that moves no block and ends no Borrow or Free of one leaves the  *)
(* maps what they own.                                                     *)
LEMMA OwnsUndisturbed ==
  ASSUME m' = m,
         \A a \in Map : m[a] # {} => \A g \in Proc :
           /\ Frees(g, a)' <=> Frees(g, a)
           /\ \A t : Takes(g, t, a)' <=> Takes(g, t, a)
  PROVE  \A a \in Map, p \in Block : Owns(a, p)' <=> Owns(a, p)
BY DEF Owns

(* A step that changes nobody's blocks changes no owner. *)
LEMMA OwnersUndisturbed ==
  ASSUME OwnersKnown, OwnersKnown',
         \A g \in Proc, p \in Block : Adding(g, p)' <=> Adding(g, p),
         \A a \in Map, p \in Block : Owns(a, p)' <=> Owns(a, p)
  PROVE  owner' = owner
<1>1. \A p \in Block : OwnerOf(p)' = OwnerOf(p)
  BY DEF OwnersKnown
<1> QED BY <1>1 DEF owner

(* Whatever operations overlap, their effect is that of single steps: Borrow *)
(* hands over everything, and Free gives up everything, at the moment it    *)
(* has its last lock.                                                       *)
THEOREM MapsImplementLedger == Spec => LedgerSpec
<1>1. Init => Ledger!Init
  <2> SUFFICES ASSUME Init, NEW p \in Block PROVE OwnerOf(p) = Nobody
    BY DEF Ledger!Init
  <2> QED BY DEF Init, NoCall, OwnerOf
<1>2. IInv /\ OwnersKnown /\ OwnersKnown' /\ [Next]_vars => [Ledger!Next]_owner
  <2> SUFFICES ASSUME IInv, OwnersKnown, OwnersKnown', [Next]_vars
               PROVE  Ledger!Next \/ owner' = owner
    OBVIOUS
  <2> USE DEF IInv, At, Goto, Return, NoCall
  <2>1. ASSUME NEW g \in Proc, NEW a \in Map, NEW p \in Block, AddCall(g, a, p)
        PROVE  Ledger!Acquire(g, p)
    <3>1. \A h \in Proc, q \in Block : Adding(h, q)' <=> Adding(h, q) \/ (h = g /\ q = p)
      BY <2>1 DEF AddCall, TypeOK, Adding
    <3>2. \A b \in Map, q \in Block : Owns(b, q)' <=> Owns(b, q)
      BY <2>1, OwnsUndisturbed DEF AddCall, TypeOK, Frees, Takes
    <3>3. ~(\E h \in Proc : Adding(h, p)) /\ ~(\E b \in Map : Owns(b, p))
      BY <2>1, OwnsListed DEF AddCall, Owned
    <3>4. OwnerOf(p) = Nobody /\ OwnerOf(p)' = g
      BY <3>1, <3>3 DEF OwnersKnown
    <3>5. \A q \in Block \ {p} : OwnerOf(q)' = OwnerOf(q)
      BY <3>1, <3>2 DEF OwnersKnown
    <3> QED BY <3>4, <3>5 DEF Ledger!Acquire
  <2>2. ASSUME NEW g \in Proc, AddPut(g)
        PROVE  \E a \in Map, p \in Block : Ledger!Record(g, a, p)
    <3>1. PICK a \in Map, p \in Block :
                 a = call[g].a /\ p = call[g].ptr /\ call[g].at = "add.put" /\ Adding(g, p)
      BY <2>2 DEF AddPut, Arguments, Adding
    <3>2. \A h \in Proc : ~Frees(h, a) /\ \A t \in Map : ~Takes(h, t, a)
      BY <3>1, Exclusion, TakersAndFreersLock DEF HoldsWrite, Frees, Takes
    <3>3. /\ \A h \in Proc, q \in Block : Adding(h, q)' <=> h # g /\ Adding(h, q)
          /\ \A h \in Proc, b \in Map : Frees(h, b)' <=> Frees(h, b)
          /\ \A h \in Proc, b \in Map : \A t : Takes(h, t, b)' <=> Takes(h, t, b)
      BY <2>2 DEF AddPut, TypeOK, Adding, Frees, Takes
    <3>4. \A q \in Block \ {p} : ~Adding(g, q)
      BY <3>1 DEF Adding
    <3>5. \A b \in Map, q \in Block : q \in m'[b] <=> q \in m[b] \/ (b = a /\ q = p)
      BY <2>2, <3>1 DEF AddPut, TypeOK
    <3>6. Owns(a, p)'
      BY <3>1, <3>2, <3>3, <3>5 DEF Owns
    <3>7. \A b \in Map, q \in Block \ {p} : Owns(b, q)' <=> Owns(b, q)
      BY <3>3, <3>5 DEF Owns
    <3>8. OwnerOf(p) = g /\ OwnerOf(p)' = a
      BY <3>1, <3>6 DEF OwnersKnown
    <3>9. \A q \in Block \ {p} : OwnerOf(q)' = OwnerOf(q)
      BY <3>3, <3>4, <3>7 DEF OwnersKnown
    <3> QED BY <3>1, <3>8, <3>9 DEF Ledger!Record
  <2>3. ASSUME NEW g \in Proc, BorrowLockReceiver(g)
        PROVE  \E a, b \in Map : Ledger!TakeOver(a, b)
    <3>1. PICK a \in Map, b \in Map :
                 a = call[g].a /\ b = call[g].b /\ a # b /\ call[g].at = "borrow.locka"
      BY <2>3 DEF BorrowLockReceiver, Arguments, Borrowing
    <3>2. \A h \in Proc : ~HoldsWrite(h, a) /\ (HoldsWrite(h, b) => h = g)
      BY <2>3, <3>1, NobodyAssumption, Exclusion DEF BorrowLockReceiver, CanLock, Locks, HoldsWrite
    <3>3. \A h \in Proc : ~Frees(h, a) /\ ~Frees(h, b)
      BY <3>1, <3>2, TakersAndFreersLock DEF Frees
    <3>4. \A h \in Proc, t \in Map : ~Takes(h, t, a) /\ ~Takes(h, t, b) /\ ~Takes(h, b, t)
      BY <3>1, <3>2, TakersAndFreersLock DEF Takes
    <3>5. /\ \A h \in Proc, q \in Block : Adding(h, q)' <=> Adding(h, q)
          /\ \A h \in Proc, c \in Map : Frees(h, c)' <=> Frees(h, c)
          /\ \A h \in Proc, c \in Map : \A t : Takes(h, t, c)' <=> Takes(h, t, c) \/ (h = g /\ t = a /\ c = b)
          /\ m' = m
      BY <2>3, <3>1 DEF BorrowLockReceiver, TypeOK, Adding, Frees, Takes
    <3>6. \A q \in Block : Owns(b, q) <=> q \in m[b]
      BY <3>1, <3>3, <3>4 DEF Owns
    <3>7. \A q \in Block, c \in Map : Owns(c, q)' <=> IF q \in m[b] THEN c = a \/ (Owns(c, q) /\ c # b) ELSE Owns(c, q)
      BY <3>1, <3>3, <3>4, <3>5, <3>6 DEF Owns
    <3>8. \A q \in Block : OwnerOf(q)' = IF OwnerOf(q) = b THEN a ELSE OwnerOf(q)
      <4> TAKE q \in Block
      <4>1. CASE q \in m[b]
        BY <3>1, <3>6, <3>7, <4>1 DEF OwnersKnown
      <4>2. CASE q \notin m[b]
        BY <3>1, <3>5, <3>6, <3>7, <4>2 DEF OwnersKnown
      <4> QED BY <4>1, <4>2
    <3> QED BY <3>8 DEF Ledger!TakeOver
  <2>4. ASSUME NEW g \in Proc, FreeLock(g)
        PROVE  \E a \in Map : Ledger!Release(a)
    <3>1. PICK a \in Map : a = call[g].a /\ call[g].at = "free.lock"
      BY <2>4 DEF FreeLock, Arguments
    <3>2. \A h \in Proc : ~HoldsWrite(h, a)
      BY <2>4, <3>1, NobodyAssumption DEF FreeLock, CanLock, Locks
    <3>3. \A h \in Proc, t \in Map : ~Frees(h, a) /\ ~Takes(h, t, a) /\ ~Takes(h, a, t)
      BY <3>1, <3>2, TakersAndFreersLock
    <3>4. /\ \A h \in Proc, q \in Block : Adding(h, q)' <=> Adding(h, q)
          /\ \A h \in Proc, c \in Map : Frees(h, c)' <=> Frees(h, c) \/ (h = g /\ c = a)
          /\ \A h \in Proc, c \in Map : \A t : Takes(h, t, c)' <=> Takes(h, t, c)
          /\ m' = m
      BY <2>4, <3>1 DEF FreeLock, TypeOK, Adding, Frees, Takes
    <3>5. \A q \in Block, c \in Map : Owns(c, q)' <=> c # a /\ Owns(c, q)
      BY <3>1, <3>3, <3>4 DEF Owns
    <3>6. \A q \in Block : OwnerOf(q)' = IF OwnerOf(q) = a THEN Nobody ELSE OwnerOf(q)
      BY <3>1, <3>4, <3>5, KindsAssumption, NobodyAssumption DEF OwnersKnown
    <3> QED BY <3>6 DEF Ledger!Release
  <2>5. ASSUME NEW g \in Proc, BorrowMove(g)
        PROVE  owner' = owner
    <3>1. PICK a \in Map, b \in Map :
                 a = call[g].a /\ b = call[g].b /\ a # b /\ Takes(g, a, b)
      BY <2>5 DEF BorrowMove, Arguments, Borrowing, Takes
    <3>2. PICK p \in m[b] : m' = Moved(a, b, p)
      BY <2>5, <3>1 DEF BorrowMove
    <3>3. p \in Block
      BY <3>1, <3>2 DEF TypeOK
    <3>4. \A h \in Proc : ~Frees(h, a) /\ ~Frees(h, b) /\ \A t \in Map : ~Takes(h, t, a)
      BY <3>1, Exclusion, TakersAndFreersLock DEF Takes, Frees
    <3>5. /\ \A h \in Proc, q \in Block : Adding(h, q)' <=> Adding(h, q)
          /\ \A h \in Proc, c \in Map : Frees(h, c)' <=> Frees(h, c)
          /\ \A h \in Proc, c \in Map : \A t : Takes(h, t, c)' <=> Takes(h, t, c)
      BY <2>5 DEF BorrowMove, Adding, Frees, Takes
    <3>6. \A c \in Map, q \in Block \ {p} : q \in m'[c] <=> q \in m[c]
      BY <3>1, <3>2 DEF TypeOK, Moved
    <3>7. \A c \in Map, q \in Block \ {p} : Owns(c, q)' <=> Owns(c, q)
      BY <3>5, <3>6 DEF Owns
    <3>8. p \in m'[a]
      BY <3>1, <3>2 DEF TypeOK, Moved
    <3>9. Owns(a, p) /\ Owns(a, p)'
      BY <3>1, <3>2, <3>4, <3>5, <3>8 DEF Owns
    <3>10. \A q \in Block : OwnerOf(q)' = OwnerOf(q)
      BY <3>1, <3>3, <3>5, <3>7, <3>9 DEF OwnersKnown
    <3> QED BY <3>10 DEF owner
  <2>6. ASSUME NEW g \in Proc, FreeDelete(g)
        PROVE  owner' = owner
    <3>1. PICK a \in Map : a = call[g].a /\ Frees(g, a)
      BY <2>6 DEF FreeDelete, Arguments, Frees
    <3>2. /\ \A h \in Proc, q \in Block : Adding(h, q)' <=> Adding(h, q)
          /\ \A h \in Proc, c \in Map : Frees(h, c)' <=> Frees(h, c)
          /\ \A h \in Proc, c \in Map : \A t : Takes(h, t, c)' <=> Takes(h, t, c)
      BY <2>6 DEF FreeDelete, TypeOK, Adding, Frees, Takes
    <3>3. \A c \in Map \ {a} : m'[c] = m[c]
      BY <2>6, <3>1 DEF FreeDelete, TypeOK
    <3>4. \A c \in Map, q \in Block : Owns(c, q)' <=> Owns(c, q)
      BY <3>1, <3>2, <3>3 DEF Owns
    <3> QED BY <3>2, <3>4, OwnersUndisturbed
  <2>7. ASSUME NEW g \in Proc, FreeUnlock(g) \/ BorrowUnlockReceiver(g)
        PROVE  owner' = owner
    <3>1. \A h \in Proc, q \in Block : Adding(h, q)' <=> Adding(h, q)
      BY <2>7 DEF FreeUnlock, BorrowUnlockReceiver, TypeOK, Adding
    <3>2. \A c \in Map, q \in Block : Owns(c, q)' <=> Owns(c, q)
      BY <2>7, OwnsUndisturbed DEF FreeUnlock, BorrowUnlockReceiver, TypeOK, Frees, Takes
    <3> QED BY <3>1, <3>2, OwnersUndisturbed
  <2>8. ASSUME NEW g \in Proc,
               \/ AddLock(g) \/ IsEmptyLock(g) \/ IsEmptyLen(g) \/ BorrowLockArgument(g)
               \/ BorrowUnlockArgument(g) \/ FreeBlock(g)
               \/ \E a, b \in Map : BorrowCall(g, a, b)
               \/ \E a \in Map : FreeCall(g, a)
        PROVE  owner' = owner
    <3>1. /\ \A h \in Proc, q \in Block : Adding(h, q)' <=> Adding(h, q)
          /\ \A h \in Proc, c \in Map : Frees(h, c)' <=> Frees(h, c)
          /\ \A h \in Proc, c \in Map : \A t : Takes(h, t, c)' <=> Takes(h, t, c)
          /\ m' = m
      BY <2>8 DEF AddLock, IsEmptyLock, IsEmptyLen, BorrowLockArgument, BorrowUnlockArgument,
        FreeBlock, BorrowCall, FreeCall, TypeOK, Adding, Frees, Takes
    <3> QED BY <3>1, OwnsUndisturbed, OwnersUndisturbed
  <2>9. CASE UNCHANGED vars
    <3>1. /\ \A h \in Proc, q \in Block : Adding(h, q)' <=> Adding(h, q)
          /\ \A h \in Proc, c \in Map : Frees(h, c)' <=> Frees(h, c)
          /\ \A h \in Proc, c \in Map : \A t : Takes(h, t, c)' <=> Takes(h, t, c)
          /\ m' = m
      BY <2>9 DEF vars, Adding, Frees, Takes
    <3> QED BY <3>1, OwnsUndisturbed, OwnersUndisturbed
  <2> QED
    BY <2>1, <2>2, <2>3, <2>4, <2>5, <2>6, <2>7, <2>8, <2>9
    DEF Next, Calls, Step, Acquisition, Progress, Ledger!Next
<1>3. IInv => OwnersKnown
  BY OwnerIs
<1> QED BY Inductive, <1>1, <1>2, <1>3, PTL DEF Spec, LedgerSpec, Ledger!Spec, owner
=============================================================================
