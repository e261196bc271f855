# Verification of nix-go-bindings

nix-go-bindings exposes the Nix C API to Go. This directory models the parts of
the repository that have behaviour of their own, checks them with TLC on small
instances, and proves facts about the core with TLAPS for all instances. Names
in the modules are those of the source; `PROJECT.json` maps every definition to
its lines.

Contents: 1 the system, 2 the modules, 3 the runs and their bounds, 4 fairness,
5 what disagrees with the documentation, 6 the proofs, 7 assumptions,
8 what is not modelled, 9 the plan.

## 1. The system

Three layers, of which the first two are generated by c-for-go:

    Go caller -> nix.go (wrappers) -> cgo_helpers.go (C memory of arguments)
              -> nix_go_*.c, nix_go_*_cpp.cc (shims) -> the Nix libraries

| component | where | state | operations |
|---|---|---|---|
| result collectors | nix_go_store.c:260-563 | a growing array with length, capacity and a `failed` latch | realise_to_array, get_fs_closure_array, accessors, free |
| allocation maps | cgo_helpers.go:69-117 | a set of C pointers under a RWMutex, one per marshalled value | Add, IsEmpty, Borrow, Free; finalizer |
| marshalling | cgo_helpers.go:905-2220, types.go | per struct: the cached C object and its map; the C heap | PassRef, PassValue, Free, Deref, unpack*, pack* |
| wrappers | nix.go | none; a call keeps its maps alive until it returns | one function per C function |
| interruption | nix_go_interrupt_cpp.cc | process-global flag and callbacks, daemon connections | InterruptRequest, InterruptClear, StoreInterrupt |
| argument packers | nix_go_store.c:63-139, nix_go_expr.c:60-155 | a NULL-terminated C array for the time of one call | pack, call Nix, free |
| flake reference result | nix_go_flake.c:5-193 | a reference and a fragment, each still there or taken | from_string, take_reference, take_fragment, free |
| string getters, error contexts | nix_go_util.c, nix_go_store.c, nix_go_expr.c, nix_go_flake_cpp.cc | one captured string per call; the error on a context | capture callback, getters, readers of errors |
| GC adapter | nix_go_store_cpp.cc | converted options, result vectors | temporary and permanent roots, find_roots, collect_garbage, accessors |
| log sinks | nix_go_main_cpp.cc, nix_go_main.c | the process-global logger of Nix | LogSinkInstall, SetLogFormat |
| handles, values, builders | nix_go_expr.c, nix_go_flake.c, nix_go_store.c | none: the shim forwards | forwarders |

How they interact. A wrapper asks `cgo_helpers.go` for the C form of its
arguments, which allocates blocks and lists them in allocation maps; the shim
packs arrays again into the form Nix wants (argument packers), calls Nix, and
collects what Nix shows it in callbacks (result collectors, string getters,
flake references). Results go back as opaque handles or as strings that the
caller frees. Every call has an error context, cleared on entry.

What is hard here. Nothing in the bindings runs on its own. Concurrency enters
through the caller's goroutines, the goroutines that finalizers start
(`go a.Free()`), the Go collector, which does not see what C still reads, and
the process-global state of Nix (interrupt flag, logger). Failure enters through
allocation (every shim copies, inside callbacks that cannot report), through
Nix, and through NULL or inconsistent arguments. Nothing is persisted and there
is no messaging of the bindings' own, so crashes and lost messages do not occur,
except for the daemon and the network that may never answer (interruption).

What makes each component correct:

- *Result collectors*: a list is complete or there is none; writes stay in the
  array; nothing leaks whichever allocation fails; NULL and an error come together.
- *Allocation maps*: an allocated block is listed once, a freed one never,
  whatever calls overlap; calls return.
- *Marshalling and wrappers*: native code never reads freed memory; no block is
  freed twice; memory can be given back.
- *Interruption*: it ends the operation it is aimed at, and no other; no handle
  is used after it is freed.
- *Argument packers*: Nix sees everything or is not called; error paths give
  back what they took.
- *Flake reference result*: each part has one owner at all times.
- *String getters*: NULL is explained; the error that is read is the right one.
- *GC adapter*: a collection deletes what was asked for and no more; roots protect;
  what an accessor returns is one entry of the list.
- *Log sinks*: there is a logger between calls; every sink gets every event.

`PROJECT.json` lists the hazards, each at its line, with the properties for it, or with
the reason why none covers it (most often an assumption of section 7).

## 2. The modules

Each component is a module of its own with its state as VARIABLES and one action
per operation or step; `MC*.tla` gives constants their values. Definitions
under a comment "Defect:" are variants that no specification uses: each is a
plausible mistake in the definition that follows it or that it names, and shows
that a property can fail.

**ResultList** is what a result handle promises: nothing, then the complete list
or NULL, and a list that does not change until it is freed. **ResultCollector**
is `nix_go_store.c`: `Begin`/`BeginFails` are the `calloc` of the struct, one
action for each way a callback can end (`AppendLatched`, `GrowFails`,
`CopyFails`, `Append1`), `NixFails`/`NixSucceeds` the code after the native
call, `Clone` and `FreeHandle` the accessors and the free function. Both
collectors are one module: they differ in the first capacity, the words per
slot, the copies per element, and in who records an error (only the closure
callback has the context). `size_t` arithmetic is modulo `SizeModulus`. It
implements ResultList.

**AllocLedger** is the allocation maps without locks: every block has at most
one owner, a map takes over another in one piece. **CgoAllocMap** is
`cgo_helpers.go:69-117`, cut at every lock, at every iteration of the loops, and
between `C.free` and `delete`. `Borrow` is IsEmpty (read lock), the argument's
lock, the receiver's lock, the loop, the two unlocks. `sync.RWMutex` is
modelled from its documentation (`CanLock`, `CanRLock`, `Unlock`): a waiting
writer keeps new readers out, and unlocking lets the waiting readers in.
It implements AllocLedger: a Borrow takes effect when it has its last lock.

**GoStructs** and **GoGetters** hold no state. c-for-go generates the same code for
every struct and every wrapper but for a few differences, and a record of these
modules is those differences: for each of the ten wrapping structs the byte
slices, the slice of structs and the nested struct it has; for each of the 26
wrappers that marshal a struct or a string, what they marshal and how; for each
of the 18 getters of a string, its contexts and its shim, and for each shim how
Nix shows it the string and whether it reports a copy that fails.

**Marshal** composes structs, maps, wrappers and the Go collector over trees of
variables of the types in GoStructs. It uses the maps at the level of AllocLedger,
one step per operation. `PassRef`, `Free` and `Deref` are the methods of the
generated structs: marshalling a variable marshals the parts below it, down
to those that cache a C object, whose pointers are used as they are (`Needs`,
`Reach`); Deref gives each part a C object that points into the memory of the
whole (`ReadBack`), drops the map that the part had, and makes the byte slices of
the variable point into C memory (`slices`). `CallByValue`,
`CallByPointer` and `CallWithStrings` are the three sorts of wrappers, with the
strings they copy, `Return` the point after the `KeepAlive`s; `Collect` is a map
becoming unreachable, with a finalizer (unpack helpers) or without (PassRef). A C
value is the block it is in and, for each part, the blocks its pointers reach;
native code may read all of them. Blocks are named after the place that
allocates them (`Block`), and a place has few of them (`Copies`), so that an address is
soon reused after it is freed.

**Interrupt** is one operation of a worker goroutine, one canceller, and the
store's life. The operation itself is Nix's and external: it polls the flag,
then blocks on a daemon connection or on a transfer, and each check and the
blocking after it are separate steps. The canceller's call is the sequence of
steps of the shim (`StoreInterruptSteps`): check arguments, raise the flag, run
the callbacks, cast the handle, shut the connections down.

**ArgumentPack** is the three packers with the functions around them; the kind
of the argument is chosen per call. `PairFails` and `CopyFails` are the two
error paths of the loop. `dropped` is a history variable for what `PairFails` loses.

**FlakeReference** is one parse at a time and the handles of earlier ones. The
callback and the creation of the reference come in either order.

**StringGetter** is one getter call at a time, of any in GoGetters, among calls
that leave errors on contexts. `Shown` is Nix's callback or pointer, `ShownGift`
memory to be freed, `ReturnAbsent` a flake without a fingerprint, the one NULL
that is no failure. `passed` are the contexts Nix is given, `call` those Go passed.

**StoreGC** is `collect_garbage` from the marshalled options to the handle, with
roots added at any time, and `find_roots` with the accessors of both handles.
Options are checked in the order of the code; Nix's collector is external, one
path per step, and may throw at any point.

**LogSinks** is the process-global logger as the list of its sinks. `InstallCall`,
`Refused`, `Open`, `Move`, `Abort` and `Assign` are `go_nix_log_sink_install` statement by
statement; between `Move` and `Assign` the logger is null. `SetLogFormat` replaces
it, `Log` is an event of an operation, `Abort` the `std::abort` after which another
process starts (`Restart`) and finds the files that the sinks had written.
`due` is a history variable for what each destination should hold.

## 3. The runs and their bounds

| run | module | checks | distinct states |
|---|---|---|---|
| Collect | MCResultCollector | TypeOK, InBounds, AllOrNothing, NoLeak, SingleOwner, ErrorReported, ListSpec | 280,000 |
| AllocMap | MCCgoAllocMap | TypeOK, OneHolder, LockedWrites, LedgerSpec, CallsReturn | 29,000 |
| Marshal | MCMarshal | TypeOK, NoDanglingRead, CachedIsAlive, ListedOnce, Reclaimable | 39,000 |
| Interrupt | MCInterrupt | TypeOK, OnlyTheAimedFails, NoUseAfterFree, StoreInterruptEnds, RequestEnds | 2,500 |
| Pack | MCArgumentPack | TypeOK, AllOrReported, OnlyPairsLeak | 12,500 |
| FlakeParts | MCFlakeReference | TypeOK, NoLeak, OneOwner, CompleteOrReported | 240,000 |
| Getters | MCStringGetter | TypeOK, NullExplained, NoLeak, ErrorRead | 26,000 |
| CollectGarbage | MCStoreGC | TypeOK, OutcomeExplained, DeletesAsAsked, RootsProtect | 40,000 |
| LogSinks | MCLogSinks | LogTypeOK, LoggerIsThere, EverySinkGetsEverything | 39,000 |
| InterruptAsDocumented | MCInterrupt | NoUseAfterFree is violated | |
| PassValueLeak | MCMarshal | PassValueReclaimable is violated | |
| PackParamsLeak | MCArgumentPack | NoLeak is violated | |

What they show and why the bounds are enough:

- **Collect.** With words of 64 and objects of at most 31 words (malloc grants
  at most half of `size_t`), the arrays grow to 4 and 8 slots, or to 8 and 16, and
  the next growth is refused; 18 deliveries (`MaxDelivered`) go beyond the largest
  array, so growth, refusal and the latched rest all occur, with every
  allocation failing or not. One accessor copy (`MaxClones`) is enough for a
  copy to be freed before or after the handle or to outlive it into the next
  call. 36 addresses never run out before the bounds do. The proofs of section 6
  remove all of these bounds.
- **AllocMap.** The two maps of a `PassRef` (the struct's own and its field's), two
  addresses, so a Borrow moves more than one pointer and an address is reused
  while a Free is between its two steps; three goroutines, two that hold or wait
  for locks and one that overtakes. No symmetry, since CallsReturn is a liveness
  property. Longer chains of maps only repeat the pair: the argument of a Borrow
  is the map of a call that has returned, which no other goroutine has yet (`MayBorrow`),
  so two Borrows never take the locks of two maps in opposite orders.
- **Marshal.** Callers have one of two sets of variables (`Holdings`): options with a
  list that has an item, which is a nested struct over a slice over a leaf; or
  parameters with one parameter, which has two byte slices, and a hash part, the
  one struct that is passed by pointer. Two goroutines call any of the 26 wrappers
  that fit. `Copies` = 2: marshalling stops when two blocks of one place are in
  use, which is one for the variable and one for a copy of it or a call that goes
  on; `MaxStrings` = 2, which the wrappers with most strings need. `MaxLost` = 1: one
  loss, after which every operation that loses nothing goes on.
- **Interrupt.** One remote and one local store, which the caller replaces by
  either, any number of operations and of cancellations one after the other, each
  late or early. No other bound.
- **Pack.** Up to two parameters or three strings or values: a failure at the
  first, a middle and the last entry, with NULL items and every length.
- **FlakeParts.** Two handles (`MaxResults`) and three objects taken from them
  (`MaxTaken`).
- **Getters.** Two contexts, so a reader of errors has one to read and one to
  report on; two strings in the caller's hands (`MaxOwned`). All 18 getters.
- **CollectGarbage.** Two paths, one link, lists of at most one item
  (`MaxPaths`), limits from 0 to 2: a path asked for and one that was not, a NULL
  item, NULL items with a length, an action that is no enumerator. Roots are listed
  between collections only: a list is a snapshot that a collection does not touch.
- **LogSinks.** Two destinations and three sinks (`MaxSinks`), so that one destination
  is installed twice; three events (`MaxEvents`), so that one can come before, between
  and after two changes of the logger.

Three type invariants say more than the shape of the state: in Interrupt, that a
cancelling call without a context or a store is still at its arguments; in Marshal, that a
variable keeps only maps that a PassRef made for it, never one of an unpack helper; in
FlakeReference, that no result handle is NULL.

Symmetry is used in runs without liveness only. No configuration switches the
deadlock check off: in every model some caller can always act, so a state with
no step would be an error.

## 4. Fairness

Only two specifications state any. `CgoAllocMap!FairSpec` (run AllocMap): a goroutine that can
run is run (weak fairness of `Progress`), and a waiter for a mutex that is free
again and again gets it (strong fairness of `Acquisition`), which is Go's
starvation mode for `sync.Mutex`, on which RWMutex rests. `Interrupt!FairSpec` (run Interrupt):
Nix's own steps and the canceller's are taken (weak fairness of `NixStep`,
`CancelStep`). The daemon and the network (`Answer`) never have to answer and
the caller never has to do anything: that StoreInterrupt ends an operation that
waits for a silent daemon is exactly what is checked. `InterruptRequest` alone
does not (`RequestEnds` excludes "io").

## 5. Where code and documentation disagree

1. **InterruptAsDocumented.** `nix_go_interrupt_cpp.cc:50` raises the flag, line 53
   reads the store handle. The README and `nix_go_store.h:68-69` ask the caller to
   wait for the active call to return and then to discard the store; between
   the two lines that call may have returned and the store be gone. The caller must
   also wait for StoreInterrupt. With that (`WaitsForInterrupter = TRUE`) the run
   Interrupt finds no use after free.
2. **PassValueLeak.** `PassValue` has a value receiver: `PassRef` inside it caches
   the C object and the map in a copy. No `Free` reaches that memory and a struct's
   map has no finalizer, so each call with a fresh struct by value loses its
   block and what it borrowed. A caller that calls `PassRef` first does not lose
   anything (run Marshal: `Reclaimable`; the only other loss is `Deref` of a struct
   whose parts had been marshalled on their own).
3. **PackParamsLeak.** When the `calloc` of a pair fails, `nix_go_store.c:92` frees the
   pairs before it but not their strings. The other error path, at line 105, frees
   both. `OnlyPairsLeak` (run Pack) shows that nothing else is ever lost.

## 6. The proofs

Every component that has a state is proved about, in a module `<component>_proofs.tla` that
extends the component's. Interrupt and LogSinks, of which a process has one each, share
**ProcessState_proofs**, which extends both; the specification of LogSinks is `LogSpec`. Each
theorem is about the component's specification and holds for all values of the constants that
satisfy the assumptions in the component's module, so that the bounds of section 3 are gone.

| module | theorem | says |
|---|---|---|
| ResultCollector | TypeCorrect | `Spec => []TypeOK` |
| | WritesInBounds | `Spec => []InBounds` |
| | HandleIsComplete | `Spec => []AllOrNothing` |
| | NothingLeaks | `Spec => []NoLeak` |
| | OwnersAreDisjoint | `Spec => []SingleOwner` |
| | FailureIsReported | `Spec => []ErrorReported` |
| | CollectorImplementsList | `Spec => ListSpec`, the refinement of ResultList |
| CgoAllocMap | TypeCorrect | `Spec => []TypeOK` |
| | BlocksHaveOneHolder | `Spec => []OneHolder` |
| | WritesAreLocked | `Spec => LockedWrites` |
| | MapsImplementLedger | `Spec => LedgerSpec`, the refinement of AllocLedger |
| Interrupt | TypeCorrect | `Spec => []TypeOK` |
| | CancellationIsAimed | `Spec => []OnlyTheAimedFails`, if `WaitsForInterrupter` |
| | StoresOutliveTheirUse | `Spec => []NoUseAfterFree`, if `WaitsForInterrupter` |
| Marshal | TypeCorrect | `Spec => []TypeOK` |
| | NativeNeverReadsFreed | `Spec => []NoDanglingRead` |
| | CachesStayAlive | `Spec => []CachedIsAlive` |
| | NothingIsListedTwice | `Spec => []ListedOnce` |
| | NothingElseIsLost | `Spec => []Reclaimable` |
| ArgumentPack | TypeCorrect | `Spec => []TypeOK` |
| | NothingIsCutShort | `Spec => []AllOrReported` |
| | OthersGiveBack | `Spec => []OnlyPairsLeak` |
| FlakeReference | TypeCorrect | `Spec => []TypeOK` |
| | NothingLeaks | `Spec => []NoLeak` |
| | OwnersAreDisjoint | `Spec => []OneOwner` |
| | HandleIsComplete | `Spec => CompleteOrReported` |
| StringGetter | TypeCorrect | `Spec => []TypeOK` |
| | FailureIsReported | `Spec => []NullExplained` |
| | NothingLeaks | `Spec => []NoLeak` |
| | ErrorIsTheOneHeld | `Spec => []ErrorRead` |
| StoreGC | TypeCorrect | `Spec => []TypeOK` |
| | OutcomesAreExplained | `Spec => []OutcomeExplained` |
| | DeletionsAreAsked | `Spec => DeletesAsAsked` |
| | RootsAreHonoured | `Spec => RootsProtect` |
| LogSinks | LogTypeCorrect | `LogSpec => []LogTypeOK` |
| | LoggerIsNeverMissing | `LogSpec => []LoggerIsThere` |
| | SinksGetEverything | `LogSpec => []EverySinkGetsEverything` |

All follow one argument. `IInv` is a conjunction of named parts with the types; `InitIInv`
proves that it holds at first and `NextIInv`, with one step per action, that every step
preserves it; each theorem is a consequence of `IInv`, or, for an action property or a
refinement, of `IInv` and the step. TLC has checked each `IInv` on the component's run.

**Assumptions.** NULL is no address, path, link or logger (`NullAssumption`); bounds are numbers;
the allocator has finitely many addresses (ArgumentPack) and a store finitely many
paths and links (StoreGC, `FiniteAssumption`): a list of a set's elements, and a choice of fresh
blocks, need that. In Marshal a variable is a part of one other at most (`PartsAssumption`), as Go
structs hold their parts by value; if two shared a part that was read back out of one, a `Free` of that
one would free what the other reaches. ResultCollector's `AllocatorAssumption` is that malloc
refuses objects above half of `size_t`, which is wider than 16 words.
It is what makes the code right: the test `new_cap < cap` alone would not notice that
`new_cap * sizeof(*slot)` wrapped around, and lemma `GrowthDoesNotWrap` needs that the
array before was below the limit. `WaitsForInterrupter` is a hypothesis of two theorems and not an
assumption of the module: without it `NoUseAfterFree` is false, see section 5.

Why the invariants are needed:

- **ResultCollector**, `TypeOK /\ Sound(results, heap) /\ Progress`. `InBounds` needs the exact
  size of the array and its limit (`Sized`). `NoLeak` needs that blocks are not shared
  (`Exclusive`), else freeing one owner's would take another's; both need that an
  address malloc returns was not allocated, that is `NoLeak`. `AllOrNothing` and
  `ErrorReported` need what holds in the middle of a call: as long as no append
  has failed, every delivered element is stored in its place and the context is
  clean (`Progress`). Lemmas `RoomIsSound`, `AppendIsSound` and `LatchIsSound` carry
  `Sound` over the two halves of a callback, whose intermediate heap is no state of
  the specification.
- **CgoAllocMap**, `TypeOK /\ Arguments /\ Locks /\ Owned`. `OneHolder` fails
  if two goroutines are in the loop of a Borrow or a Free of one map. `Locks` says who holds what
  at each label, and that a writer is alone; `Owned` says that a block is one goroutine's
  to add, or listed by one map, or free, where a block between `C.free` and `delete` counts as free.
  For the refinement the ledger's owner of a block is read off the maps and the goroutines
  (`OwnerIs`, `OwnersKnown`): a step inside a loop changes none, and is a stutter.
- **Marshal**, 13 parts. That native code and cached C objects reach allocated memory only (`NoDanglingRead`,
  `ReachedIsAlive`) can be broken by `Free` alone, and by the collector. It follows from where memory
  is: what a variable lists in its map was allocated for the variable and what is below it
  (`ListsOwnMemory`), pointers lead downwards (`PointsBelow`), a native function reads what is below an
  argument, and arguments are whole (`ReadsArguments`). One case is left: a part that caches a C object may
  be marshalled before its whole, or read back out of it. `OthersReachNothing` says that only parts of the second
  sort reach what the whole lists, and these are the ones that `MayFree` looks at. `ListedOnce` and
  `Reclaimable` (as `ListsApart` and `CanBeFreed`) need that a new map is an empty one, and that what
  is lost stays in no map (`LostForEver`). The four ways to marshal (PassRef and the three sorts of calls) are
  one step to the proof (`Allocates`): fresh blocks, fresh strings, and a map that lists them.
  Lemmas under them say what the recursive functions of the model compute: `BelowIs`, `NeedsIs`, `ReachIs`. None
  needs induction, because the types generated nest at most twice (`StructsNest`): each lemma goes up
  from items to nested structs to whole ones. First, though, they show that the recursion has a solution
  (`BelowEquation`, `NeedsEquation`, `ReachEquation`), since to the prover a recursive function is a CHOOSE.
- **Interrupt**. A failed call can be blamed on its own cancellation only if nothing of
  an earlier one is left: the flag (`FlagIsAimed`), the callbacks' effect (`WakeIsAimed`), a
  connection that is shut on a store that is open (`ShutIsAimed`), a canceller with steps to
  take (`Canceller`, which lists what can remain of a call). The caller's wait is
  needed in two steps, `GoOn` and `InterruptClear`.
- **ArgumentPack**. `Held` accounts for every allocated block: what failed pairs lost, what is packed,
  the array, and these do not overlap, else `PairFails` would free what is counted as lost.
  `Copied` says that only values are entries without blocks, so that the loop that stops at a NULL
  entry sees every string.
- **FlakeReference**, `TypeOK /\ NoLeak /\ OneOwner /\ InPhase`. What a parse holds depends on
  whether the callback or the reference came first (`InPhase`); `NoLeak` and `OneOwner` need each
  other as in ResultCollector.
- **StringGetter**. `Memory` says whose each block is while a getter runs; `CallKnown` that the context to
  report on is clean until something fails, and that the copy of an error is that error.
- **StoreGC**. `RootsProtect` needs that a promised path has a root at every moment of a collection
  (`Rooted`), `DeletesAsAsked` that the options Nix works with are still those of a request that
  passed every test (`Accepted`).
- **LogSinks**. `SinksKept` says that the installed sinks are the logger's or, between `Move` and
  `Assign`, the tee's.

Lemmas about operators that these rest on: `SetToSeqLists` (a set in some order lists each element
once), `SubsetOfSize` and `FreshIs` (a set of fresh blocks of the size asked for), `OneMore` (one
entry more), `StoreRests` (what remains of a call), `RootsAreFinite`, `GettersAre`.

Only model-checked: liveness (`CallsReturn`, `StoreInterruptEnds`, `RequestEnds`), because fairness and
ENABLED are out of the prover's reach. Every other property of the runs that pass is proved. What Marshal
takes for granted, that maps behave like AllocLedger, is proved too (MapsImplementLedger), but not that
Marshal with the maps of CgoAllocMap in place of sets has the properties of Marshal. The three
runs of section 5 that find a violation have nothing to prove. No module has recursive operators.

## 7. Assumptions about callers and about Nix

- A caller does not `Free` a struct while a call is running that was given it or
  one it is a part of, nor one whose parts it has read back with `Deref`, which
  still point into it, nor one whose byte slices `Deref` has made point into its
  memory, until it has assigned others, nor a part of a struct that is marshalled
  (`MayFree`). The generated code checks none of this; `CachedIsAlive` and `NoDanglingRead` need
  all of it.
- One Go variable per struct, which is in one place (`PartsAssumption`): copying a struct by assignment after `PassRef`
  copies its C object and its map.
- `Len` fields agree with the slices, or the slice is nil: the README lists
  anything else as a limitation. `cgoAllocsUnknown` is always empty and is left out.
- The readers of errors report on another context than the one they read; with equal
  contexts the error is cleared before it is read, which no run shows.
- The caller of the flake parser and of the GC adapter passes a context.
- Callers install sinks one at a time and not while an operation runs, as the
  README's order asks: the shim has no lock around the global logger.
- An empty slice marshals like a nil one, but for a block of no bytes. A slice of
  structs that the caller has not made stays nil: Deref fills elements, it makes none.
- Nix fails a parse only before it hands out the reference; `nix_get_typename`
  returns NULL only with an error; a native call clears its context on entry.
- A store's connections go down on every platform but Windows, whose build only
  raises the flag; Interrupt models the others.
- ErrMsg returns NULL without an error when its copy fails (`NullExplained`
  excludes it by name). A permanent root stays although the call that made it
  reports a failure to copy its path (`AddPermanentRoot`). Nothing in the repository
  says otherwise.

## 8. What is not modelled

- In StoreGC: temporary roots in the list (a list shows the permanent ones) and the
  `censor` flag, which is handed to Nix.
- In Marshal: what the fields of a struct hold; only the blocks they point to.
- Opaque handles, values and builders: each shim forwards to one function of
  Nix and keeps no state, so that a model would restate Nix's documentation. The
  wrappers for them convert numbers and pointers. Their Go side (`Ref`, `Free`,
  `New...Ref`) converts pointers too, and the README tells callers not to use `Free`.
- `InitPlugins`, `LibutilInit` and the like forward, as do `SetVerbosity` and `ErrCode`.
- Constants, documentation, the generator's configuration, the shell.

## 9. The plan

Done, in this order: ResultList, ResultCollector and its proofs; AllocLedger and
CgoAllocMap; Interrupt; GoStructs and Marshal; ArgumentPack; FlakeReference; GoGetters
and StringGetter; StoreGC; LogSinks.

Then the proofs of section 6: ResultCollector, CgoAllocMap, FlakeReference, LogSinks, StringGetter,
StoreGC, ArgumentPack, Interrupt, Marshal.

Left: a copy of a struct that was marshalled, and a change of its Go fields after `PassRef`, which
section 7 excludes; Marshal over the maps of CgoAllocMap, as a composition; and the liveness
properties, should a prover for fairness be at hand.
