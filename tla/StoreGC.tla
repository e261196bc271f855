-------------------------------- MODULE StoreGC --------------------------------
(***************************************************************************)
(* The garbage-collection adapter, nix_go_store_cpp.cc: adding roots,      *)
(* listing them, and collecting.  The C options that Go marshalled are     *)
(* checked and turned into nix::GCOptions, Nix collects, and what it       *)
(* reported is copied into a handle.                                       *)
(*                                                                         *)
(* Nix's collector is modelled from what the adapter asks of it: it takes  *)
(* one path at a time, other goroutines and processes add paths and roots  *)
(* meanwhile, and it may throw at any point.  A path is one unit of        *)
(* max_freed.  Every call is given a context.  Roots are listed between    *)
(* collections only, to bound the states: a list is a snapshot.            *)
(***************************************************************************)
EXTENDS Naturals, Sequences, FiniteSets, SequencesExt

CONSTANTS
  Path,      \* store paths
  Link,      \* places outside the store that a root can be made at
  Null,      \* the null pointer
  MaxPaths   \* bound: entries of paths_to_delete

ASSUME NullAssumption == Null \notin Path \cup Link
ASSUME FiniteAssumption == IsFiniteSet(Path) /\ IsFiniteSet(Link)
ASSUME BoundAssumption == MaxPaths \in Nat

VARIABLES
  valid,     \* the paths in the store
  temp,      \* those with a temporary root
  links,     \* the permanent roots of each path
  granted,   \* history: paths whose root the caller was told of and still has
  at,        \* where the collection is
  request,   \* the options Go passed
  options,   \* the nix::GCOptions made of them
  reported,  \* what the collector has put in nix::GCResults
  results,   \* the handle on the results, or Null
  ctxErr,    \* the context of the collection holds an error
  roots,     \* the handle on the roots that were listed, or Null
  found,     \* history: the permanent roots there were then, while it exists
  told       \* what the accessors gave the caller, Null where they gave NULL

world == <<valid, temp, links, granted>>
gc == <<at, request, options, reported, results, ctxErr>>
listing == <<roots, found, told>>
vars == <<valid, temp, links, granted, at, request, options, reported,
          results, ctxErr, roots, found, told>>

-----------------------------------------------------------------------------
(* Options.  An action is a number in C; 4 stands for all that are no       *)
(* enumerator.  A list is its items and its length: NULL items may come     *)
(* with a length, and an item may be NULL.                                  *)

ReturnLive == 0
ReturnDead == 1
DeleteDead == 2
DeleteSpecific == 3

Lists ==
  {[items |-> items, len |-> Len(items)] :
     items \in UNION {[1 .. n -> Path \cup {Null}] : n \in 0 .. MaxPaths}}
  \cup {[items |-> << >>, len |-> 1]}

Requests ==
  [store : {"null", "other", "gc"}, action : 0 .. 4, ignoreLiveness : BOOLEAN,
   paths : Lists, maxFreed : 0 .. Cardinality(Path)]

NoOptions == [action |-> "none", ignoreLiveness |-> FALSE, paths |-> {}, maxFreed |-> 0]
NoRequest == [store |-> "null", action |-> 0, ignoreLiveness |-> FALSE,
              paths |-> [items |-> << >>, len |-> 0], maxFreed |-> 0]

Listed(r) == {r.paths.items[i] : i \in DOMAIN r.paths.items}

(* Defect: two actions are mixed up. *)
ActionToCppSwapped(action) ==
  CASE action = ReturnLive -> "gcReturnLive"
    [] action = ReturnDead -> "gcDeleteDead"
    [] action = DeleteDead -> "gcReturnDead"
    [] action = DeleteSpecific -> "gcDeleteSpecific"

ActionToCpp(action) ==
  CASE action = ReturnLive -> "gcReturnLive"
    [] action = ReturnDead -> "gcReturnDead"
    [] action = DeleteDead -> "gcDeleteDead"
    [] action = DeleteSpecific -> "gcDeleteSpecific"

(* Defect: NULL items are taken for no items. *)
UsageErrorLate(r) == r.store = "null" \/ r.action > DeleteSpecific

(* What the adapter refuses before it looks at the store. *)
UsageError(r) ==
  \/ r.store = "null"
  \/ r.paths.len # 0 /\ r.paths.items = << >>
  \/ r.action > DeleteSpecific
  \/ Null \in Listed(r)

(* require<GcStore> *)
Unsupported(r) == r.store # "gc"

(* Defect: the flag is always set. *)
CppOptionsForce(r) ==
  [action |-> ActionToCpp(r.action), ignoreLiveness |-> TRUE,
   paths |-> Listed(r), maxFreed |-> r.maxFreed]

CppOptions(r) ==
  [action |-> ActionToCpp(r.action), ignoreLiveness |-> r.ignoreLiveness,
   paths |-> Listed(r), maxFreed |-> r.maxFreed]

-----------------------------------------------------------------------------
(* Roots, added by any goroutine at any time. *)

(* A NULL store or path is refused, and changes nothing here. *)
AddTempRoot(p) ==
  /\ temp' = temp \cup {p}
  /\ granted' = granted \cup ({p} \cap valid)
  /\ UNCHANGED <<valid, links, gc, listing>>

(* Only a local store has permanent roots.  The root stays when its path    *)
(* cannot be copied for the caller, who is told of an error.                *)
AddPermanentRoot(p, link) ==
  /\ links' = [links EXCEPT ![p] = @ \cup {link}]
  /\ \/ granted' = granted \cup ({p} \cap valid)
     \/ UNCHANGED granted
  /\ UNCHANGED <<valid, temp, gc, listing>>

-----------------------------------------------------------------------------
(* The collection. *)

(* The options live as long as the call. *)
Throw ==
  /\ at' = "null"
  /\ ctxErr' = TRUE
  /\ request' = NoRequest /\ options' = NoOptions /\ reported' = {}
  /\ UNCHANGED <<world, results, listing>>

CollectGarbage(r) ==
  /\ at \in {"idle", "null"} /\ roots = Null
  /\ at' = "begun"
  /\ request' = r
  /\ ctxErr' = FALSE
  /\ UNCHANGED <<world, options, reported, results, listing>>

Refuse ==
  /\ at = "begun"
  /\ UsageError(request) \/ Unsupported(request)
  /\ Throw

StartCollecting ==
  /\ at = "begun"
  /\ ~UsageError(request) /\ ~Unsupported(request)
  /\ options' = CppOptions(request)
  /\ at' = "collecting"
  /\ UNCHANGED <<world, request, reported, results, ctxErr, listing>>

(* What Nix does with the options. *)
Dead(p) == p \in valid /\ p \notin temp /\ links[p] = {}

Deletable(p) ==
  /\ p \in valid
  /\ Cardinality(reported) < options.maxFreed
  /\ Dead(p) \/ options.ignoreLiveness
  /\ \/ options.action = "gcDeleteDead"
     \/ options.action = "gcDeleteSpecific" /\ p \in options.paths

Delete(p) ==
  /\ at = "collecting"
  /\ Deletable(p)
  /\ valid' = valid \ {p}
  /\ granted' = granted \ {p}
  /\ reported' = reported \cup {p}
  /\ UNCHANGED <<temp, links, at, request, options, results, ctxErr, listing>>

Report(p) ==
  /\ at = "collecting"
  /\ \/ options.action = "gcReturnDead" /\ Dead(p)
     \/ options.action = "gcReturnLive" /\ p \in valid /\ ~Dead(p)
  /\ reported' = reported \cup {p}
  /\ UNCHANGED <<world, at, request, options, results, ctxErr, listing>>

(* Defect: the caller gets NULL and no reason. *)
FailSilently ==
  /\ at = "collecting"
  /\ at' = "null"
  /\ request' = NoRequest /\ options' = NoOptions /\ reported' = {}
  /\ UNCHANGED <<world, results, ctxErr, listing>>

(* A path asked for is alive, an interrupt, an I/O error; or the results do *)
(* not fit in memory.  What was deleted by then is gone.                    *)
Fail == at = "collecting" /\ Throw

ReturnResults ==
  /\ at = "collecting"
  /\ at' = "handle"
  /\ results' = SetToSeq(reported)
  /\ request' = NoRequest /\ options' = NoOptions
  /\ UNCHANGED <<world, reported, ctxErr, listing>>

(* gc_results_path: NULL beyond the end, or when there is no memory.        *)
ResultsPath(i) ==
  /\ at = "handle"
  /\ told' \in {Null} \cup {results[j] : j \in DOMAIN results \cap {i}}
  /\ UNCHANGED <<world, gc, roots, found>>

ResultsFree ==
  /\ at = "handle"
  /\ at' = "idle"
  /\ results' = Null /\ told' = Null
  /\ reported' = {}
  /\ UNCHANGED <<world, request, options, ctxErr, roots, found>>

-----------------------------------------------------------------------------
(* Listing roots: each link of each path, and accessors by index.           *)

PermanentRoots == {[path |-> p, link |-> l] : p \in Path, l \in Link}

(* A store that is NULL or cannot list its roots is refused, and then, or   *)
(* when there is no memory for the list, there is no handle.                *)
FindRoots ==
  /\ at = "idle" /\ roots = Null
  /\ found' = {r \in PermanentRoots : r.link \in links[r.path]}
  /\ roots' = SetToSeq(found')
  /\ UNCHANGED <<world, gc, told>>

(* roots_path_clone and roots_link at one index. *)
RootsAt(i) == {roots[j] : j \in DOMAIN roots \cap {i}}

RootsRead(i) ==
  /\ roots # Null
  /\ told' \in {Null} \cup RootsAt(i)
  /\ UNCHANGED <<world, gc, roots, found>>

RootsFree ==
  /\ roots # Null
  /\ roots' = Null /\ told' = Null
  /\ found' = {}
  /\ UNCHANGED <<world, gc>>

-----------------------------------------------------------------------------
(* Builders register paths again, and users remove the links of roots; the  *)
(* owner of a path that loses its roots is no longer promised anything.     *)

AddPath(p) ==
  /\ valid' = valid \cup {p}
  /\ UNCHANGED <<temp, links, granted, gc, listing>>

RemoveLink(p, link) ==
  /\ link \in links[p]
  /\ links' = [links EXCEPT ![p] = @ \ {link}]
  /\ granted' = IF p \in temp \/ links'[p] # {} THEN granted ELSE granted \ {p}
  /\ UNCHANGED <<valid, temp, gc, listing>>

-----------------------------------------------------------------------------
Init ==
  /\ valid = Path
  /\ temp = {}
  /\ links = [p \in Path |-> {}]
  /\ granted = {}
  /\ at = "idle"
  /\ request = NoRequest
  /\ options = NoOptions
  /\ reported = {}
  /\ results = Null
  /\ ctxErr = FALSE
  /\ roots = Null /\ found = {} /\ told = Null

Next ==
  \/ \E p \in Path : AddTempRoot(p) \/ AddPath(p)
  \/ \E p \in Path, link \in Link : AddPermanentRoot(p, link) \/ RemoveLink(p, link)
  \/ \E r \in Requests : CollectGarbage(r)
  \/ Refuse \/ StartCollecting
  \/ \E p \in Path : Delete(p) \/ Report(p)
  \/ Fail \/ ReturnResults \/ ResultsFree \/ FindRoots \/ RootsFree
  \/ \E i \in 1 .. Cardinality(PermanentRoots) + 1 : ResultsPath(i) \/ RootsRead(i)

Spec == Init /\ [][Next]_vars

-----------------------------------------------------------------------------
TypeOK ==
  /\ valid \in SUBSET Path /\ temp \in SUBSET Path
  /\ links \in [Path -> SUBSET Link]
  /\ granted \in SUBSET valid
  /\ at \in {"idle", "begun", "collecting", "null", "handle"}
  /\ request \in Requests
  /\ options.paths \in SUBSET Path
  /\ options.action \in {"none", "gcReturnLive", "gcReturnDead", "gcDeleteDead", "gcDeleteSpecific"}
  /\ reported \in SUBSET Path
  /\ results = Null \/ ToSet(results) \subseteq Path
  /\ ctxErr \in BOOLEAN
  /\ roots = Null \/ ToSet(roots) \subseteq PermanentRoots
  /\ found \subseteq PermanentRoots
  /\ told \in {Null} \cup Path \cup PermanentRoots

(* A collection deletes only what the Go options ask for: nothing if they   *)
(* are malformed or only ask for a list, only the listed paths if they name *)
(* some, and no more than their limit.                                      *)
DeletesAsAsked ==
  [][\A p \in valid \ valid' :
       /\ request.store = "gc" /\ Null \notin Listed(request)
       /\ \/ request.action = DeleteDead
          \/ request.action = DeleteSpecific /\ p \in Listed(request)
       /\ Cardinality(reported') <= request.maxFreed]_vars

(* A path whose root the caller was told of outlives every collection that  *)
(* was not asked to ignore roots, also one that was running when the root   *)
(* was made.                                                                *)
RootsProtect ==
  [][\A p \in granted : p \notin valid' => request.ignoreLiveness]_vars

(* NULL comes with an error on the context, and a handle without one lists  *)
(* what this collection, and no other, deleted or found.  A list of roots   *)
(* has each root once, and what is read at one index is the path and the    *)
(* link of one root, whatever links are added and removed meanwhile.        *)
OutcomeExplained ==
  /\ at = "null" => ctxErr /\ results = Null
  /\ at = "handle" => /\ ~ctxErr /\ ToSet(results) = reported
                     /\ told \in {Null} \cup reported
  /\ roots # Null => /\ ToSet(roots) = found /\ Len(roots) = Cardinality(found)
                     /\ told \in {Null} \cup found
=============================================================================
