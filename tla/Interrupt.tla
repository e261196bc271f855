------------------------------- MODULE Interrupt -------------------------------
(***************************************************************************)
(* Cancelling a running Nix operation: the process-global interrupt flag   *)
(* and go_nix_store_interrupt (nix_go_interrupt_cpp.cc), called by one     *)
(* goroutine while another is inside a native call.                        *)
(*                                                                         *)
(* The native operation is Nix's and is modelled from what the shim and    *)
(* README.md rely on: it polls the flag between the things it does, it may *)
(* block on a daemon connection, which only a shutdown or an answer ends,  *)
(* or on a transfer, which an interrupt callback ends.  The daemon and the *)
(* network never have to answer.                                           *)
(***************************************************************************)
EXTENDS Naturals, Sequences

CONSTANTS
  Store,               \* store handles
  Remote,              \* those backed by a RemoteStore
  WaitsForInterrupter  \* whether the caller also waits for its own
                       \* InterruptRequest or StoreInterrupt call to return

ASSUME StoreAssumption == Store # {} /\ Remote \subseteq Store
ASSUME WaitsAssumption == WaitsForInterrupter \in BOOLEAN

VARIABLES
  flag,    \* Nix's process-global interrupt flag
  woken,   \* the interrupt callbacks have run since the operation registered
  at,      \* where the worker is
  store,   \* the store it uses
  failed,  \* its last native call failed
  aimed,   \* how the current operation is being cancelled: "no", "request"
           \* (InterruptRequest) or "store" (StoreInterrupt)
  conn,    \* the daemon connection of each remote store
  open,    \* the store handles that are not freed
  cn,      \* the cancelling goroutine: what its call has still to do
  ctxErr   \* whether the operation's and the canceller's context hold an error

vars == <<flag, woken, at, store, failed, aimed, conn, open, cn, ctxErr>>
worker == <<at, store, failed>>

Active == {"compute", "connecting", "connected", "io", "registering", "registered", "transfer"}

-----------------------------------------------------------------------------
(* The native operation. *)

Idle == [api |-> "none", store |-> "none", todo |-> << >>]

(* Every Nix call clears its context on entry. *)
Start ==
  /\ at = "idle"
  /\ at' = "compute"
  /\ aimed' = "no"
  /\ ctxErr' = [ctxErr EXCEPT !["op"] = FALSE]
  /\ UNCHANGED <<flag, woken, store, failed, conn, open, cn>>

Return(failure) ==
  /\ at' = "returned"
  /\ failed' = failure
  /\ ctxErr' = [ctxErr EXCEPT !["op"] = failure]
  /\ UNCHANGED <<flag, woken, store, aimed, conn, open, cn>>

Continue(label) ==
  /\ at' = label
  /\ UNCHANGED <<flag, woken, store, failed, aimed, conn, open, cn, ctxErr>>

(* checkInterrupt, called before everything the operation does. *)
Interrupted ==
  /\ at \in {"compute", "connected", "registered"}
  /\ flag
  /\ Return(TRUE)

Compute ==
  /\ at = "compute"
  /\ ~flag
  /\ \/ store \in Remote /\ Continue("connecting")
     \/ Continue("registering")

Complete ==
  /\ at = "compute"
  /\ ~flag
  /\ Return(FALSE)

(* A shut-down store has no usable connection any more. *)
Connect ==
  /\ at = "connecting"
  /\ IF conn[store] = "shut"
     THEN Return(TRUE)
     ELSE /\ conn' = [conn EXCEPT ![store] = "open"]
          /\ at' = "connected"
          /\ UNCHANGED <<flag, woken, store, failed, aimed, open, cn, ctxErr>>

Send == at = "connected" /\ ~flag /\ Continue("io")

DaemonAnswers == at = "io" /\ conn[store] = "open" /\ Continue("compute")

IoShutDown == at = "io" /\ conn[store] = "shut" /\ Return(TRUE)

Register ==
  /\ at = "registering"
  /\ at' = "registered"
  /\ woken' = FALSE
  /\ UNCHANGED <<flag, store, failed, aimed, conn, open, cn, ctxErr>>

Transfer == at = "registered" /\ ~flag /\ Continue("transfer")

TransferEnds == at = "transfer" /\ Continue("compute")

TransferWoken == at = "transfer" /\ woken /\ Return(TRUE)

-----------------------------------------------------------------------------
(* The cancelling goroutine.  It decides while an operation is active; what *)
(* it then calls may run much later.                                        *)

(* Defect: the connections go down before the flag goes up. *)
StoreInterruptStepsSwapped == <<"arguments", "cast", "shutdown", "flag", "wake">>

StoreInterruptSteps == <<"arguments", "flag", "wake", "cast", "shutdown">>

(* Defect: the callbacks are not run. *)
RequestStepsSilent == <<"flag">>

RequestSteps == <<"flag", "wake">>

(* The cancelling call is given a context of its own. *)
InterruptCtx == "cancel"

Next2Do(step) == cn.todo # << >> /\ Head(cn.todo) = step
Finish == cn' = Idle
Advance ==
  IF Tail(cn.todo) = << >> THEN Finish ELSE cn' = [cn EXCEPT !.todo = Tail(@)]

Decide(api) ==
  /\ cn = Idle
  /\ at \in Active
  /\ aimed = "no"
  /\ aimed' = api
  /\ cn' = [api |-> api, store |-> store,
            todo |-> IF api = "store" THEN StoreInterruptSteps ELSE RequestSteps]
  /\ UNCHANGED <<flag, woken, at, store, failed, conn, open, ctxErr>>

(* At any time, a call whose context or store is NULL: it is refused before *)
(* anything is requested.                                                   *)
DecideNull ==
  /\ cn = Idle
  /\ \E null \in {"nullctx", "nullstore"} :
       cn' = [api |-> null, store |-> "none", todo |-> StoreInterruptSteps]
  /\ UNCHANGED <<flag, woken, at, store, failed, aimed, conn, open, ctxErr>>

(* Defect: a NULL store is let through. *)
RejectsNullCtx(api) == api = "nullctx"

Rejects(api) == api \in {"nullctx", "nullstore"}

(* nix_clear_err and the two argument checks; a NULL context is left alone. *)
Arguments ==
  /\ Next2Do("arguments")
  /\ IF Rejects(cn.api) THEN Finish ELSE Advance
  /\ ctxErr' = IF cn.api = "nullctx" THEN ctxErr
               ELSE [ctxErr EXCEPT ![InterruptCtx] = (cn.api = "nullstore")]
  /\ UNCHANGED <<flag, woken, worker, aimed, conn, open>>

(* triggerInterrupt sets the flag and then runs the callbacks. *)
SetFlag ==
  /\ Next2Do("flag")
  /\ flag' = TRUE
  /\ Advance
  /\ UNCHANGED <<woken, worker, aimed, conn, open, ctxErr>>

Wake ==
  /\ Next2Do("wake")
  /\ woken' = TRUE
  /\ Advance
  /\ UNCHANGED <<flag, worker, aimed, conn, open, ctxErr>>

(* dynamic_pointer_cast reads the handle; from here on the RemoteStore is   *)
(* held by a reference of its own.                                          *)
Cast ==
  /\ Next2Do("cast")
  /\ IF cn.store \in Remote THEN Advance ELSE Finish
  /\ UNCHANGED <<flag, woken, worker, aimed, conn, open, ctxErr>>

ShutDown(s) == [conn EXCEPT ![s] = IF @ = "open" THEN "shut" ELSE @]

ShutdownConnections ==
  /\ Next2Do("shutdown")
  /\ conn' = ShutDown(cn.store)
  /\ Advance
  /\ UNCHANGED <<flag, woken, worker, aimed, open, ctxErr>>

-----------------------------------------------------------------------------
(* The caller after the native call has returned, as README.md asks: clear  *)
(* the flag, discard a remotely interrupted store, go on.                   *)

(* Defect: the caller does not wait for the canceller. *)
SettledAlone == at = "returned"

Settled == at = "returned" /\ (WaitsForInterrupter => cn = Idle)

GoOn ==
  /\ Settled
  /\ aimed = "no"
  /\ at' = "idle"
  /\ UNCHANGED <<flag, woken, store, failed, aimed, conn, open, cn, ctxErr>>

(* Defect: the flag stays up. *)
InterruptClearMissing ==
  /\ Settled
  /\ aimed # "no"
  /\ at' = IF aimed = "store" /\ store \in Remote THEN "discard" ELSE "idle"
  /\ UNCHANGED <<flag, woken, store, failed, aimed, conn, open, cn, ctxErr>>

InterruptClear ==
  /\ Settled
  /\ aimed # "no"
  /\ flag' = FALSE
  /\ at' = IF aimed = "store" /\ store \in Remote THEN "discard" ELSE "idle"
  /\ UNCHANGED <<woken, store, failed, aimed, conn, open, cn, ctxErr>>

StoreFree ==
  /\ at = "discard"
  /\ open' = open \ {store}
  /\ at' = "closed"
  /\ UNCHANGED <<flag, woken, store, failed, aimed, conn, cn, ctxErr>>

StoreOpen(s) ==
  /\ at = "closed"
  /\ store' = s
  /\ open' = open \cup {s}
  /\ conn' = IF s \in open THEN conn ELSE [conn EXCEPT ![s] = "none"]
  /\ at' = "idle"
  /\ UNCHANGED <<flag, woken, failed, aimed, cn, ctxErr>>

-----------------------------------------------------------------------------
Init ==
  /\ flag = FALSE
  /\ woken = FALSE
  /\ at = "idle"
  /\ store \in Store
  /\ failed = FALSE
  /\ aimed = "no"
  /\ conn = [s \in Store |-> "none"]
  /\ open = {store}
  /\ cn = Idle
  /\ ctxErr = [c \in {"op", "cancel"} |-> FALSE]

(* What Nix does on its own, and what it does when the outside answers. *)
NixStep ==
  \/ Interrupted \/ Compute \/ Complete
  \/ Connect \/ Send \/ IoShutDown
  \/ Register \/ Transfer \/ TransferWoken

Answer == DaemonAnswers \/ TransferEnds

CancelStep == Arguments \/ SetFlag \/ Wake \/ Cast \/ ShutdownConnections

CallerStep == GoOn \/ InterruptClear \/ StoreFree \/ \E s \in Store : StoreOpen(s)

Next ==
  \/ Start
  \/ NixStep
  \/ Answer
  \/ \E api \in {"request", "store"} : Decide(api)
  \/ DecideNull
  \/ CancelStep
  \/ CallerStep

Spec == Init /\ [][Next]_vars

(* Both goroutines are scheduled; nothing is assumed of the daemon, of the  *)
(* network, or of what the caller does next.                                *)
FairSpec == Spec /\ WF_vars(NixStep) /\ WF_vars(CancelStep)

-----------------------------------------------------------------------------
(* A cancelling call whose context or store is NULL gets no further than    *)
(* its arguments.                                                           *)
RefusedCall == [api : {"nullctx", "nullstore"}, store : {"none"}, todo : {StoreInterruptSteps}]
AcceptedCall == [api : {"request", "store"}, store : Store,
                 todo : Seq({"arguments", "flag", "wake", "cast", "shutdown"})]

TypeOK ==
  /\ flag \in BOOLEAN /\ woken \in BOOLEAN
  /\ at \in Active \cup {"idle", "returned", "discard", "closed"}
  /\ store \in Store
  /\ failed \in BOOLEAN
  /\ aimed \in {"no", "request", "store"}
  /\ conn \in [Store -> {"none", "open", "shut"}]
  /\ open \in SUBSET Store
  /\ cn \in {Idle} \cup RefusedCall \cup AcceptedCall
  /\ ctxErr \in [{"op", "cancel"} -> BOOLEAN]

(* Cancellation reaches the operation it was meant for and no other: a call *)
(* fails only if somebody cancelled that very call, even if the request     *)
(* comes too late, is refused, or the flag or the shutdown outlives its     *)
(* operation; and it finds its error on its context, whatever the canceller *)
(* does to report its own outcome.                                          *)
OnlyTheAimedFails ==
  at = "returned" => (failed => aimed # "no") /\ ctxErr["op"] = failed

(* No handle is used after StoreFree: not by an operation, and not by a     *)
(* StoreInterrupt whose operation has already returned.                     *)
NoUseAfterFree ==
  /\ at \in Active => store \in open
  /\ Next2Do("cast") => cn.store \in open

(* StoreInterrupt ends the operation it is aimed at, also one that waits    *)
(* for a daemon that never answers, wherever the operation is when the      *)
(* flag goes up and the connections go down.                                *)
StoreInterruptEnds == (at \in Active /\ aimed = "store") ~> (at \notin Active)

(* InterruptRequest alone ends every operation but one that is blocked on a *)
(* daemon connection.                                                       *)
RequestEnds ==
  (at \in Active /\ aimed = "request") ~> (at \notin Active \/ at = "io")
=============================================================================
