--------------------------- MODULE ProcessState_proofs ---------------------------
(***************************************************************************)
(* Proofs about what a process has once and every goroutine shares: the    *)
(* interruption flag with the calls it stops (Interrupt), and the logger   *)
(* with its sinks (LogSinks).  The first part is about any stores; what it *)
(* says of cancellation is said of a caller that also waits for the        *)
(* goroutine that cancels.  The second is about any destinations and any   *)
(* number of sinks and events.                                             *)
(***************************************************************************)
EXTENDS Interrupt, LogSinks, FiniteSetTheorems, TLAPS

-----------------------------------------------------------------------------
(* The inductive invariant of Interrupt. *)

Calling == at \in Active \cup {"returned"}

(* What a canceller may have still to do. *)
StoreRest ==
  {<<"arguments", "flag", "wake", "cast", "shutdown">>,
   <<"flag", "wake", "cast", "shutdown">>,
   <<"wake", "cast", "shutdown">>, <<"cast", "shutdown">>, <<"shutdown">>}
RequestRest == {<<"flag", "wake">>, <<"wake">>}

(* A canceller works on the operation it decided about, which the caller    *)
(* has not left, or is one that will be refused.                           *)
Aiming == aimed = cn.api /\ cn.store = store /\ Calling

Canceller ==
  \/ cn = Idle
  \/ cn.api = "request" /\ cn.todo \in RequestRest /\ Aiming
  \/ /\ cn.api = "store" /\ cn.todo \in StoreRest /\ Aiming
     /\ Next2Do("shutdown") => cn.store \in Remote
  \/ cn.api \in {"nullctx", "nullstore"} /\ cn.todo = StoreInterruptSteps

(* What a request leaves behind is gone before the next operation: the flag *)
(* is cleared, the callbacks belong to a registration, and a store that was *)
(* shut down is discarded.                                                 *)
FlagIsAimed == flag => aimed # "no" /\ Calling
WakeIsAimed == woken /\ at \in {"registered", "transfer"} => aimed # "no"
ShutIsAimed ==
  \A s \in open : conn[s] = "shut" =>
    /\ s = store
    /\ \/ Calling /\ aimed = "store" /\ store \in Remote
       \/ at = "discard"

Opened == at # "closed" => store \in open

IInv ==
  /\ TypeOK
  /\ Canceller /\ FlagIsAimed /\ WakeIsAimed /\ ShutIsAimed /\ Opened
  /\ OnlyTheAimedFails

-----------------------------------------------------------------------------
(* The steps of a canceller, one after the other. *)
LEMMA StoreRests ==
  ASSUME NEW t \in StoreRest
  PROVE  /\ t # << >>
         /\ Tail(t) # << >> => Tail(t) \in StoreRest
         /\ Head(t) = "shutdown" <=> Tail(t) = << >>
         /\ Tail(t) # << >> => (Head(Tail(t)) = "shutdown" <=> Head(t) = "cast")
<1>1. CASE t = <<"shutdown">>
  BY <1>1
<1>2. CASE t = <<"cast", "shutdown">>
  BY <1>2 DEF StoreRest
<1>3. CASE t = <<"wake", "cast", "shutdown">>
  BY <1>3 DEF StoreRest
<1>4. CASE t = <<"flag", "wake", "cast", "shutdown">>
  BY <1>4 DEF StoreRest
<1>5. CASE t = <<"arguments", "flag", "wake", "cast", "shutdown">>
  BY <1>5 DEF StoreRest
<1> QED BY <1>1, <1>2, <1>3, <1>4, <1>5 DEF StoreRest

(* A request has two. *)
LEMMA RequestRests ==
  ASSUME NEW t \in RequestRest
  PROVE  /\ t # << >>
         /\ Head(t) \in {"flag", "wake"}
         /\ Tail(t) # << >> => Tail(t) \in RequestRest
<1>1. CASE t = <<"wake">>
  BY <1>1
<1>2. CASE t = <<"flag", "wake">>
  BY <1>2 DEF RequestRest
<1> QED BY <1>1, <1>2 DEF RequestRest

(* Both begin where they should. *)
LEMMA StepsAre ==
  /\ StoreInterruptSteps \in StoreRest /\ Head(StoreInterruptSteps) = "arguments"
  /\ RequestSteps \in RequestRest
  /\ StoreInterruptSteps \in Seq({"arguments", "flag", "wake", "cast", "shutdown"})
  /\ RequestSteps \in Seq({"arguments", "flag", "wake", "cast", "shutdown"})
BY DEF StoreInterruptSteps, RequestSteps, StoreRest, RequestRest

-----------------------------------------------------------------------------
(* The types hold initially. *)
LEMMA InitTypeOK == Init => TypeOK
<1> SUFFICES ASSUME Init PROVE TypeOK
  OBVIOUS
<1>1. flag \in BOOLEAN /\ woken \in BOOLEAN /\ failed \in BOOLEAN
  BY Zenon DEF Init
<1>2. cn = Idle
  BY DEF Init
<1>3. ctxErr \in [{"op", "cancel"} -> BOOLEAN]
  BY DEF Init
<1> QED BY <1>1, <1>2, <1>3 DEF Init, TypeOK

(* A call that is past its arguments has a context and a store.             *)
LEMMA PastArguments ==
  ASSUME TypeOK, cn.todo # << >>, ~Rejects(cn.api) \/ Head(cn.todo) # "arguments"
  PROVE  cn \in AcceptedCall
<1>1. cn \in RefusedCall => Rejects(cn.api) /\ Head(cn.todo) = "arguments"
  BY StepsAre DEF RefusedCall, Rejects
<1>2. cn # Idle
  BY DEF Idle
<1> QED BY <1>1, <1>2 DEF TypeOK

(* What is left of such a call is one, or nothing.                          *)
LEMMA AdvanceIs ==
  ASSUME cn \in AcceptedCall, cn.todo # << >>, Advance \/ Finish
  PROVE  /\ cn' \in {Idle} \cup AcceptedCall
         /\ \/ cn' = Idle
            \/ /\ cn'.api = cn.api /\ cn'.store = cn.store
               /\ cn'.todo = Tail(cn.todo) /\ Tail(cn.todo) # << >>
<1>1. CASE cn' = Idle
  BY <1>1
<1>2. CASE cn' # Idle
  <2>1. cn' = [cn EXCEPT !.todo = Tail(@)] /\ Tail(cn.todo) # << >>
    BY <1>2 DEF Advance, Finish
  <2>2. Tail(cn.todo) \in Seq({"arguments", "flag", "wake", "cast", "shutdown"})
    BY DEF AcceptedCall
  <2> QED BY <2>1, <2>2 DEF AcceptedCall
<1> QED BY <1>1, <1>2

(* Every step preserves the types. *)
LEMMA NextTypeOK == TypeOK /\ [Next]_vars => TypeOK'
<1> SUFFICES ASSUME TypeOK, [Next]_vars PROVE TypeOK'
  OBVIOUS
<1> USE DEF TypeOK, worker
<1>0. ASSUME NEW failure \in BOOLEAN, Return(failure) PROVE TypeOK'
  <2>1. ctxErr' \in [{"op", "cancel"} -> BOOLEAN]
    BY <1>0 DEF Return
  <2>2. failed' \in BOOLEAN
    BY <1>0, Zenon DEF Return
  <2> QED BY <1>0, <2>1, <2>2 DEF Return
<1>1. CASE Start
  <2>1. ctxErr' \in [{"op", "cancel"} -> BOOLEAN]
    BY <1>1 DEF Start
  <2> QED BY <1>1, <2>1 DEF Start, Active
<1>2. CASE NixStep
  <2>1. ASSUME NEW label \in Active, Continue(label) PROVE TypeOK'
    BY <2>1 DEF Continue
  <2>2. CASE Interrupted \/ Complete \/ IoShutDown \/ TransferWoken
    BY <1>0, <2>2 DEF Interrupted, Complete, IoShutDown, TransferWoken
  <2>3. CASE Compute \/ Send \/ Transfer
    BY <2>1, <2>3 DEF Compute, Send, Transfer, Active
  <2>4. CASE Connect
    <3>1. CASE Return(TRUE)
      BY <1>0, <3>1
    <3>2. CASE ~Return(TRUE)
      BY <2>4, <3>2 DEF Connect, Active
    <3> QED BY <3>1, <3>2
  <2>5. CASE Register
    <3>1. woken' \in BOOLEAN
      BY <2>5, Zenon DEF Register
    <3> QED BY <2>5, <3>1 DEF Register, Active
  <2> QED BY <1>2, <2>2, <2>3, <2>4, <2>5 DEF NixStep
<1>3. CASE Answer
  BY <1>3 DEF Answer, DaemonAnswers, TransferEnds, Continue, Active
<1>4. ASSUME NEW api \in {"request", "store"}, Decide(api) PROVE TypeOK'
  <2>1. aimed' = api /\ cn' = [api |-> api, store |-> store,
          todo |-> IF api = "store" THEN StoreInterruptSteps ELSE RequestSteps]
    BY <1>4 DEF Decide
  <2>2. cn' \in AcceptedCall
    BY <2>1, StepsAre DEF AcceptedCall
  <2> QED BY <1>4, <2>1, <2>2 DEF Decide
<1>5. CASE DecideNull
  <2>1. cn' \in RefusedCall
    BY <1>5 DEF DecideNull, RefusedCall
  <2> QED BY <1>5, <2>1 DEF DecideNull
<1>6. CASE CancelStep
  <2>1. CASE Arguments
    <3>1. ctxErr' \in [{"op", "cancel"} -> BOOLEAN]
      BY <2>1 DEF Arguments, InterruptCtx
    <3>2. cn' \in {Idle} \cup AcceptedCall
      <4>1. CASE Rejects(cn.api)
        BY <2>1, <4>1 DEF Arguments, Finish
      <4>2. CASE ~Rejects(cn.api)
        BY <2>1, <4>2, PastArguments, AdvanceIs DEF Arguments, Next2Do
      <4> QED BY <4>1, <4>2
    <3> QED BY <2>1, <3>1, <3>2 DEF Arguments
  <2>2. CASE SetFlag
    <3>1. flag' \in BOOLEAN
      BY <2>2, Zenon DEF SetFlag
    <3>2. cn' \in {Idle} \cup AcceptedCall
      BY <2>2, PastArguments, AdvanceIs DEF SetFlag, Next2Do
    <3> QED BY <2>2, <3>1, <3>2 DEF SetFlag
  <2>3. CASE Wake
    <3>1. woken' \in BOOLEAN
      BY <2>3, Zenon DEF Wake
    <3>2. cn' \in {Idle} \cup AcceptedCall
      BY <2>3, PastArguments, AdvanceIs DEF Wake, Next2Do
    <3> QED BY <2>3, <3>1, <3>2 DEF Wake
  <2>4. CASE Cast
    <3>1. cn' \in {Idle} \cup AcceptedCall
      BY <2>4, PastArguments, AdvanceIs DEF Cast, Next2Do
    <3> QED BY <2>4, <3>1 DEF Cast
  <2>5. CASE ShutdownConnections
    <3>1. conn' \in [Store -> {"none", "open", "shut"}]
      BY <2>5 DEF ShutdownConnections, ShutDown
    <3>2. cn' \in {Idle} \cup AcceptedCall
      BY <2>5, PastArguments, AdvanceIs DEF ShutdownConnections, Next2Do
    <3> QED BY <2>5, <3>1, <3>2 DEF ShutdownConnections
  <2> QED BY <1>6, <2>1, <2>2, <2>3, <2>4, <2>5 DEF CancelStep
<1>7. CASE CallerStep
  <2>1. CASE GoOn
    BY <2>1 DEF GoOn
  <2>2. CASE InterruptClear
    <3>1. flag' \in BOOLEAN
      BY <2>2, Zenon DEF InterruptClear
    <3> QED BY <2>2, <3>1 DEF InterruptClear
  <2>3. CASE StoreFree
    BY <2>3 DEF StoreFree
  <2>4. ASSUME NEW s \in Store, StoreOpen(s) PROVE TypeOK'
    BY <2>4 DEF StoreOpen
  <2> QED BY <1>7, <2>1, <2>2, <2>3, <2>4 DEF CallerStep
<1>8. CASE UNCHANGED vars
  BY <1>8 DEF vars
<1> QED BY <1>1, <1>2, <1>3, <1>4, <1>5, <1>6, <1>7, <1>8 DEF Next

(* The invariant holds initially. *)
LEMMA InitIInv == Init => IInv
<1> SUFFICES ASSUME Init PROVE IInv
  OBVIOUS
<1> QED
  BY InitTypeOK DEF Init, IInv, Canceller, FlagIsAimed, WakeIsAimed, ShutIsAimed, Opened,
    OnlyTheAimedFails

-----------------------------------------------------------------------------
(* A canceller that is past its arguments is one that somebody aimed. *)
LEMMA Aimed ==
  ASSUME IInv, cn.todo # << >>, ~Rejects(cn.api) \/ Head(cn.todo) # "arguments"
  PROVE  /\ cn.api \in {"request", "store"} /\ Aiming
         /\ cn.api = "request" => cn.todo \in RequestRest
         /\ cn.api = "store" => cn.todo \in StoreRest
         /\ cn.api = "store" /\ Head(cn.todo) = "shutdown" => cn.store \in Remote
BY StepsAre DEF IInv, Canceller, Rejects, Idle, Next2Do

(* It goes on, or has returned. *)
LEMMA CancellerGoesOn ==
  ASSUME IInv, cn.todo # << >>, ~Rejects(cn.api) \/ Head(cn.todo) # "arguments",
         Head(cn.todo) = "cast" => cn.store \in Remote,
         Advance, UNCHANGED <<worker, aimed>>
  PROVE  Canceller'
<1>1. \/ cn' = Idle
      \/ /\ cn'.api = cn.api /\ cn'.store = cn.store
         /\ cn'.todo = Tail(cn.todo) /\ Tail(cn.todo) # << >>
  BY PastArguments, AdvanceIs DEF IInv
<1>2. Aiming /\ cn.api \in {"request", "store"}
  BY Aimed
<1>3. CASE cn' = Idle
  BY <1>3 DEF Canceller
<1>4. CASE cn' # Idle /\ cn.api = "request"
  BY <1>1, <1>2, <1>4, Aimed, RequestRests DEF Canceller, Aiming, Calling, worker
<1>5. CASE cn' # Idle /\ cn.api = "store"
  <2>1. cn.todo \in StoreRest
    BY <1>5, Aimed
  <2>2. /\ cn'.todo \in StoreRest
        /\ Head(cn'.todo) = "shutdown" => cn'.store \in Remote
    BY <1>1, <1>5, <2>1, StoreRests
  <2> QED BY <1>1, <1>2, <1>5, <2>2 DEF Canceller, Aiming, Calling, worker, Next2Do
<1> QED BY <1>2, <1>3, <1>4, <1>5

(* The operation goes on, or returns what it must. *)
LEMMA WorkerIInv ==
  ASSUME IInv, TypeOK', at \in Active, at' \in Active \cup {"returned"}, at' # "registered",
         at' = "returned" => (failed' => aimed # "no") /\ ctxErr'["op"] = failed',
         at' = "transfer" => at = "registered",
         \A s \in open : conn'[s] = "shut" => conn[s] = "shut",
         UNCHANGED <<flag, woken, store, aimed, open, cn>>
  PROVE  IInv'
<1>1. Calling /\ Calling'
  BY DEF Calling
<1>2. Canceller'
  BY <1>1 DEF IInv, Canceller, Aiming, Next2Do
<1>3. FlagIsAimed' /\ WakeIsAimed'
  BY <1>1 DEF IInv, FlagIsAimed, WakeIsAimed
<1>4. ShutIsAimed'
  BY <1>1 DEF IInv, ShutIsAimed, Active
<1>5. Opened' /\ OnlyTheAimedFails'
  BY DEF IInv, Opened, OnlyTheAimedFails, Active
<1> QED BY <1>2, <1>3, <1>4, <1>5 DEF IInv

(* Every step preserves the invariant, if the caller waits. *)
LEMMA NextIInv ==
  ASSUME WaitsForInterrupter
  PROVE  IInv /\ [Next]_vars => IInv'
<1> SUFFICES ASSUME IInv, [Next]_vars PROVE IInv'
  OBVIOUS
<1>0. TypeOK /\ TypeOK'
  BY NextTypeOK DEF IInv
<1> USE DEF worker
<1>1. CASE Start
  <2>1. ~Calling /\ ~flag /\ Calling' /\ aimed' = "no"
    BY <1>1 DEF Start, Calling, Active, IInv, FlagIsAimed
  <2>2. Canceller'
    BY <1>1, <2>1 DEF Start, IInv, Canceller, Aiming
  <2>3. \A s \in open : conn[s] # "shut"
    BY <1>1, <2>1 DEF Start, IInv, ShutIsAimed
  <2>4. ShutIsAimed'
    BY <1>1, <2>3 DEF Start, ShutIsAimed
  <2>5. FlagIsAimed' /\ WakeIsAimed' /\ Opened' /\ OnlyTheAimedFails'
    BY <1>1, <2>1 DEF Start, IInv, FlagIsAimed, WakeIsAimed, Opened, OnlyTheAimedFails
  <2> QED BY <1>0, <2>2, <2>4, <2>5 DEF IInv
<1>2. CASE NixStep
  <2>1. CASE Interrupted
    <3>1. at \in Active /\ aimed # "no"
      BY <2>1 DEF Interrupted, Active, IInv, FlagIsAimed
    <3> QED BY <1>0, <2>1, <3>1, WorkerIInv DEF Interrupted, Return, TypeOK
  <2>2. CASE Compute \/ Send \/ Transfer
    <3>1. /\ at \in Active /\ at' \in Active /\ at' \notin {"registered", "returned"}
          /\ at' = "transfer" => at = "registered"
          /\ UNCHANGED <<flag, woken, store, failed, aimed, conn, open, cn, ctxErr>>
      BY <2>2 DEF Compute, Send, Transfer, Continue, Active
    <3> QED BY <1>0, <3>1, WorkerIInv
  <2>3. CASE Complete
    <3>1. at \in Active
      BY <2>3 DEF Complete, Active
    <3> QED BY <1>0, <2>3, <3>1, WorkerIInv DEF Complete, Return, TypeOK
  <2>4. CASE Connect
    <3>1. at \in Active /\ store \in open
      BY <2>4 DEF Connect, Active, IInv, Opened
    <3>2. CASE conn[store] = "shut"
      <4>1. aimed = "store"
        BY <2>4, <3>1, <3>2 DEF Connect, IInv, ShutIsAimed
      <4> QED BY <1>0, <2>4, <3>1, <3>2, <4>1, WorkerIInv DEF Connect, Return, TypeOK
    <3>3. CASE conn[store] # "shut"
      <4>1. \A s \in open : conn'[s] = "shut" => conn[s] = "shut"
        BY <1>0, <2>4, <3>3 DEF Connect, TypeOK
      <4> QED BY <1>0, <2>4, <3>1, <3>3, <4>1, WorkerIInv DEF Connect, Active
    <3> QED BY <3>2, <3>3
  <2>5. CASE IoShutDown
    <3>1. at \in Active /\ aimed = "store"
      BY <2>5 DEF IoShutDown, Active, IInv, Opened, ShutIsAimed
    <3> QED BY <1>0, <2>5, <3>1, WorkerIInv DEF IoShutDown, Return, TypeOK
  <2>6. CASE Register
    <3>1. Calling /\ Calling'
      BY <2>6 DEF Register, Calling, Active
    <3>2. Canceller'
      BY <2>6, <3>1 DEF Register, IInv, Canceller, Aiming, Next2Do
    <3>3. ShutIsAimed'
      BY <2>6, <3>1 DEF Register, IInv, ShutIsAimed
    <3>4. FlagIsAimed' /\ WakeIsAimed' /\ Opened' /\ OnlyTheAimedFails'
      BY <2>6, <3>1 DEF Register, IInv, FlagIsAimed, WakeIsAimed, Opened, OnlyTheAimedFails
    <3> QED BY <1>0, <3>2, <3>3, <3>4 DEF IInv
  <2>7. CASE TransferWoken
    <3>1. at \in Active /\ aimed # "no"
      BY <2>7 DEF TransferWoken, Active, IInv, WakeIsAimed
    <3> QED BY <1>0, <2>7, <3>1, WorkerIInv DEF TransferWoken, Return, TypeOK
  <2> QED BY <1>2, <2>1, <2>2, <2>3, <2>4, <2>5, <2>6, <2>7 DEF NixStep
<1>3. CASE Answer
  <2>1. /\ at \in Active /\ at' = "compute"
        /\ UNCHANGED <<flag, woken, store, failed, aimed, conn, open, cn, ctxErr>>
    BY <1>3 DEF Answer, DaemonAnswers, TransferEnds, Continue, Active
  <2> QED BY <1>0, <2>1, WorkerIInv DEF Active
<1>4. ASSUME NEW api \in {"request", "store"}, Decide(api) PROVE IInv'
  <2>1. /\ at \in Active /\ aimed = "no" /\ aimed' = api
        /\ cn'.api = api /\ cn'.store = store
        /\ cn'.todo = IF api = "store" THEN StoreInterruptSteps ELSE RequestSteps
        /\ UNCHANGED <<flag, woken, at, store, failed, conn, open, ctxErr>>
    BY <1>4 DEF Decide
  <2>2. Calling /\ Calling'
    BY <2>1 DEF Calling
  <2>3. Canceller'
    BY <2>1, <2>2, StepsAre DEF Canceller, Aiming, Next2Do
  <2>4. \A s \in open : conn[s] # "shut"
    BY <2>1, <2>2 DEF IInv, ShutIsAimed, Active
  <2>5. ShutIsAimed'
    BY <2>1, <2>4 DEF ShutIsAimed
  <2>6. FlagIsAimed' /\ WakeIsAimed' /\ Opened' /\ OnlyTheAimedFails'
    BY <2>1, <2>2 DEF IInv, FlagIsAimed, WakeIsAimed, Opened, OnlyTheAimedFails
  <2> QED BY <1>0, <2>3, <2>5, <2>6 DEF IInv
<1>5. CASE DecideNull
  <2>1. Canceller'
    BY <1>5 DEF DecideNull, Canceller
  <2> QED BY <1>0, <1>5, <2>1 DEF DecideNull, IInv, Calling, FlagIsAimed, WakeIsAimed, ShutIsAimed,
        Opened, OnlyTheAimedFails
<1>6. CASE CancelStep
  <2>1. CASE Arguments
    <3>1. Canceller'
      <4>1. CASE Rejects(cn.api)
        BY <2>1, <4>1 DEF Arguments, Finish, Canceller
      <4>2. CASE ~Rejects(cn.api)
        BY <2>1, <4>2, CancellerGoesOn DEF Arguments, Next2Do
      <4> QED BY <4>1, <4>2
    <3>2. ctxErr'["op"] = ctxErr["op"]
      BY <1>0, <2>1 DEF Arguments, InterruptCtx, TypeOK
    <3> QED BY <1>0, <2>1, <3>1, <3>2 DEF Arguments, IInv, Calling, FlagIsAimed, WakeIsAimed,
          ShutIsAimed, Opened, OnlyTheAimedFails
  <2>2. CASE SetFlag
    <3>1. Canceller' /\ aimed # "no" /\ Calling
      BY <2>2, CancellerGoesOn, Aimed DEF SetFlag, Next2Do, Aiming
    <3> QED BY <1>0, <2>2, <3>1 DEF SetFlag, IInv, Calling, FlagIsAimed, WakeIsAimed,
          ShutIsAimed, Opened, OnlyTheAimedFails
  <2>3. CASE Wake
    <3>1. Canceller' /\ aimed # "no" /\ Calling
      BY <2>3, CancellerGoesOn, Aimed DEF Wake, Next2Do, Aiming
    <3> QED BY <1>0, <2>3, <3>1 DEF Wake, IInv, Calling, FlagIsAimed, WakeIsAimed,
          ShutIsAimed, Opened, OnlyTheAimedFails
  <2>4. CASE Cast
    <3>1. Canceller'
      <4>1. CASE cn.store \in Remote
        BY <2>4, <4>1, CancellerGoesOn DEF Cast, Next2Do
      <4>2. CASE cn.store \notin Remote
        BY <2>4, <4>2 DEF Cast, Finish, Canceller
      <4> QED BY <4>1, <4>2
    <3> QED BY <1>0, <2>4, <3>1 DEF Cast, IInv, Calling, FlagIsAimed, WakeIsAimed,
          ShutIsAimed, Opened, OnlyTheAimedFails
  <2>5. CASE ShutdownConnections
    <3>1. /\ Canceller' /\ Calling /\ aimed = "store"
          /\ cn.store = store /\ store \in Remote
      <4>1. cn.api = "store"
        BY <2>5, Aimed, RequestRests DEF ShutdownConnections, Next2Do
      <4> QED BY <2>5, <4>1, CancellerGoesOn, Aimed DEF ShutdownConnections, Next2Do, Aiming
    <3>2. \A s \in open : conn'[s] = "shut" => s = store \/ conn[s] = "shut"
      BY <1>0, <2>5, <3>1 DEF ShutdownConnections, ShutDown, TypeOK
    <3>3. ShutIsAimed'
      BY <2>5, <3>1, <3>2 DEF ShutdownConnections, IInv, Calling, ShutIsAimed
    <3> QED BY <1>0, <2>5, <3>1, <3>3 DEF ShutdownConnections, IInv, Calling, FlagIsAimed,
          WakeIsAimed, Opened, OnlyTheAimedFails
  <2> QED BY <1>6, <2>1, <2>2, <2>3, <2>4, <2>5 DEF CancelStep
<1>7. CASE CallerStep
  <2>1. CASE GoOn
    <3>1. ~flag /\ cn = Idle /\ cn' = Idle /\ ~Calling'
      BY <2>1 DEF GoOn, Settled, IInv, FlagIsAimed, Calling, Active
    <3>2. \A s \in open : conn[s] # "shut"
      BY <2>1 DEF GoOn, Settled, IInv, ShutIsAimed
    <3>3. ShutIsAimed' /\ Canceller'
      BY <2>1, <3>1, <3>2 DEF GoOn, ShutIsAimed, Canceller
    <3> QED BY <1>0, <2>1, <3>1, <3>3 DEF GoOn, Settled, IInv, FlagIsAimed, WakeIsAimed, Opened,
          OnlyTheAimedFails
  <2>2. CASE InterruptClear
    <3>1. cn = Idle /\ cn' = Idle /\ ~flag' /\ at = "returned" /\ at' \in {"discard", "idle"}
      BY <2>2 DEF InterruptClear, Settled
    <3>2. ShutIsAimed'
      BY <2>2, <3>1 DEF InterruptClear, IInv, ShutIsAimed
    <3> QED BY <1>0, <2>2, <3>1, <3>2 DEF InterruptClear, IInv, Canceller, FlagIsAimed, WakeIsAimed,
          Opened, OnlyTheAimedFails
  <2>3. CASE StoreFree
    <3>1. ~Calling /\ ~Calling' /\ ~flag
      BY <2>3 DEF StoreFree, Calling, Active, IInv, FlagIsAimed
    <3>2. Canceller'
      BY <2>3, <3>1 DEF StoreFree, IInv, Canceller, Aiming
    <3>3. ShutIsAimed'
      BY <2>3, <3>1 DEF StoreFree, IInv, ShutIsAimed
    <3> QED BY <1>0, <2>3, <3>1, <3>2, <3>3 DEF StoreFree, IInv, FlagIsAimed, WakeIsAimed, Opened,
          OnlyTheAimedFails
  <2>4. ASSUME NEW s \in Store, StoreOpen(s) PROVE IInv'
    <3>1. ~Calling /\ ~Calling' /\ ~flag
      BY <2>4 DEF StoreOpen, Calling, Active, IInv, FlagIsAimed
    <3>2. Canceller'
      BY <2>4, <3>1 DEF StoreOpen, IInv, Canceller, Aiming
    <3>3. \A t \in open : conn[t] # "shut"
      BY <2>4, <3>1 DEF StoreOpen, IInv, ShutIsAimed
    <3>4. \A t \in open' : conn'[t] # "shut"
      BY <1>0, <2>4, <3>3 DEF StoreOpen, TypeOK
    <3> QED BY <1>0, <2>4, <3>1, <3>2, <3>4 DEF StoreOpen, IInv, FlagIsAimed, WakeIsAimed,
          ShutIsAimed, Opened, OnlyTheAimedFails
  <2> QED BY <1>7, <2>1, <2>2, <2>3, <2>4 DEF CallerStep
<1>8. CASE UNCHANGED vars
  BY <1>0, <1>8 DEF vars, IInv, Canceller, Aiming, Calling, Next2Do, FlagIsAimed, WakeIsAimed,
    ShutIsAimed, Opened, OnlyTheAimedFails
<1> QED BY <1>1, <1>2, <1>3, <1>4, <1>5, <1>6, <1>7, <1>8 DEF Next

(* The invariant holds in every state of every behaviour. *)
LEMMA Inductive ==
  ASSUME WaitsForInterrupter
  PROVE  Spec => []IInv
BY InitIInv, NextIInv, PTL DEF Spec

-----------------------------------------------------------------------------
(* The flag, the stores and the two goroutines keep their types, whether    *)
(* the caller waits or not.                                                *)
THEOREM TypeCorrect == Spec => []TypeOK
BY InitTypeOK, NextTypeOK, PTL DEF Spec

(* A call fails only if somebody cancelled that very call, and finds its    *)
(* error on its context.                                                   *)
THEOREM CancellationIsAimed ==
  ASSUME WaitsForInterrupter
  PROVE  Spec => []OnlyTheAimedFails
<1>1. IInv => OnlyTheAimedFails
  BY DEF IInv
<1> QED BY Inductive, <1>1, PTL

(* Neither an operation nor a StoreInterrupt whose operation has returned   *)
(* uses a store that was freed.                                            *)
THEOREM StoresOutliveTheirUse ==
  ASSUME WaitsForInterrupter
  PROVE  Spec => []NoUseAfterFree
<1>1. IInv => NoUseAfterFree
  <2> SUFFICES ASSUME IInv PROVE NoUseAfterFree
    OBVIOUS
  <2>1. ASSUME at \in Active PROVE store \in open
    BY <2>1 DEF IInv, Opened, Active
  <2>2. ASSUME Next2Do("cast") PROVE cn.store \in open
    <3>1. cn.store = store /\ Calling
      BY <2>2, Aimed DEF Next2Do, Aiming
    <3> QED BY <3>1 DEF IInv, Opened, Calling, Active
  <2> QED BY <2>1, <2>2 DEF NoUseAfterFree
<1> QED BY Inductive, <1>1, PTL

-----------------------------------------------------------------------------
(* The inductive invariant of LogSinks: where the sinks are at each step of *)
(* an install.                                                              *)

InstallType ==
  [at : {"idle", "open", "move", "tee"}, destination : Destination \cup {Null},
   tee : Seq(Destination)]

SinksKept ==
  /\ install \in InstallType
  /\ install.at = "idle" => install = NoInstall
  /\ install.at # "idle" => running
  /\ install.at \in {"move", "tee"} => install.destination \in Destination
  /\ running /\ install.at # "tee" => logger = installed
  /\ install.at = "tee" => install.tee = installed

LogIInv == LogTypeOK /\ SinksKept /\ EverySinkGetsEverything

(* A sink of a logger gets an event a natural number of times. *)
LEMMA TimesIsNat ==
  ASSUME NEW sinks \in Seq(Destination), NEW d
  PROVE  Times(d, sinks) \in Nat
<1>1. DOMAIN sinks = 1 .. Len(sinks) /\ Len(sinks) \in Nat
  OBVIOUS
<1>2. IsFiniteSet(DOMAIN sinks)
  BY <1>1, FS_Interval
<1>3. {i \in DOMAIN sinks : sinks[i] = d} \in SUBSET DOMAIN sinks
  OBVIOUS
<1> QED BY <1>2, <1>3, FS_Subset, FS_CardinalityType DEF Times

(* Delivering an event appends its number, and no other. *)
LEMMA DeliveredType ==
  ASSUME NEW sinks \in Seq(Destination), events \in Nat,
         records \in [Destination -> Seq(1 .. events)]
  PROVE  Delivered(records, sinks) \in [Destination -> Seq(1 .. events + 1)]
<1> SUFFICES ASSUME NEW d \in Destination
             PROVE  records[d] \o [i \in 1 .. Times(d, sinks) |-> events + 1]
                      \in Seq(1 .. events + 1)
  BY DEF Delivered
<1>1. records[d] \in Seq(1 .. events + 1)
  <2>1. records[d] \in Seq(1 .. events)
    OBVIOUS
  <2>2. \A i \in 1 .. Len(records[d]) : records[d][i] \in 1 .. events + 1
    BY <2>1
  <2> QED BY <2>1, <2>2
<1>2. [i \in 1 .. Times(d, sinks) |-> events + 1] \in Seq(1 .. events + 1)
  BY TimesIsNat
<1> QED BY <1>1, <1>2

-----------------------------------------------------------------------------
(* The invariant holds initially. *)
LEMMA LogInitIInv == LogInit => LogIInv
BY NullAssumption, BoundAssumption DEF LogInit, LogIInv, LogTypeOK, SinksKept, InstallType,
   NoInstall, EverySinkGetsEverything

(* Every step of an install, of a caller or of the system preserves it. *)
LEMMA LogNextIInv == LogIInv /\ [LogNext]_logVars => LogIInv'
<1> SUFFICES ASSUME LogIInv, [LogNext]_logVars PROVE LogIInv'
  OBVIOUS
<1> USE NullAssumption DEF LogIInv, EverySinkGetsEverything
<1>1. ASSUME NEW d \in Destination \cup {Null}, InstallCall(d) PROVE LogIInv'
  BY <1>1 DEF InstallCall, Quiet, Install, NoInstall, LogTypeOK, SinksKept, InstallType
<1>2. CASE Refused
  BY <1>2 DEF Refused, NoInstall, LogTypeOK, SinksKept, InstallType
<1>3. CASE Open
  BY <1>3 DEF Open, LogTypeOK, SinksKept, InstallType
<1>4. CASE Move
  BY <1>4 DEF Move, LogTypeOK, SinksKept, InstallType
<1>5. CASE Abort
  <2>1. NoInstall \in InstallType /\ NoInstall.at = "idle" /\ NoInstall.tee \in Seq(Destination)
    BY DEF NoInstall, InstallType
  <2>2. LogTypeOK' /\ EverySinkGetsEverything'
    <3>1. running' \in BOOLEAN
      BY <1>5, Zenon DEF Abort
    <3> QED BY <1>5, <2>1, <3>1 DEF Abort, LogTypeOK
  <2>3. SinksKept'
    BY <1>5, <2>1 DEF Abort, SinksKept
  <2> QED BY <2>2, <2>3
<1>6. CASE Assign
  <2>1. /\ install.tee = installed /\ installed \in Seq(Destination)
        /\ install.destination \in Destination
    BY <1>6 DEF Assign, LogTypeOK, SinksKept
  <2>2. logger' = installed' /\ installed' \in Seq(Destination)
    BY <1>6, <2>1 DEF Assign
  <2>3. install' = NoInstall /\ NoInstall \in InstallType /\ NoInstall.at = "idle"
        /\ NoInstall.tee \in Seq(Destination)
    BY <1>6 DEF Assign, NoInstall, InstallType
  <2> QED BY <1>6, <2>2, <2>3 DEF Assign, LogTypeOK, SinksKept
<1>7. CASE SetLogFormat
  BY <1>7 DEF SetLogFormat, Quiet, NoInstall, LogTypeOK, SinksKept, InstallType
<1>8. CASE Log
  <2>1. logger = installed /\ installed \in Seq(Destination)
    BY <1>8 DEF Log, Quiet, NoInstall, LogTypeOK, SinksKept
  <2>2. records' = due'
    BY <1>8, <2>1 DEF Log
  <2>3. records' \in [Destination -> Seq(1 .. events')] /\ events' \in 0 .. MaxEvents
    <3>1. events \in Nat /\ events + 1 \in 0 .. MaxEvents /\ events' = events + 1
      BY <1>8, BoundAssumption DEF Log, LogTypeOK
    <3>2. Delivered(records, installed) \in [Destination -> Seq(1 .. events + 1)]
      BY <2>1, <3>1, DeliveredType DEF LogTypeOK
    <3> QED BY <1>8, <2>1, <3>1, <3>2 DEF Log
  <2> QED BY <1>8, <2>2, <2>3 DEF Log, LogTypeOK, SinksKept
<1>9. CASE Restart
  BY <1>9 DEF Restart, LogTypeOK, SinksKept
<1>10. CASE UNCHANGED logVars
  BY <1>10 DEF logVars, LogTypeOK, SinksKept
<1> QED BY <1>1, <1>2, <1>3, <1>4, <1>5, <1>6, <1>7, <1>8, <1>9, <1>10 DEF LogNext

(* The invariant holds in every state of every behaviour. *)
LEMMA LogInductive == LogSpec => []LogIInv
BY LogInitIInv, LogNextIInv, PTL DEF LogSpec

-----------------------------------------------------------------------------
(* The logger, the install and the records keep their types. *)
THEOREM LogTypeCorrect == LogSpec => []LogTypeOK
<1>1. LogIInv => LogTypeOK
  BY DEF LogIInv
<1> QED BY LogInductive, <1>1, PTL

(* Between calls operations find a logger, whatever install was refused and *)
(* however often a process was aborted and started again.                  *)
THEOREM LoggerIsNeverMissing == LogSpec => []LoggerIsThere
<1>1. LogIInv => LoggerIsThere
  <2> SUFFICES ASSUME LogIInv, Quiet PROVE logger # Null
    BY DEF LoggerIsThere
  <2>1. logger = installed /\ installed \in Seq(Destination)
    BY DEF LogIInv, Quiet, NoInstall, SinksKept, LogTypeOK
  <2> QED BY <2>1, NullAssumption
<1> QED BY LogInductive, <1>1, PTL

(* Each destination gets each event once for each of its sinks, in order.   *)
THEOREM SinksGetEverything == LogSpec => []EverySinkGetsEverything
<1>1. LogIInv => EverySinkGetsEverything
  BY DEF LogIInv
<1> QED BY LogInductive, <1>1, PTL
=============================================================================
