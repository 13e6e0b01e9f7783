----------------------------- MODULE Lifecycle ------------------------------
(***************************************************************************)
(* Sessions of one Pi process: the handlers of session_start,              *)
(* session_info_changed and session_shutdown (src/src/pi/lifecycle.ts,     *)
(* src/src/index.ts) and the runtimes they start and stop                  *)
(* (src/src/runtime/composition.ts), each with its CardRegistry.           *)
(*                                                                         *)
(* A handler of a start or a shutdown runs over many awaits.  Handlers says *)
(* how many of them the host lets run at a time: one, if it waits for each  *)
(* before it emits the next event.  Renames, the work of the router and the *)
(* queues of the registries interleave with it in any case.                *)
(*                                                                         *)
(* Runtimes are numbered by generation.  The transport is its binding, the  *)
(* router is open until the composition is shut down, and of the adapter    *)
(* there is the delivery to Pi that index.ts gives it.                     *)
(***************************************************************************)
EXTENDS CardRegistry, FiniteSets

CONSTANTS Handlers, None

ASSUME RuntimesAreGenerations ==
    IsFiniteSet(Runtimes) /\ Runtimes = 1 .. Cardinality(Runtimes)
ASSUME FieldsAssumption == {"displayName", "state"} \subseteq Fields
ASSUME NoneAssumption == None \notin Runtimes

VARIABLES
    generation,   \* how many runtimes were created
    active,       \* the runtime that the lifecycle exposes
    stopping,     \* the runtime whose shutdown is under way
    handler,      \* where the handlers of starts and shutdowns wait
    target,       \* the runtime that they wait for
    bound,        \* transports that listen
    delivery,     \* adapters that can deliver to Pi
    closing       \* how far PiToPiRuntimeComposition.shutdown has come

sessionVars == <<generation, active, stopping, handler, target>>
compositionVars == <<bound, delivery, closing>>
vars == <<registryVars, sessionVars, compositionVars>>

Stages == {"idle", "stopOld", "stopLast", "waitToStart", "waitToStop", "bind", "publish",
           "abort"}

TypeOK ==
    /\ RegistryTypeOK
    /\ generation \in 0 .. Cardinality(Runtimes)
    /\ active \in Runtimes \cup {None}
    /\ stopping \in Runtimes \cup {None}
    /\ handler \in [Handlers -> Stages]
    /\ target \in [Handlers -> Runtimes \cup {None}]
    /\ bound \in [Runtimes -> BOOLEAN]
    /\ delivery \in [Runtimes -> BOOLEAN]
    /\ closing \in [Runtimes -> {"no", "registry", "transport", "closed", "failed"}]

Init ==
    /\ RegistryInit
    /\ generation = 0
    /\ active = None
    /\ stopping = None
    /\ handler = [h \in Handlers |-> "idle"]
    /\ target = [h \in Handlers |-> None]
    /\ bound = [r \in Runtimes |-> FALSE]
    /\ delivery = [r \in Runtimes |-> FALSE]
    /\ closing = [r \in Runtimes |-> "no"]

-----------------------------------------------------------------------------
(* One runtime. *)

\* Shutdown fences delivery and closes the router at once, then the registry
\* shuts down.  A second call gets the promise of the first.
ShutDownComposition(r) ==
    IF closing[r] # "no" THEN UNCHANGED <<registryVars, compositionVars>>
    ELSE /\ delivery' = [delivery EXCEPT ![r] = FALSE]
         /\ closing' = [closing EXCEPT ![r] = "registry"]
         /\ ShutDown(r)
         /\ UNCHANGED bound

\* When its registry is shut down, the transport stops to listen.
CloseTransport(r) ==
    /\ closing[r] = "registry"
    /\ shutdown[r] = "done"
    /\ closing' = [closing EXCEPT ![r] = "transport"]
    /\ bound' = [bound EXCEPT ![r] = FALSE]
    /\ UNCHANGED <<registryVars, sessionVars, delivery>>

\* Sockets are drained and the socket file is removed, or not in time.
CompositionCloses(r) ==
    /\ closing[r] = "transport"
    /\ \E outcome \in {"closed", "failed"} : closing' = [closing EXCEPT ![r] = outcome]
    /\ stopping' = IF stopping = r THEN None ELSE stopping
    /\ UNCHANGED <<registryVars, generation, active, handler, target, bound, delivery>>

Over(r) == closing[r] \in {"closed", "failed"}

\* Every step of an inbound task is published as a change of presence.  Peers
\* learn from the card where to send their requests.
PresenceChanges(r) ==
    /\ bound[r]
    /\ file[r] # NoCard
    /\ closing[r] = "no"
    /\ \E v \in Values : UpdateMetadata(r, "state", v)
    /\ UNCHANGED <<sessionVars, compositionVars>>

-----------------------------------------------------------------------------
(* Session events. *)

Goto(h, stage, r) ==
    /\ handler' = [handler EXCEPT ![h] = stage]
    /\ target' = [target EXCEPT ![h] = r]

Return(h) == Goto(h, "idle", None)

\* The handler stops the active runtime, which is not exposed from then on.
Stop(h, stage) ==
    /\ active # None
    /\ ShutDownComposition(active)
    /\ active' = None
    /\ stopping' = active
    /\ Goto(h, stage, active)
    /\ UNCHANGED generation

\* A new generation binds its endpoint.
Create(h) ==
    /\ generation < Cardinality(Runtimes)
    /\ generation' = generation + 1
    /\ Goto(h, "bind", generation + 1)
    /\ UNCHANGED <<registryVars, compositionVars, active, stopping>>

WaitForStop(h, stage) ==
    /\ Goto(h, stage, stopping)
    /\ UNCHANGED <<registryVars, compositionVars, generation, active, stopping>>

SessionStart(h) ==
    /\ handler[h] = "idle"
    /\ generation < Cardinality(Runtimes)
    /\ \/ Stop(h, "stopOld")
       \/ /\ active = None
          /\ IF stopping = None THEN Create(h) ELSE WaitForStop(h, "waitToStart")

\* The shutdown that a start waited for is over; if it failed, so does the start.
OldIsStopped(h) ==
    /\ handler[h] \in {"stopOld", "waitToStart"}
    /\ Over(target[h])
    /\ \/ /\ closing[target[h]] = "failed"
          /\ Return(h)
          /\ UNCHANGED <<registryVars, compositionVars, generation, active, stopping>>
       \/ /\ closing[target[h]] = "closed"
          /\ IF stopping = None THEN Create(h) ELSE WaitForStop(h, "waitToStart")

\* The endpoint is bound and the registry starts to publish.
Binds(h) ==
    /\ handler[h] = "bind"
    /\ bound' = [bound EXCEPT ![target[h]] = TRUE]
    /\ StartLease(target[h])
    /\ Goto(h, "publish", target[h])
    /\ UNCHANGED <<generation, active, stopping, delivery, closing>>

BindFails(h) ==
    /\ handler[h] = "bind"
    /\ Return(h)
    /\ UNCHANGED <<registryVars, compositionVars, generation, active, stopping>>

\* The first card is out: the runtime is exposed and may deliver to Pi.
StartSucceeds(h) ==
    /\ handler[h] = "publish"
    /\ startOf[target[h]] = "done"
    /\ active' = target[h]
    /\ delivery' = [delivery EXCEPT ![target[h]] = TRUE]
    /\ Return(h)
    /\ UNCHANGED <<registryVars, generation, stopping, bound, closing>>

\* A failed start that leaves its runtime as it is.
AbandonStart(h) ==
    /\ handler[h] = "publish"
    /\ startOf[target[h]] = "failed"
    /\ Return(h)
    /\ UNCHANGED <<registryVars, compositionVars, generation, active, stopping>>

\* The first card could not be written: the composition shuts itself down.
AbortStart(h) ==
    /\ handler[h] = "publish"
    /\ startOf[target[h]] = "failed"
    /\ ShutDownComposition(target[h])
    /\ Goto(h, "abort", target[h])
    /\ UNCHANGED <<generation, active, stopping>>

SessionShutdown(h) ==
    /\ handler[h] = "idle"
    /\ \/ Stop(h, "stopLast")
       \/ active = None /\ stopping # None /\ WaitForStop(h, "waitToStop")

\* What the handler waited for is over, well or not, and so is the handler.
HandlerReturns(h) ==
    /\ handler[h] \in {"stopLast", "waitToStop", "abort"}
    /\ Over(target[h])
    /\ Return(h)
    /\ UNCHANGED <<registryVars, compositionVars, generation, active, stopping>>

\* A rename is published by the runtime that is active when it happens.
SessionRenamed ==
    /\ active # None
    /\ \E v \in Values : UpdateMetadata(active, "displayName", v)
    /\ UNCHANGED <<sessionVars, compositionVars>>

-----------------------------------------------------------------------------
HandlerStep(h) ==
    \/ OldIsStopped(h)
    \/ Binds(h)
    \/ BindFails(h)
    \/ StartSucceeds(h)
    \/ AbortStart(h)
    \/ HandlerReturns(h)

Next ==
    \/ \E h \in Handlers : SessionStart(h) \/ SessionShutdown(h) \/ HandlerStep(h)
    \/ SessionRenamed
    \/ \E r \in Runtimes :
          \/ CloseTransport(r)
          \/ CompositionCloses(r)
          \/ PresenceChanges(r)
          \/ RegistryStep(r) /\ UNCHANGED <<sessionVars, compositionVars>>

Spec == Init /\ [][Next]_vars

\* The host is under no obligation.  Whatever a handler waits for ends.
Fairness ==
    /\ RegistryFairness
    /\ \A h \in Handlers : WF_vars(HandlerStep(h))
    /\ \A r \in Runtimes : WF_vars(CloseTransport(r) \/ CompositionCloses(r))

FairSpec == Spec /\ Fairness

-----------------------------------------------------------------------------
(* Properties. *)

\* What others can find of a runtime: an endpoint that listens, a card that is
\* renewed, a card that is not yet given up.
IsOut(r) ==
    \/ bound[r]
    \/ lease[r] = "running"
    \/ file[r] # NoCard /\ shutdown[r] # "done"

\* A process has one runtime at a time, and when no handler is at work nothing
\* is left of any but the active one, which is fully there: whatever failed
\* on the way, the next start finds a clean slate.
OneRuntimeOut ==
    /\ \A r, s \in Runtimes : IsOut(r) /\ IsOut(s) => r = s
    /\ (\A h \in Handlers : handler[h] = "idle") => \A r \in Runtimes :
          IF r = active THEN bound[r] /\ delivery[r] /\ lease[r] = "running"
          ELSE ~IsOut(r) /\ ~delivery[r]

\* What holds in every state, whatever failed or overlapped.
Sound == TypeOK /\ OneRuntimeOut

\* A card is published only when requests that it attracts can be delivered.
\* The code says otherwise: index.ts binds the adapter after composition.start.
PublishedIsReady == \A r \in Runtimes : file[r] # NoCard /\ closing[r] = "no" => delivery[r]

\* Every handler of a start or a shutdown returns.
HandlersReturn == \A h \in Handlers : (handler[h] # "idle") ~> (handler[h] = "idle")

\* Nothing gets stuck: neither a handler nor the renewals of a running lease.
EverythingGoesOn == HandlersReturn /\ RenewalsGoOn
=============================================================================
