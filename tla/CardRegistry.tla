---------------------------- MODULE CardRegistry ----------------------------
(***************************************************************************)
(* The owner's side of discovery: AgentCardRegistry and the SerializedLease *)
(* that renews its card (src/src/discovery/agent-card-registry.ts,          *)
(* src/src/discovery/lease.ts).  Every runtime has one of each.            *)
(*                                                                         *)
(* Two queues of promises order the work of a runtime.  The lease runs one  *)
(* renewal at a time; a renewal whose turn it is puts a publication into    *)
(* the queue of the registry and waits for it.  Updates of the metadata go  *)
(* into the same queue.  Callbacks of both queues, the renewal timer and    *)
(* shutdown interleave at every await.                                      *)
(*                                                                         *)
(* A publication is serialised with other processes by CardLock, which this *)
(* module does not repeat: a write ends well, or fails before or after the  *)
(* rename that makes the card visible.  Neither write deadlines (production *)
(* sets none) nor expiry of the published card are modelled.               *)
(***************************************************************************)
EXTENDS Naturals, Sequences

CONSTANTS
    Runtimes,         \* the registries, by the runtime that owns them
    Fields,           \* the fields of the metadata that updates change
    Values,           \* what a field may hold
    InitialValue,     \* what every field holds at first
    NoCard,           \* there is no card
    MaxRenewals,      \* bound on the renewals that wait
    MaxPublications   \* bound on the updates that wait

ASSUME ValuesAssumption == InitialValue \in Values
ASSUME BoundsAssumption == MaxRenewals \in Nat /\ MaxPublications \in Nat

VARIABLES
    lease,         \* SerializedLease.state
    renewals,      \* the renewals in the lease's queue, by who asked
    renewal,       \* how far the first of them has come
    startOf,       \* the promise of AgentCardRegistry.start
    publications,  \* the queue of publications
    writing,       \* how far the write of the first of them has come
    metadata,      \* what the next card will say
    previous,      \* what is restored when the publication under way fails
    card,          \* currentCardValue, the last card known to be written
    file,          \* the card in the shared directory
    shutdown,      \* how far AgentCardRegistry.shutdown has come
    awaited        \* publications that shutdown still waits for

registryVars == <<lease, renewals, renewal, startOf, publications, writing,
                  metadata, previous, card, file, shutdown, awaited>>
leaseVars == <<lease, renewals, renewal, startOf>>
cardVars == <<metadata, previous, card, file>>

Metadata == [Fields -> Values]

\* A publication is the lease's, or it first sets one field.
Publications == [by : {"lease"}] \cup [by : {"update"}, field : Fields, value : Values]
Renewal == [by |-> "lease"]

RegistryTypeOK ==
    /\ lease \in [Runtimes -> {"idle", "running", "stopped"}]
    /\ renewals \in [Runtimes -> Seq({"start", "timer"})]
    /\ renewal \in [Runtimes -> {"waiting", "queued", "done", "failed"}]
    /\ startOf \in [Runtimes -> {"no", "pending", "failing", "done", "failed"}]
    /\ publications \in [Runtimes -> Seq(Publications)]
    /\ writing \in [Runtimes -> {"no", "temporary", "renamed"}]
    /\ metadata \in [Runtimes -> Metadata]
    /\ previous \in [Runtimes -> Metadata]
    /\ card \in [Runtimes -> Metadata \cup {NoCard}]
    /\ file \in [Runtimes -> Metadata \cup {NoCard}]
    /\ shutdown \in [Runtimes -> {"no", "lease", "queue", "removal", "done"}]
    /\ awaited \in [Runtimes -> Nat]

RegistryInit ==
    /\ lease = [r \in Runtimes |-> "idle"]
    /\ renewals = [r \in Runtimes |-> <<>>]
    /\ renewal = [r \in Runtimes |-> "waiting"]
    /\ startOf = [r \in Runtimes |-> "no"]
    /\ publications = [r \in Runtimes |-> <<>>]
    /\ writing = [r \in Runtimes |-> "no"]
    /\ metadata = [r \in Runtimes |-> [f \in Fields |-> InitialValue]]
    /\ previous = metadata
    /\ card = [r \in Runtimes |-> NoCard]
    /\ file = [r \in Runtimes |-> NoCard]
    /\ shutdown = [r \in Runtimes |-> "no"]
    /\ awaited = [r \in Runtimes |-> 0]

-----------------------------------------------------------------------------
(* The lease. *)

\* The first start: the timer is set, and one renewal is due at once.
StartLease(r) ==
    /\ lease[r] = "idle"
    /\ lease' = [lease EXCEPT ![r] = "running"]
    /\ renewals' = [renewals EXCEPT ![r] = Append(@, "start")]
    /\ startOf' = [startOf EXCEPT ![r] = "pending"]
    /\ UNCHANGED <<renewal, publications, writing, cardVars, shutdown, awaited>>

RenewalTimerTicks(r) ==
    /\ lease[r] = "running"
    /\ Len(renewals[r]) < MaxRenewals
    /\ renewals' = [renewals EXCEPT ![r] = Append(@, "timer")]
    /\ UNCHANGED <<lease, renewal, startOf, publications, writing, cardVars, shutdown,
                   awaited>>

\* A renewal whose turn has come asks for a publication, unless the lease was
\* stopped while it waited.
RenewalTurn(r) ==
    /\ renewals[r] # <<>>
    /\ renewal[r] = "waiting"
    /\ \/ /\ lease[r] = "stopped"
          /\ renewal' = [renewal EXCEPT ![r] = "failed"]
          /\ UNCHANGED publications
       \/ /\ lease[r] # "stopped"
          /\ renewal' = [renewal EXCEPT ![r] = "queued"]
          /\ publications' = [publications EXCEPT ![r] = Append(@, Renewal)]
    /\ UNCHANGED <<lease, renewals, startOf, writing, cardVars, shutdown, awaited>>

\* A failed renewal that leaves the queue stuck.
RenewalSettlesIfDone(r) ==
    /\ renewal[r] = "done"
    /\ renewal' = [renewal EXCEPT ![r] = "waiting"]
    /\ renewals' = [renewals EXCEPT ![r] = Tail(@)]
    /\ startOf' = [startOf EXCEPT ![r] = IF Head(renewals[r]) = "start" THEN "done" ELSE @]
    /\ UNCHANGED <<lease, publications, writing, cardVars, shutdown, awaited>>

\* The outcome of a renewal reaches the lease and the next one gets its turn.
\* A start that fails stops the lease.
RenewalSettles(r) ==
    /\ renewal[r] \in {"done", "failed"}
    /\ renewal' = [renewal EXCEPT ![r] = "waiting"]
    /\ renewals' = [renewals EXCEPT ![r] = Tail(@)]
    /\ \/ /\ Head(renewals[r]) = "timer"
          /\ UNCHANGED <<lease, startOf>>
       \/ /\ Head(renewals[r]) = "start"
          /\ renewal[r] = "done"
          /\ startOf' = [startOf EXCEPT ![r] = "done"]
          /\ UNCHANGED lease
       \/ /\ Head(renewals[r]) = "start"
          /\ renewal[r] = "failed"
          /\ startOf' = [startOf EXCEPT ![r] = "failing"]
          /\ lease' = [lease EXCEPT ![r] = "stopped"]
    /\ UNCHANGED <<publications, writing, cardVars, shutdown, awaited>>

\* A start that failed is reported when the renewals behind it are through.
StartFails(r) ==
    /\ startOf[r] = "failing"
    /\ renewals[r] = <<>>
    /\ startOf' = [startOf EXCEPT ![r] = "failed"]
    /\ UNCHANGED <<lease, renewals, renewal, publications, writing, cardVars, shutdown,
                   awaited>>

-----------------------------------------------------------------------------
(* Publications. *)

Patched(m, p) == IF p.by = "update" THEN [m EXCEPT ![p.field] = p.value] ELSE m

\* A caller asks to publish a changed field.
UpdateMetadata(r, f, v) ==
    /\ Len(publications[r]) < MaxPublications
    /\ publications' = [publications EXCEPT
          ![r] = Append(@, [by |-> "update", field |-> f, value |-> v])]
    /\ UNCHANGED <<leaseVars, writing, cardVars, shutdown, awaited>>

Stopped(r) == shutdown[r] # "no" \/ lease[r] = "stopped"

\* The first publication is through: its caller is told, the next gets its turn.
Settled(r, ok) ==
    /\ publications' = [publications EXCEPT ![r] = Tail(@)]
    /\ writing' = [writing EXCEPT ![r] = "no"]
    /\ awaited' = [awaited EXCEPT ![r] = IF @ > 0 THEN @ - 1 ELSE 0]
    /\ renewal' = IF Head(publications[r]).by = "update" THEN renewal
                  ELSE [renewal EXCEPT ![r] = IF ok THEN "done" ELSE "failed"]

\* A publication whose turn has come changes the metadata and starts to write
\* the card, unless the registry was stopped while it waited.
PublicationTurn(r) ==
    /\ publications[r] # <<>>
    /\ writing[r] = "no"
    /\ \/ /\ Stopped(r)
          /\ Settled(r, FALSE)
          /\ UNCHANGED <<metadata, previous>>
       \/ /\ ~Stopped(r)
          /\ previous' = [previous EXCEPT ![r] = metadata[r]]
          /\ metadata' = [metadata EXCEPT ![r] = Patched(@, Head(publications[r]))]
          /\ writing' = [writing EXCEPT ![r] = "temporary"]
          /\ UNCHANGED <<publications, awaited, renewal>>
    /\ UNCHANGED <<lease, renewals, startOf, card, file, shutdown>>

\* The rename makes the new card visible to everybody.
CardRenamed(r) ==
    /\ writing[r] = "temporary"
    /\ writing' = [writing EXCEPT ![r] = "renamed"]
    /\ file' = [file EXCEPT ![r] = metadata[r]]
    /\ UNCHANGED <<leaseVars, publications, metadata, previous, card, shutdown, awaited>>

PublicationSucceeds(r) ==
    /\ writing[r] = "renamed"
    /\ card' = [card EXCEPT ![r] = metadata[r]]
    /\ previous' = [previous EXCEPT ![r] = metadata[r]]
    /\ Settled(r, TRUE)
    /\ UNCHANGED <<lease, renewals, startOf, metadata, file, shutdown>>

\* A failed update that leaves its value behind.
PublicationFailsForward(r) ==
    /\ writing[r] # "no"
    /\ Settled(r, FALSE)
    /\ UNCHANGED <<lease, renewals, startOf, cardVars, shutdown>>

\* The lock, the disk or the check of permissions fails, before the rename or
\* after it: the metadata is as before.
PublicationFails(r) ==
    /\ writing[r] # "no"
    /\ metadata' = [metadata EXCEPT ![r] = previous[r]]
    /\ Settled(r, FALSE)
    /\ UNCHANGED <<lease, renewals, startOf, previous, card, file, shutdown>>

-----------------------------------------------------------------------------
(* Shutdown. *)

\* The first call of shutdown; later ones get the same promise.
ShutDown(r) ==
    IF shutdown[r] # "no" THEN UNCHANGED registryVars
    ELSE /\ shutdown' = [shutdown EXCEPT ![r] = "lease"]
         /\ lease' = [lease EXCEPT ![r] = "stopped"]
         /\ UNCHANGED <<renewals, renewal, startOf, publications, writing, cardVars,
                        awaited>>

\* A shutdown that does not wait for the publications under way.
AwaitNothing(r) ==
    /\ shutdown[r] = "lease"
    /\ renewals[r] = <<>>
    /\ shutdown' = [shutdown EXCEPT ![r] = "queue"]
    /\ awaited' = [awaited EXCEPT ![r] = 0]
    /\ UNCHANGED <<leaseVars, publications, writing, cardVars>>

\* The lease has settled: wait for the publications there are by now.
AwaitPublications(r) ==
    /\ shutdown[r] = "lease"
    /\ renewals[r] = <<>>
    /\ shutdown' = [shutdown EXCEPT ![r] = "queue"]
    /\ awaited' = [awaited EXCEPT ![r] = Len(publications[r])]
    /\ UNCHANGED <<leaseVars, publications, writing, cardVars>>

PublicationsSettled(r) ==
    /\ shutdown[r] = "queue"
    /\ awaited[r] = 0
    /\ shutdown' = [shutdown EXCEPT ![r] = "removal"]
    /\ UNCHANGED <<leaseVars, publications, writing, cardVars, awaited>>

\* The removal may fail, then the card stays until it expires.
RemoveCard(r) ==
    /\ shutdown[r] = "removal"
    /\ file' \in {file, [file EXCEPT ![r] = NoCard]}
    /\ card' = [card EXCEPT ![r] = NoCard]
    /\ shutdown' = [shutdown EXCEPT ![r] = "done"]
    /\ UNCHANGED <<leaseVars, publications, writing, metadata, previous, awaited>>

-----------------------------------------------------------------------------
\* What the promises, the timer and the file system do on their own.
RegistryStep(r) ==
    \/ RenewalTimerTicks(r)
    \/ RenewalTurn(r)
    \/ RenewalSettles(r)
    \/ StartFails(r)
    \/ PublicationTurn(r)
    \/ CardRenamed(r)
    \/ PublicationSucceeds(r)
    \/ PublicationFails(r)
    \/ AwaitPublications(r)
    \/ PublicationsSettled(r)
    \/ RemoveCard(r)

\* Timers tick, promises settle, and every file system call ends somehow.
RegistryFairness ==
    \A r \in Runtimes :
        /\ WF_registryVars(RenewalTimerTicks(r))
        /\ WF_registryVars(RenewalTurn(r))
        /\ WF_registryVars(RenewalSettles(r))
        /\ WF_registryVars(StartFails(r))
        /\ WF_registryVars(PublicationTurn(r))
        /\ WF_registryVars(CardRenamed(r) \/ PublicationSucceeds(r) \/ PublicationFails(r))
        /\ WF_registryVars(AwaitPublications(r))
        /\ WF_registryVars(PublicationsSettled(r))
        /\ WF_registryVars(RemoveCard(r))
-----------------------------------------------------------------------------
(* Properties of each registry, whatever uses it. *)

\* A card changes in a field only by an update of that field, and to its
\* value: no renewal publishes the leftovers of an update that failed, and no
\* update undoes another.
OnlyUpdatesChangeCards ==
    [][\A r \in Runtimes : card[r] # NoCard /\ card'[r] # NoCard =>
          \A f \in Fields : card'[r][f] # card[r][f] =>
              Head(publications[r]) = [by |-> "update", field |-> f, value |-> card'[r][f]]
      ]_registryVars

\* Once shutdown is over the card in the directory can only stay or go: no
\* renewal or update that was under way brings it back.
NothingAfterShutdown ==
    [][\A r \in Runtimes : shutdown[r] = "done" => file'[r] \in {file[r], NoCard}
      ]_registryVars

\* A running lease tries to write the card again and again, though earlier
\* attempts fail.
RenewalsGoOn ==
    \A r \in Runtimes :
        [](lease[r] = "running" => <>(lease[r] = "stopped" \/ writing[r] = "temporary"))
=============================================================================
