# pi-to-pi: TLA+ specifications, model checking and proofs

pi-to-pi lets Pi coding-agent sessions on one machine find each other and hand
each other work. Every session runs one *runtime*: it publishes an agent card in
a shared directory, listens on a local socket, sends requests to peers, and
carries out the requests that peers send to it. This directory specifies the
parts of a runtime whose correctness depends on the order of events. All line
numbers below refer to files under `src/src/`.

Contents: [the system](#1-the-system), [the modules](#2-the-modules),
[the runs](#3-the-runs), [the proofs](#4-the-proofs),
[where code and documentation disagree](#5-where-the-code-and-its-documentation-disagree),
[what is not covered](#6-what-is-not-covered), [the plan](#7-the-plan).

## 1. The system

A runtime is one Node process (one thread; a callback runs to its end), so inside
a runtime what interleaves are callbacks: timers, socket events, settled promises,
calls of the host. Between runtimes there are messages over local sockets, and a
directory of card files with lock files.

| component | state | operations | talks to |
|---|---|---|---|
| Task state machine, `protocol/task-state.ts` | none | legal transitions, terminal test | used by store and router |
| Task store, `router/task-store.ts` | task records with two timers and an abort signal each, `queued` index, disposed flag | create, transition, begin, cancel, complete, fail, reject, expire, list, purge, dispose | called by the router, timers |
| Routing policy, `router/policy.ts` | FIFO queue, active slots, token counter | admit, release, remove, drain, expire | called by the router; probes tasks through a callback |
| Message router, `router/router.ts` | tables of inbound and outbound requests, pending operations, leases, expiry timers, stores above | receive (request, reply, notify, describe, cancel, status, responses), send, finish task, close | store, policy, dedupe, executor, wire bridge |
| Dedupe store, `router/dedupe.ts` | one record per sender and operation, with a timer | inspect, reserve, commit, release, prune, close | called by the router |
| Pi adapter, `pi/adapter.ts`, `pi/tools.ts`, `pi/messages.ts` | the active session, the requests it sent and got, the results it was told | executor, reply tool, injection of terminal results | router, Pi host |
| Wire bridge, `runtime/wire-bridge.ts` | none | one exchange per envelope | router, transport |
| Local IPC transport, `transport/local-ipc.ts`, `transport/frame-codec.ts` | server, sockets, decoders, a chain of binds and close, the identity of its socket file | bind, request, serve, close, clean up stale files | wire bridge, file system, other processes |
| Card files and card lock, `discovery/filesystem.ts` | a lock file and a card file per runtime id, shared by processes | lock, reclaim, publish atomically, compare-and-delete | registry, other processes |
| Card registry and lease, `discovery/agent-card-registry.ts`, `discovery/lease.ts` | the committed card, a queue of publications, a renewal timer | publish, renew, update, read, clean up, shut down | card files |
| Composition and lifecycle, `runtime/composition.ts`, `pi/lifecycle.ts` | the active runtime, generations | start, stop, session events | all of the above |
| Runtime record registry, `discovery/registry.ts` | the committed record and name, a queue of publications, records to clean up | publish, renew, rename, list, remove, shut down | record files and their locks; not constructed in production |
| Validation, `protocol/validation.ts`, `messages.ts`, `errors.ts` | none | which envelopes, snapshots and answers are accepted, and when | router, codec |
| Lookup, naming, room, config, diagnostics | none, or a bounded ring | pure functions | the others |

What makes each hard, and what "correct" means for it:

* **Task store.** A task may be completed, failed, rejected, cancelled and expired
  at about the same time by five different callers and two timers, and every
  transition writes a record, an index, two timers and a signal. Correct: the
  first outcome wins for good; index, timers and signal always agree with the
  record; nothing but expiry happens after the deadline; every task is decided.
* **Router, receiving side.** Admission, queue, slots and tracking tables are
  separate pieces of state kept by separate objects, read through callbacks that
  may expire tasks as a side effect, on clocks that do not agree. Correct: limits
  hold; no slot is idle while a request waits; requests start in order and never
  late; the step that decides a task also frees its slot and answers; a request
  runs at most once and gets at most one, truthful, terminal reply.
* **Router, sending side.** The terminal reply may overtake the admission, be lost,
  or come after expiry. Correct: what the requester is told is what the peer
  decided, once; every send settles.
* **Dedupe store and operations.** Handlers hold reservations over an await, while
  retries, pruning and shutdown go on; two runtimes stamp what they build with clocks
  that differ. Correct: one execution at a time, one answer per operation, known for as
  long as a retry would be let through, then forgotten; what one runtime builds the
  other understands; only its requester stops a task.
* **Card lock.** Processes race over lock files that crashed processes leave behind,
  one system call at a time. Correct: one holder at a time but for the race between
  reclaimers that section 5 describes, no renewed card is deleted outside of it, a dead
  holder's lock does not block for ever.
* **Card registry, lifecycle.** Start, stop, renewal and shutdown overlap. Correct:
  nothing is published after shutdown, nothing stays bound, the newest generation is
  the one that is active.
* **Transport.** Bytes come in chunks, sockets fail, deadlines pass, and bind and close
  wait for each other; several processes bind, clean up and release one path. Correct:
  handlers get whole requests and callers whole responses; after close nothing is left
  and nothing starts; no cleanup takes the file of a live listener.
* **Record registry.** Publications, a shutdown and peers that remove what looks stale
  meet at one file. Correct: writers exclude each other, nobody removes a record that
  he has not examined, a failed rename is undone, shutdown leaves no record.

`PROJECT.json` lists every component with what is modelled of it, every hazard at
its line with the properties that would catch it, and for every definition that
models code the lines it stands for.

## 2. The modules

| module | what it is |
|---|---|
| `TaskStates` | the task state machine; constants only |
| `TaskStore` | the task store |
| `InboundRouter` | receiving side: router, policy, tasks, executor, timers |
| `RequestLife` | abstract: what a receiving runtime promises about one request |
| `OutboundRouter` | sending side, over a lossy network, to a peer that is `RequestLife` |
| `Envelopes` | what the router builds and what validation accepts; constants only |
| `DedupeStore` | the dedupe store and the handlers that hold its reservations |
| `Operations` | all operations between an asker, a stranger and an answerer, over `DedupeStore` and `Envelopes` |
| `FrameCodec` | frames and their incremental decoder; constants only |
| `LocalIpc` | transports: binds, requests, connections and close |
| `SocketPath` | the file of one endpoint, among processes |
| `CardLock` | card files and their cross-process lock |
| `CardRegistry` | the queues, updates and shutdown of one card registry and its lease |
| `Lifecycle` | session events and the runtimes they start and stop, each with its `CardRegistry` |
| `RuntimeRegistry` | the record file of one runtime, its owner and its peers |
| `TaskStoreProofs`, `InboundRouterProofs`, `OutboundRouterProofs`, `OperationsProofs`, `CardLockProofs`, `RuntimeRegistryProofs`, `LifecycleProofs` | theorems about the module of that name |
| `TransportProofs` | theorems about `FrameCodec`, `LocalIpc` and `SocketPath` |
| `MC*` | model values, clock groups and symmetry for TLC |

How they fit together:

    RequestLife      <-- implemented by --  InboundRouter  (checked and proved)
    RequestLife      --  used as the peer of -->  OutboundRouter
    Lifecycle        --  extends, one per runtime -->  CardRegistry
    Operations       --  extends -->  DedupeStore, Envelopes
    LocalIpc         --  runs on every chunk -->  FrameCodec

The two sides of the router are never composed into one state space. Instead the
receiving side is proved to implement `RequestLife`, and the sending side is
checked and proved against any peer that behaves as `RequestLife` allows. A composed model of
two full routers has too many states for TLC at any size where queueing matters.
`Operations` is the part of that composition that can be checked: it has two runtimes,
their clocks and everything they say to each other, and leaves the queue to
`InboundRouter`. `LocalIpc` and `SocketPath` share the path of an endpoint: the first
sees it free, taken or its own, the second sees every system call on it.

### How state and actions correspond to code

**TaskStore.** One variable per field of a record, as functions on tasks; a deadline
is the Boolean `due`, set by the environment action `DeadlineReached`. The store is
synchronous, so each call is one action. `Commit` is `tryTransition` from its
linearization point on, including index, timers and abort signal; `Transition` commits
any transition of the state machine, with the update's `cancellationRequested` or without.
The flag is set as `task-store.ts:1254-1257` does, so an accepted or queued task that a
caller moves straight to `cancelled` is aborted without it. Every public
call begins with `expireIfDue`; `ExpireOnCall` is a call that finds the task late,
all the other calls require it to be on time. `Dispose` clears everything and
aborts every signal.

**InboundRouter.** `ReceiveRequest` is `processMessageRequest`: replay from the dedupe
store, refusal, immediate start, queueing, and the case where the deadline passes
between the policy's admission and `createTask` (`AdmitTooLate`). `FinishTask` is
`finishTask` with the lease release and the drain it causes; `DrainQueue` states the
outcome of the recursive drain (which requests start, which stay) rather than its
recursion. `ExecutorReturns`, `ReplyTool`, `TaskCancel`, `ReadLateTask`,
`StoreTimerFires` and `RouterTimerFires` are the ways a task can be decided.
A deadline is read on four clocks (`wall`, `store`, `policy`, `timer`); the setting's
`clockGroups` say which of them pass the deadline of each request together.

**OutboundRouter.** `CreateRequest`/`SendAgain` are `createRequest` and `sendRequest`;
`ResponseArrives` is `processResponse` and `applyResponse`; `ReplyArrives` is
`processMessageReply`; `SendFails` is any failure of the exchange. `pending` is the send
that has the entry of the request's operation, `exchanges` the sends whose delivery is
awaited, `admission` the promises in the entries: a caller sees its promise only when its
own delivery has returned (`Waits`). `InjectTerminal` is the adapter's `injectTerminal`, and
a session is one `bind`. The network is a set of messages: nothing forces a delivery
(loss), any message may be taken at any time (delay, reordering), and replies stay in it
(duplication).

**DedupeStore, Envelopes, Operations.** `Reserve`, `Commit` and the rest of `DedupeStore` are
steps that `Operations` makes as conjuncts of its own. `Build` is one of the envelope
builders with `validateOutbound`; `Incoming` is what the wire may deliver, of the asker or in
a stranger's name; `Admissible` is `processInbound` up to the operation, and what it refuses
changes nothing. `ReceiveRequest`, `ReceiveNotification`, `ReceiveStatus` and `ReceiveCancel` are
the operations, the first also with the deadline passing between validation and `createTask`;
a notification is reserved, handled (`NotificationHandled`) and committed in
separate steps, because its handler is awaited. `Envelopes` says of every field whether it
is missing, malformed or good; `Issue`, `SnapshotIssue` and `ResponseIssue` name the error that
the first failing check reports.

**LocalIpc.** `lifecycle` is the chain `lifecycleTail` of `bind` and `close` calls, `step` what the
oldest waits for. A connection has two sockets, two decoders and two streams; `RequestChunk`
and `ResponseChunk` take any non-empty prefix of what is under way. `RequestFails` and
`ServingFails` are deadlines, signals and socket errors of either end, `ResponseSettles` the
end of a request. `Drained`, `ShutdownLate`, `ForceLate` and `EndpointReleased` are the
stretches of `closeInternal`.

**SocketPath.** `BindPath` to `Relisten` are the calls of `bindInternal` with
`removeStalePosixEndpoint`; `Verify`, `Move`, `Check`, `Reprobe`, `Unlink`, `Restore` and `Replace`
those of `unlinkOwnedSocket` and `restoreQuarantine`. `Replace` is the `rename` of a restore that
has found the path free a call earlier. `CallFails` is a failing call, after which the catch of
`unlinkOwnedSocket` restores what was moved; `CutOff` is the deadline, after which nothing more is
tried, though a `rename` or `unlink` under way may still happen.

**RuntimeRegistry.** A worker is a call that goes for the lock: one of each peer, and of the
owner its publisher and its remover, which exclude each other by `withWriteLock`. `Look`,
`Recheck` and `Unlink` are the removal, `TakeUp` and `PublisherReturns` the chain
`pendingPublication` with the rollback of `updateNetworkName`.

**CardLock.** One action per file system call of `acquireCardWriteLock`,
`reclaimStaleCardLock` and the release, for every process: the grain matters, because
between checking a path and unlinking it anybody may change what it holds. The
comparison of inode, size and time is modelled by flags (`sameLock`, `sameCard`) that
every change of the path clears. `GiveUpCreated` and `ReleaseFails` may leave the lock of a
living process behind. `slipped` records that a reclaimer's `unlink` took a lock other than
the abandoned one that it had checked. No code under `src/` calls the exported cleanup
functions, so processes contend only when a user of the library does.

**CardRegistry.** The two promise chains are sequences: `renewals` (`SerializedLease.pending`)
and `publications` (`AgentCardRegistry.pendingPublication`). A renewal whose turn has
come (`RenewalTurn`) puts a publication into the other queue and waits for it
(`RenewalSettles`). `PublicationTurn` is the callback up to its first await, with the
check whether the registry was stopped; `CardRenamed`, `PublicationSucceeds` and
`PublicationFails` are the write, which may fail before or after the rename. `ShutDown`,
`AwaitPublications`, `PublicationsSettled` and `RemoveCard` are the stretches of `shutdown`
between its awaits.

**Lifecycle.** A handler of a start or shutdown is a place (`handler`) and the runtime that it
waits for (`target`). `Stop` is `stop`, including what `composition.shutdown` does before
its first await; `Binds`, `BindFails`, `StartSucceeds`, `AbortStart` are the outcomes of the
awaits of `composition.start`. A runtime is its number in order of creation. `Lifecycle`
calls the actions of `CardRegistry` (`StartLease`, `ShutDown`, `UpdateMetadata`) as
conjuncts of its own, and lets its `RegistryStep` interleave.

## 3. The runs

Every property of every passing run has a mutant: a variant of a definition that a
plausible bug would produce, under which TLC finds the property violated. They stand
in the modules just before the definition they vary, and in `PROJECT.json`.

| run | bounds | what it shows |
|---|---|---|
| `TaskStore` | 2 tasks, wall clock 0..2, finite retention | indexes, timers, signal and markers agree with the record in every state; work that is stopped was warned, and a record that says it was asked to stop did warn it; the first outcome wins; nothing but expiry after a deadline; every task is decided and then forgotten |
| `InboundRouter` | 1 slot, and four routers: 2 requests, no two clocks agree on one of them; 3 requests and 2 queue places; 3 and 1; 2 of which 1 is tracked, timers apart | queue, slots, tasks, leases and committed answers agree; no slot idles while somebody waits; starts are in order and never late; a closed router is quiet; the router implements `RequestLife`; every request is decided, though executors say nothing |
| `InboundRouter_slot_leak` | 2 requests; expected to fail | the slot of an expired task is not given back |
| `OutboundRouter_exchange` | 1 request; sent twice with room for 1 or 2 pending operations; or sent once while Pi's session changes twice | what the requester and its session are told is what the peer decided, once, in time; an admission is the peer's; every send that no other overlaps settles, and every entry of `pending` goes |
| `OutboundRouter_expiry` | 1 request, 1 send; expected to fail | the completion of an expired request never settles |
| `Operations` | 2 envelopes of 2 ids, 2 handlers, clock 0..5, lifetimes up to 3, clocks 1 apart; a stranger; notifications | one execution at a time, answers known as long as needed and then forgotten, envelopes and answers understood but for three named cases, tasks stopped by their requester only |
| `CardLock` | an owner and two cleaners, 2 mishaps: crashes, failing unlinks of a lock, locks written late | they exclude each other but for the one named case, which the run reaches; until it has happened a renewed card stays; a dead process's lock goes |
| `Lifecycle` | 2 generations, 1 handler at a time, 2 fields, 1 waiting renewal, 2 waiting publications | one runtime is out at a time and nothing is left of a stopped or failed one; a card says what updates said; no card comes back after shutdown; renewals go on after failures; every handler returns |
| `Lifecycle_early` | the same, 1 waiting publication; expected to fail | the card is out before the adapter can deliver |
| `LocalIpc` | 2 transports, 1 connection between them, of one with itself or with a stranger; header of 2 bytes of 2 values; whole, oversized and overlong frames | whole requests to handlers, whole responses to callers; nothing left behind by close and nothing new after it; everything settles |
| `SocketPath` | 3 processes, 4 socket files, 4 binds; crashes, failing calls and deadlines anywhere | no cleanup unlinks a live listener's file or a plain file; a listener taken away comes back |
| `RuntimeRegistry` | the owner alone with 3 calls and 3 failures; with a peer, 2 calls, a failure and a crash; with 2 peers, a call and a crash | exclusion, removal only of what was examined, rollback of renames, no record after shutdown, every call returns |

### Bounds and why they are enough

* *TaskStore*: two tasks, three wall-clock readings. Tasks interact only through the
  `queued` index and disposal, so a pair shows every interaction; three readings
  allow forward and backward jumps on both sides of a stamp.
* *InboundRouter*: with one slot and one queue place two requests already reach
  every action; three are needed for order in the queue, for a full queue, and for
  refusals. The four settings split the questions so that the run stays small: clocks
  that disagree on one of two requests, three requests on one clock, and one tracked
  request with timers that fire before any clock agrees.
* *OutboundRouter*: one request, sent up to twice. Requests are independent except
  for the `MaxTracked` and `maxPending` limits; with `maxPending` 1 the second send finds the
  limit reached, with 2 it overlaps the first. Two binds are a session and its
  replacement.
* *Operations*: two ids and two envelopes, so that one id may be used twice, for another
  operation, by the same runtime or a stranger. Three settings: both skews with requests
  and their control operations; a stranger; notifications with two handlers. The clock
  runs past the longest lifetime and the grace period, so that everything is forgotten.
* *LocalIpc*: connections do not interact but through the transport that they share, of
  which close and the handler are exercised by one connection as client, server or
  both. A header of two bytes is split between chunks like one of four.
* *SocketPath*: a cleaner, the listener it disturbs and a third that binds in between;
  four files leave one for each and the stale one.
* *RuntimeRegistry*: the settings trade peers for calls and failures; two peers and a crash
  show two reclaimers of one lock, three failures a rename, its rollback and the cleanup
  all failing.
* *CardLock*: one process leaves a lock, a second and a third reclaim it, and whoever is
  first takes a lock of his own before the other unlinks: three processes, and a mishap to
  start with; `MaxMishaps = 2` leaves room for another during the reclaim. The case that
  `Exclusion` names is reached in twenty to thirty steps, after a crash, after a late write
  and after an unwritten lock that its creator failed to unlink. The theorems are for any number of processes and mishaps.
* *Lifecycle*: a replacement needs two generations. One handler at a time is a host that waits
  for the handlers of an event before it emits the next start or shutdown, which is how the
  documents describe Pi (`pi-session-lifecycle/spec.md:48-65`). Two waiting publications and
  a renewal are enough for an update, another behind it, and a renewal between them; later
  ones find the same queue.

`CHECK_DEADLOCK FALSE` is used where the system may really stop (everything closed,
decided and forgotten, or every process done).

Symmetry is used only in runs without liveness properties.

### Fairness

Only the event loop is trusted: time passes, timers that are due fire, promises of a send
that has a timeout settle. Callers, peers, the network, executors that ask a model for an
answer and shutdown are under no obligation. Specifically: weak fairness of
`DeadlineReached`, due expiry timers and purge timers (TaskStore); of deadlines on every
clock, both timers, reply settlement and executors that return (InboundRouter; the Pi
executor returns immediately, `pi/adapter.ts:133`, so its return is justified, and what it
returns is arbitrary); of deadlines, the store's timer and the transport's overall timeout
(OutboundRouter); of the clock and record timers (Operations; the wire, the application and
handlers may take for ever); of the system calls of processes that are alive, and of the age
of a written lock file (CardLock); of the renewal timer, settled promises and file system calls,
which end well or badly (Lifecycle; binding and closing have deadlines of their own); of
destroyed sockets, deadlines and steps of bind and close (LocalIpc); of the system calls of
processes that are alive (RuntimeRegistry). SocketPath has no liveness. Weak fairness is
enough in each case because a timer once armed and due stays so until it fires or is
cleared.

## 4. The proofs

Eight modules hold the theorems, one per component but for `TransportProofs`, which is about the
three of the transport. Each component has an inductive invariant,
checked by TLC on the instance of a run before it was proved, one lemma per action or
per shape of action, and at its end a theorem per property. Of the 39 properties
that the passing runs check, 31 are proved: every invariant and every action property. The
other eight are liveness.

| module | properties proved of its component |
|---|---|
| `TaskStoreProofs` | `Sound`, `RecordsOnlyMoveOn` |
| `InboundRouterProofs` | `TypeOK`, `BooksAgree`, `SlotsWellUsed`, `StartsInOrder`, `NeverStartsLate`, `QuietAfterClose`, the refinement `ImplementsContract` |
| `OutboundRouterProofs` | `Truthful`, `ResultsStand` |
| `OperationsProofs` | `TypeOK`, `OneExecution`, `AnsweredIsKnown`, `OnlyTheRequesterStops`, `OursAreUnderstood`, `AnswersAreUnderstood` |
| `CardLockProofs` | `Exclusion`, `RenewedCardsStay` |
| `RuntimeRegistryProofs` | `Exclusion`, `OnlyExaminedRecordsGo`, `OwnersRecord` |
| `TransportProofs` | `Sound`, `NothingLeftBehind`, `QuietAfterClose` of `LocalIpc`; `PathTypeOK`, `ListenersComeBack`, `OnlyStaleFilesGo` of `SocketPath`; `FramesGoThrough` of `FrameCodec` |
| `LifecycleProofs` | `NothingAfterShutdown`, `OnlyUpdatesChangeCards`; `Sound` with one handler at a time |

The assumptions on the constants are those of the modules, by name: bounds are natural
numbers, sets of requests, processes and runtimes are finite where something is counted,
settings are records of the kind that the module describes, the sets of prints and results
in `Operations` contain what its handlers produce, and special values (`None`,
`Missing`, the owner's workers) are none of the ordinary ones. Nothing is assumed about how
many requests, processes, peers or failures there are, nor about clocks, but for
the tolerance of `Envelopes` (`MaxSkew`), which is part of what is claimed.

**TaskStore.** `IInv` is `TypeOK /\ Consistent`, the conjunction of the
consistency properties: none of them is inductive without the types.
`StoppedWorkIsWarned` and `WarningsAreRecorded` are what the abort signal promises in either
direction: a task that is cancelling, cancelled or expired was aborted, and a task that was
aborted says so in its record, by its state or by its marker. `CommitKeepsIInv` shows that
committing any state to an active task keeps `IInv`; `StepShape` reduces every action on one
task to a creation, such a commit, a purge or the passing of a deadline. The action
properties follow with `StepFacts`, which says what any step can do to a task.

**InboundRouter.** `IInv` adds to the properties that a request without a task has left no
trace (`Untouched`), that a closed router has forgotten everything (`ClosedForgets`) and that a
request was replied to at most once (`RepliedOnce`). `SlotsWellUsed` cannot be had alone: a
slot that is given back is found through the books of the router and of the policy.
Every step does to each request one of five things (it stays, starts, is decided, is
admitted, is forgotten), whatever else the drain of the queue does in the same step. The
refinement maps each of the five to a step of `RequestLife` or to a stutter.

**OutboundRouter.** `IInv` says that what is on the network agrees with the peer (`Heard`) and
that what the peer has heard was sent (`Relayed`): then a promise, the record and a message to
the session can only agree with each other. `Unsent` (what was never sent has no record) is
the second invariant that `ResultsStand` needs. The peer is any that is `RequestLife`, so that
with `ContractImplemented` the theorem is about two runtimes of this code.

**Operations.** `OpsInv` puts together what each part knows: `StoreInv` of the reservations, the
records and their holders, `SentOK` of the envelopes that an asker has built, `TaskInv` of
the tasks and who had them stopped, `HeldOK` of what a handler at work holds. `OneExecution`
and `AnsweredIsKnown` follow from `StoreInv`, in which a record outlives the deadline of the
envelope that made it by the grace: this is where the tolerance of the clocks is needed.
`OursAreUnderstood` goes through the checks of `validateEnvelope` in their order.
`AnswersAreUnderstood` and `TypeOK` need a second invariant, `AnswerInv`: of every task, that
its stamps are in order and within the tolerance (`Presentable`), come from the clock
(`Stamped`), and that it has the content and the error that its state allows (`TaskSound`); of
every reply, that it has its form and fits the contract of its task (`ReplySound`); of everything
that was told, that it answers its operation (`ToldSound`). `StepKeepsAnswerInv` says what a step
may do to the three; one lemma per action shows that it does no more.

**CardLock.** Nothing is assumed of processes or mishaps. `slipped` names the one way in which two
processes get under the lock, and `Exclusion` says that there is no other, and that it takes a
mishap. `IInv` says what a reclaimer knows (`MemoryIsRight`: what it has found out holds as long
as the file is the one it saw), whatever has happened; as long as nothing slipped, that who has
created the lock file still has it (`LockIsOwned`) and that a condemned card is stale; and as long
as there was no mishap, that no lock is ever condemned (`AllIsWell`). A reclaimer that unlinks the very lock it
has checked, and finds nobody still writing it, takes nobody's: its creator is dead or has
given it up. That is the step that the two-call compare and unlink fails to guarantee.

**RuntimeRegistry.** `Exclusion` likewise names the one way in which two calls get under the lock
(`stolen`). `IInv` says who holds it and what each
worker has seen (`Locking`, `LookedAt`). `OwnersRecord` needs a second invariant, `RecordInv`,
on top of it: how far shutdown has come, which name the file has at each step of a call
(`NameAgrees`), which records an earlier failure may have left (`LeftoversKnown`).
It is about an owner that has not crashed, as the property is.

**FrameCodec.** A header is read by a fold over its bytes (`ValueOf`), so what a header says
for every number of bytes takes an induction. The induction theorems of the library have an
operator for a parameter, which the provers cannot instantiate; `Induction` is stated of a
set instead, and comes from `WFMin` and the well-foundedness of the natural numbers.
`FoldDefined` shows that the recursive function exists, `SameFold` that it depends on the
bytes it has folded only, and `HeadersExist` that every length up to `MAX_UINT32` has a
header, dividing by 256 at each byte. The assumption on the limit, `MaxPayload <= MaxUint`, is what
`normalizeMaxPayloadBytes` checks (`frame-codec.ts:58`). `FramesGoThrough` is then the
round trip: a frame in chunks of any size never fails the decoder, completes it just with its
last byte, and gives its payload back.

**LocalIpc.** `Sound` follows from `ConnInv`, which says of each connection which ends take part
and how far they may be (`EndsAt`), that what the server has read together with what is under way
begins what the requester wrote (`ServerAt`, `WasAsked`), and the same of the way back
(`ClientAt`, `WasAnswered`): it is kept when a chunk moves from the stream to the decoder,
however it is cut, and lost only by an end that fails. A whole frame that begins a frame is all of it
(`WholeFrame`), so that the payloads agree. `NothingLeftBehind` is not inductive either:
`NodeInv` adds that the chain has one close just while close is pending (`ChainAt`), and what a
transport holds at each wait of a bind or a close (`HoldingsAt`): while it listens and has not looked at its path it
has a socket file but no owned endpoint yet, and from the first step of `closeInternal` on it has
neither listener nor socket file. A bind that is overtaken by the call of close is refused or
discards what it has bound; one that only learns its path's identity then leaves it to close.
`QuietAfterClose` needs only that no step but `Accept`, `RequestStarts` and `RequestChunk`
opens sockets or calls a handler, and that these look at `closing`. Strangers write any bytes of
`Streams`, handlers return any payload, oversized ones included, and connections may be of a
transport with itself.

**SocketPath.** `PathInv` numbers the files (`Numbered`), has each at one place (`AtOnePlace`), and,
as long as no race has happened (`Undisturbed`), says that there is one listener, that it is
found, and that a path is free when a restore is about to rename to it. `OnlyStaleFilesGo`
does not need the last part: it holds whatever races.

**Lifecycle.** `IInv` is about one registry: a renewal under way is the first of its queue
(`LeaseOK`), of the publications one at most is a renewal's (`QueueOK`), and what is being
written is the last card with the change of the publication under way, unless shutdown has
gone past it (`CardsOK`). It holds for any number of handlers, so `NothingAfterShutdown` and
`OnlyUpdatesChangeCards` hold even when session events overlap. `OneRuntimeOut`, in `Sound`, does
not (section 5): `SoundAlways` assumes one handler at a time, as the run does, with the
invariant `SessionInv`: a runtime is fresh, active, waited for by the handler, or gone.

Only model-checked is all liveness (`TasksComeToAnEnd`, `EveryRequestDecided`,
`AdmissionSettles`, `DeadLocksGo`, `EverythingForgotten`, `EverythingGoesOn`, `EverythingSettles`,
`CallsReturn`): the prover does not handle fairness or `ENABLED`.

## 5. Where the code and its documentation disagree

Three runs are expected to end in a counterexample. Each checks one sentence of the
repository's documents or comments against what the code does; `PROJECT.json` quotes it.

1. **An expired task keeps its slot** (`InboundRouter_slot_leak`). The store's timer, the
   router's timer and every call that reads a task race to commit its expiry. Only
   the router's timer goes on to `finishTask`, and only if it finds the task
   undecided, but reading the task to find out expires it (`router.ts:1542-1550`). So
   `finishTask` is skipped whenever the store's clock has passed the deadline: the
   slot and the entry in `inboundRequests` stay until shutdown, and after
   `ActiveCapacity` such expiries the runtime queues or refuses everything. The same
   skipped step leaves the request counted against `MAX_TRACKED_TASKS`.
2. **An expired request never completes at its sender** (`OutboundRouter_expiry`).
   Expiry does not call `finishOutboundRequest`, so the host is never told.
3. **A card is published before its runtime can deliver** (`Lifecycle_early`). The card is
   written inside `composition.start`; the adapter gets its delivery only after
   `onSessionStart` has returned (`index.ts:84-88`). A request that arrives in between is
   accepted, and `taskExecutor` returns without delivering it (`pi/adapter.ts:134-137`): it
   keeps a slot until it expires.

Seen while modelling, without a run of its own:

* *A refused request stays open at its sender.* `applyResponse` rejects the promise of the
  send and leaves the task `created` (`router.ts:1637`);
  `pi-to-pi-v1-protocol/spec.md:144` wants a terminal `rejected` outcome.
* *Two reclaimers of one stale lock.* The comment at `filesystem.ts:742` has card writes and
  removals serialized across processes. `reclaimStaleCardLock` compares and then unlinks in two
  calls (`filesystem.ts:637`): of two processes that both find an abandoned lock, the slower
  may unlink the lock that the faster, or a third, has taken meanwhile, and two of
  them hold "the" lock. An abandoned lock is that of a killed process (also one whose release
  had failed before), or one that is still unwritten two minutes after it was created. The run `CardLock` reaches
  all this: `Exclusion` names it (`slipped`) and says that nothing else breaks
  the exclusion, and without the exception TLC violates it. Nothing under `src/` but the
  exported cleanup functions makes processes contend for one card.
* *Overlapping session events.* With two handlers at a time `OneRuntimeOut` (a part of
  `Sound` of `Lifecycle`) fails: a second `session_start` during a first one binds a second runtime and the later one overwrites
  `active`; a `session_shutdown` during a start finds nothing to stop, and the runtime
  becomes active afterwards (`pi/lifecycle.ts:87-115`, `144-147`).
* *Cleared and early renames.* A cleared session name arrives as `undefined` and is ignored
  (`pi/lifecycle.ts:122-130`), though `pi-session-lifecycle/spec.md` (scenario "Session is
  renamed while running") wants it published; so is a rename during a start.
* *Presence after a failed write.* The composition drops the error of a presence update
  (`composition.ts:107-112`), so the card keeps the old presence until the next task event.
* A second `task.cancel` of a task that is `cancelling` commits `cancelled` and frees the
  slot while the executor is still running (`task-store.ts:1035`); the comment at
  `policy.ts:548-553` says that cancellation never frees an active slot. The model
  does what the code does.
* *Cancelled without the marker.* The task store's `tryTransition` takes an accepted or queued
  task straight to `cancelled` without `cancellationRequested` unless the caller asks for it
  (`task-store.ts:1254-1257`), though `cancelling` sets it. The router's callers set it. Only
  the abort signal is therefore promised of every cancelled task.
* The router constructs its task store without a retention (`router.ts:585`,
  `task-store.ts:450`), so decided tasks are kept until shutdown and the card counts
    them (`composition.ts:105-109`). The second half of `TasksComeToAnEnd`,
  `DecidedTasksForgotten`, is about a store with a finite retention.
* *Overlapping sends.* A second `sendRequest` of an operation that is still pending takes
  over the entry of the first (`router.ts:1615`): the promise of the first may then never
  settle, and when its exchange fails it deletes the entry of the second. Only a user
  of the exported router can do this; nothing in `src/` sends twice.
  `AdmissionSettles` therefore excepts sends that another one has overlapped.
* *Promises nobody listens to.* `close` rejects the promise in a pending entry
  (`router.ts:633`) while the caller still awaits the delivery before it: Node reports an
  unhandled rejection.
* *Clocks that are behind.* When the clock of the answering runtime is behind within the
  tolerated skew, the cancellation of a task may be stamped before the creation of the task,
  which is the requester's time, and validation calls such a snapshot malformed
  (`task-store.ts:1248`, `validation.ts:2416`). Its reply to a request of the longest lifetime
  ends when the request does, lives longer than any envelope may, and is refused:
  `sendTerminalReply` (`router.ts:1480`) builds it without asking validation.
  `AnswersAreUnderstood` excepts both.
* *Born expired.* When the deadline passes between validation and `createTask`, the router answers
  an admission with state `expired` (`router.ts:1056-1060`); the asker's validation takes
  only `accepted` or `queued` for one (`validation.ts:2519-2530`) and refuses the answer.
  `pi-to-pi-v1-protocol/spec.md:95` knows no other admission either. It is the third
  exception of `AnswersAreUnderstood`.
* *Answers after the deadline.* The snapshot of a task whose deadline has passed is refused as
  expired, so `task.status` and `task.cancel` never report a task as `expired` to anybody.
* *Stale socket files.* Endpoints in production are `/tmp/p2p-<uuid>.sock`, which
  `isGeneratedPosixEndpoint` does not recognise: the cleanup of stale files serves the
  generated endpoints only. Its restore checks that the path is free and then renames
  (`local-ipc.ts:602-623`), and may overwrite what was bound in between, which the comment
  there says it never does. `ListenersComeBack` excepts that race, and a cleanup that a deadline or
  a second failing call ends while a live listener's file is in its quarantine (`raced`).
* *Runtime records* (`registry.ts`). A rename that is asked for while `shutdown` removes the
  record publishes it again (1678-1707), and a failure on top of what an earlier failure left
  forgets the record (1632-1656); `OwnersRecord` excepts both (`slips`). Two
  reclaimers of the lock of a killed process may unlink a fresh lock (945-960), as for cards;
  `Exclusion` says that it happens in no other way (`stolen`).

## 6. What is not covered

* *Liveness of slots*, and everything else that the failing runs show to be false.
* *Data.* Content, owners and authorization tokens are model values. Of validation,
  `Envelopes` has the order of the checks, the fields that are required and what clocks do to
  them; JSON schemas, sizes, the syntax of identifiers and timestamps,
  serialized raw envelopes, capabilities and agent cards are left out: such a message is one that
  is lost or refused.
* *Wall clock set back* in `DedupeStore` and `Operations`: their clocks run forward.
  `TaskStore` lets the wall clock jump either way.
* *Both sides of the router with queueing* in one state space (section 2).
* *`task.status`, `task.cancel`, `message.notify` and `peer.describe` on the sending side* use the
  same `sendAndWait` as requests; `OutboundRouter` has requests only, `Operations` has what is
  said in the others. `peer.describe` keeps no state.
* *Policy calls without a caller in `src/`*: lookup by id, peek, cancel.
* *The adapter's choice of a target* and all presentation of tools and messages.
* *Windows* in `LocalIpc`: named pipes and the retries of a request while a pipe is busy.
* *Reuse of a process id* in `CardLock` and `RuntimeRegistry`: a dead owner whose id is given to
  another process looks alive, and its lock is then not reclaimed.
* *Nested lock of the temporary file* inside a publication, directory permissions and
  the cleanup of temporary files, of cards and of runtime records.
* *bind(2) and listen(2)* in `SocketPath` are one step: they follow each other inside one call of
  Node, and a probe between them would find a path that nobody answers.
* *Runtime records*: failing file calls of a release, a start that fails and
  the start and stop of its lease, what a peer finds wrong with a record. Production
  constructs the card registry; the runtime registry is an exported alternative.
* *Write deadlines and expiry of cards* in `CardRegistry`: production sets no deadline. With one,
  `withWriteLock` (`filesystem.ts:469-485`) gives up while the write goes on.
* *Listing of peers*: a scan of the directory, which changes nothing.
* *Crash of a process* in `Lifecycle`: its card expires, and its socket file becomes
  the stale file of `SocketPath`.
* *Name lookup, naming, rooms, configuration, agent card schema, diagnostics*: not modelled. They are
  pure functions or input and output; lookup by name is planned.

## 7. The plan

All modules of the original plan are written: the task store with its proofs, both sides of the router, the dedupe store, card files and
registry, the lifecycle, the transport with its frames and socket files, the
runtime registry, and the operations between two runtimes. One run answers the
questions about each component, so that a property that comes next replaces a weaker one
rather than adding to the bill.

Of the theorems planned, all are done: those of section 4 state every safety property that
a run checks. The liveness properties stay with TLC.

Modules: lookup by name (exact, ambiguous, suffixed) as constant operators checked
against a reference definition over small sets of peers.
