---------------------------- MODULE InboundRouter ----------------------------
(***************************************************************************)
(* The receiving side of router/router.ts: admission of message.request,   *)
(* the bounded queue and active slots of router/policy.ts, the task        *)
(* records of router/task-store.ts, the executor, task.cancel, task.status *)
(* and the terminal reply, with the two expiry timers of every task.       *)
(*                                                                         *)
(* Node runs a handler or a callback to its end, so each is one action;    *)
(* what interleaves is requests, retries, cancellations, executors and     *)
(* timers.  Four clocks decide when a deadline has passed, and they need   *)
(* not agree (they drift, the wall clock is set, timers fire early):       *)
(*   "wall"    Date.now, for validation and for sending a reply            *)
(*   "store"   the task store's monotonic deadline                         *)
(*   "policy"  the policy's, the wall-clock deadline on a monotonic epoch  *)
(*   "timer"   the event loop's, at which both expiry timers may fire      *)
(*                                                                         *)
(* Abstractions.  The router's `leases' and the policy's `active' map are  *)
(* written together and are one variable; the expiry timer of the store is *)
(* armed exactly on active tasks (TaskStore!TimerWatchesActiveTasks).  A   *)
(* queue is a set of requests ordered by `arrival', the policy's token.    *)
(* The retry of a request that was answered is one that the dedupe store   *)
(* still knows: DedupeStore shows that it outlives the request's validity. *)
(* A completion whose content fails the expected schema changes nothing.   *)
(***************************************************************************)
EXTENDS TaskStates, Naturals, FiniteSets, Sequences

CONSTANTS Requests,         \* the logical requests peers send
          Settings          \* the settings of a router and its world

Clocks == {"wall", "store", "policy", "timer"}

\* One of Settings: the options of the router, the requests that are sent to it,
\* the sets of clocks that pass each request's deadline together, and what executors may
\* return and the reply tool may say.
Setting ==
    [queueCapacity  : Nat \ {0},       \* policy.queueCapacity
     activeCapacity : Nat \ {0},       \* policy.activeCapacity
     maxTracked     : Nat,             \* MAX_TRACKED_TASKS
     requests       : SUBSET Requests,
     clockGroups    : [Requests -> SUBSET SUBSET Clocks],
     results        : SUBSET {"void", "completed", "failed", "rejected", "threw"}]

ASSUME RequestsAssumption == IsFiniteSet(Requests)
ASSUME SettingsAssumption == Settings \subseteq Setting

VARIABLES
    setting,      \* the one of Settings that is in force; it never changes
    state,        \* taskStore: the state of each task, Absent without a record
    due,          \* the clocks that have passed the request's deadline
    queue,        \* policy.queue
    active,       \* policy.active, which is router.leases
    arrival,      \* the token the policy gave to an admitted request, else 0
    inbound,      \* inboundRequests: "none", "open", or "replying" (terminalSent)
    routerTimer,  \* expiryTimers has the request
    exec,         \* the executor: "none", "running" or "returned"
    dedupe,       \* the committed admission of the dedupe store, Absent if none
    closed,
    runs,         \* history: how often an executor was called
    answer,       \* history: what the latest delivery of the request was answered
    replies       \* history: the terminal replies sent

vars == <<state, due, queue, active, arrival, inbound, routerTimer, exec, dedupe,
          closed, runs, answer, replies, setting>>

QueueCapacity == setting.queueCapacity
ActiveCapacity == setting.activeCapacity
MaxTracked == setting.maxTracked
ClockGroups(r) == setting.clockGroups[r]
Results == setting.results

Init ==
    /\ setting \in Settings
    /\ state = [r \in Requests |-> Absent]
    /\ due = [r \in Requests |-> {}]
    /\ queue = {}
    /\ active = {}
    /\ arrival = [r \in Requests |-> 0]
    /\ inbound = [r \in Requests |-> "none"]
    /\ routerTimer = [r \in Requests |-> FALSE]
    /\ exec = [r \in Requests |-> "none"]
    /\ dedupe = [r \in Requests |-> Absent]
    /\ closed = FALSE
    /\ runs = [r \in Requests |-> 0]
    /\ answer = [r \in Requests |-> Absent]
    /\ replies = [r \in Requests |-> <<>>]

-----------------------------------------------------------------------------
(* The task store and the queue, as every handler finds them. *)

\* expireIfDue finds something to do.
Late(r) == IsActive(state[r]) /\ "store" \in due[r]

\* expireTask and expireIfDue for r, whatever calls them.
Expired(st, r) ==
    [st EXCEPT ![r] = IF CanTransition(@, "expired") THEN "expired" ELSE @]

\* policy.expire asks every entry that its own clock has not expired whether
\* it was cancelled.  The answer reads the task, which expires it if it is due.
Seen(st, S) ==
    [r \in Requests |->
        IF /\ r \in S
           /\ "policy" \notin due[r]
           /\ "store" \in due[r]
           /\ CanTransition(st[r], "expired")
        THEN "expired" ELSE st[r]]

\* The entries of S that policy.expire keeps.  One whose task has expired is
\* still runnable: only cancellation is looked for.
Runnable(st, S) ==
    {r \in S : "policy" \notin due[r] /\ Seen(st, S)[r] \notin {"cancelling", "cancelled"}}

StartableUnread(st, S) ==
    {r \in S : inbound[r] # "none" /\ st[r] \in {"accepted", "queued", "working"}}

\* dispatchLease goes on to call the executor: beginExecution succeeds and the
\* router still has the request.
Startable(st, S) ==
    {r \in Runnable(st, S) : /\ inbound[r] # "none"
                             /\ Seen(st, S)[r] \in {"accepted", "queued", "working"}}

FreeSlots(S) == ActiveCapacity - Cardinality(S)

\* The k first of S by arrival, or all of them.
IsLast(F, k, S) ==
    /\ F \subseteq S
    /\ Cardinality(F) <= k
    /\ F # S => Cardinality(F) = k
    /\ \A p \in F, q \in S \ F : arrival[p] > arrival[q]
IsFirst(F, k, S) ==
    /\ F \subseteq S
    /\ Cardinality(F) <= k
    /\ F # S => Cardinality(F) = k
    /\ \A p \in F, q \in S \ F : arrival[p] < arrival[q]

\* What is left of the queue S when `started' took the free slots of A: what
\* arrived after them, or nothing when the slots outlasted the queue.
QueueAfter(st, S, A, started) ==
    IF Cardinality(started) < FreeSlots(A) THEN {}
    ELSE {r \in Runnable(st, S) : \A s \in started : arrival[s] < arrival[r]}

SlotsForgotten(A, started) == A
SlotsAfter(A, started) == A \cup started

\* drainQueue with the dispatchLease and releaseLease it recurses into, from
\* the tasks st, the queue S, the active slots A and the executors ex: while
\* there is a free slot, the oldest runnable entry leaves the queue and either
\* starts or is dropped.
NothingDrained(st, S, A, ex) ==
    /\ state' = st
    /\ queue' = S
    /\ active' = A
    /\ exec' = ex
    /\ runs' = runs
DrainQueue(st, S, A, ex) ==
    IF FreeSlots(A) <= 0
    THEN NothingDrained(st, S, A, ex)
    ELSE \E started \in SUBSET Startable(st, S) :
         /\ IsFirst(started, FreeSlots(A), Startable(st, S))
         /\ state' = [r \in Requests |->
                        IF r \in started THEN "working" ELSE Seen(st, S)[r]]
         /\ queue' = QueueAfter(st, S, A, started)
         /\ active' = SlotsAfter(A, started)
         /\ exec' = [r \in Requests |-> IF r \in started THEN "running" ELSE ex[r]]
         /\ runs' = [r \in Requests |-> IF r \in started THEN runs[r] + 1 ELSE runs[r]]

ReplyWheneverTracked(r, outcome) ==
    IF inbound[r] = "none" THEN UNCHANGED <<inbound, replies>>
    ELSE /\ inbound' = [inbound EXCEPT ![r] = "replying"]
         /\ replies' = [replies EXCEPT ![r] = Append(@, outcome)]
\* The terminal reply is sent once, and not after the request's deadline.
SendTerminalReply(r, outcome) ==
    IF inbound[r] # "open" THEN UNCHANGED <<inbound, replies>>
    ELSE IF "wall" \in due[r]
    THEN /\ inbound' = [inbound EXCEPT ![r] = "none"]
         /\ UNCHANGED replies
    ELSE /\ inbound' = [inbound EXCEPT ![r] = "replying"]
         /\ replies' = [replies EXCEPT ![r] = Append(@, outcome)]

\* finishTask for a task that is terminal in st.
FinishTask(r, st, ex) ==
    /\ routerTimer' = [routerTimer EXCEPT ![r] = FALSE]
    /\ DrainQueue(st, queue \ {r}, active \ {r}, ex)
    /\ SendTerminalReply(r, st[r])
    /\ UNCHANGED <<due, arrival, dedupe, closed, answer>>

\* A handler that stops after the lazy expiry of r: no finishTask follows.
OnlyExpire(r) ==
    /\ state' = Expired(state, r)
    /\ UNCHANGED <<due, queue, active, arrival, inbound, routerTimer, exec, dedupe,
                   closed, runs, answer, replies>>

-----------------------------------------------------------------------------
(* message.request. *)

Answered(r, a) == answer' = [answer EXCEPT ![r] = a]

\* Validation lets the envelope through, and the router is open.
Valid(r) == ~closed /\ "wall" \notin due[r]

\* The dedupe store does not know the operation.
Unknown(r) == dedupe[r] = Absent

Tracked == {r \in Requests : inbound[r] # "none"}

\* A retry is answered from the dedupe store.
ReplayAdmission(r) ==
    /\ Valid(r)
    /\ ~Unknown(r)
    /\ Answered(r, dedupe[r])
    /\ UNCHANGED <<state, due, queue, active, arrival, inbound, routerTimer, exec,
                   dedupe, closed, runs, replies>>

\* The router tracks too many requests already.
RefuseUntracked(r) ==
    /\ Valid(r)
    /\ Unknown(r)
    /\ Cardinality(Tracked) >= MaxTracked
    /\ Answered(r, "busy")
    /\ UNCHANGED <<state, due, queue, active, arrival, inbound, routerTimer, exec,
                   dedupe, closed, runs, replies>>

\* The request reaches the policy, which first sweeps its queue.
Considered(r) == Valid(r) /\ Unknown(r) /\ Cardinality(Tracked) < MaxTracked

\* The policy or the store refuses: its clock says the request has expired,
\* there is no room, or the task store has a task of that name.
Refusal(r) ==
    IF "policy" \in due[r] THEN "expired"
    ELSE IF /\ FreeSlots(active) <= 0
            /\ Cardinality(Runnable(state, queue)) >= QueueCapacity
    THEN "busy"
    ELSE IF state[r] # Absent THEN "internal" ELSE "none"

\* A refusal reserves nothing, but the policy has swept its queue.
Refuse(r) ==
    /\ Considered(r)
    /\ Refusal(r) # "none"
    /\ Answered(r, Refusal(r))
    /\ state' = Seen(state, queue)
    /\ queue' = Runnable(state, queue)
    /\ UNCHANGED <<due, active, arrival, inbound, routerTimer, exec, dedupe, closed,
                   runs, replies>>

NextToken == Cardinality({r \in Requests : arrival[r] # 0}) + 1

\* What every way to admit a request record, after their task is created.
Record(r, admission) ==
    /\ arrival' = [arrival EXCEPT ![r] = NextToken]
    /\ dedupe' = [dedupe EXCEPT ![r] = admission]
    /\ Answered(r, admission)
    /\ inbound' = [inbound EXCEPT ![r] = "open"]
    /\ routerTimer' = [routerTimer EXCEPT ![r] = TRUE]
    /\ UNCHANGED <<closed, replies>>

\* A free slot: the request is accepted and dispatched at once.
Accept(r) ==
    /\ Considered(r)
    /\ Refusal(r) = "none"
    /\ FreeSlots(active) > 0
    /\ state' = [Seen(state, queue) EXCEPT ![r] = "working"]
    /\ queue' = Runnable(state, queue)
    /\ active' = active \cup {r}
    /\ exec' = [exec EXCEPT ![r] = "running"]
    /\ runs' = [runs EXCEPT ![r] = @ + 1]
    /\ UNCHANGED due
    /\ Record(r, "accepted")

Enqueue(r) ==
    /\ Considered(r)
    /\ Refusal(r) = "none"
    /\ FreeSlots(active) <= 0
    /\ state' = [Seen(state, queue) EXCEPT ![r] = "queued"]
    /\ queue' = Runnable(state, queue) \cup {r}
    /\ UNCHANGED <<due, active, exec, runs>>
    /\ Record(r, "queued")

\* The deadline passes between the policy's admission and createTask: the task
\* is born expired.  A slot that it took is given back at once, an entry in the
\* queue stays there, and the request is tracked like any other.
AdmitTooLate(r) ==
    /\ Considered(r)
    /\ Refusal(r) = "none"
    /\ \E G \in ClockGroups(r) :
          "wall" \in G /\ due' = [due EXCEPT ![r] = @ \cup G \cup {"store"}]
    /\ LET st == [Seen(state, queue) EXCEPT ![r] = "expired"]
       IN \/ /\ FreeSlots(active) > 0
             /\ DrainQueue(st, Runnable(state, queue), active, exec)
          \/ /\ FreeSlots(active) <= 0
             /\ state' = st
             /\ queue' = Runnable(state, queue) \cup {r}
             /\ UNCHANGED <<active, exec, runs>>
    /\ Record(r, "expired")

ReceiveRequest(r) ==
    /\ r \in setting.requests
    /\ \/ ReplayAdmission(r)
       \/ RefuseUntracked(r)
       \/ Refuse(r)
       \/ Accept(r)
       \/ Enqueue(r)
       \/ AdmitTooLate(r)

-----------------------------------------------------------------------------
(* The executor, the reply tool, cancellation, status. *)

\* What an executor's result asks the task to become.
ResultState(s, result) ==
    IF result = "threw"
    THEN IF s = "cancelling" THEN "cancelled" ELSE "failed"
    ELSE result

\* applyExecutorResult and handleExecutorFailure.
ExecutorReturns(r, result) ==
    /\ exec[r] = "running"
    /\ LET ex   == [exec EXCEPT ![r] = "returned"]
           st   == IF Late(r) THEN Expired(state, r) ELSE state
           next == ResultState(st[r], result)
       IN \/ /\ IsTerminal(st[r])
             /\ FinishTask(r, st, ex)
          \/ /\ IsActive(st[r])
             /\ result # "void"
             /\ CanTransition(st[r], next)
             /\ FinishTask(r, [st EXCEPT ![r] = next], ex)
          \/ /\ \/ st[r] = Absent
                \/ /\ IsActive(st[r])
                   /\ result = "void" \/ ~CanTransition(st[r], next)
             /\ exec' = ex
             /\ UNCHANGED <<state, due, queue, active, arrival, inbound, routerTimer,
                            dedupe, closed, runs, answer, replies>>

\* PiAdapter.reply, which answer work only while nobody asked it to stop.
ReplyTool(r, outcome) ==
    /\ ~closed
    /\ exec[r] # "none"
    /\ ~Late(r)
    /\ IsActive(state[r])
    /\ state[r] # "cancelling"
    /\ CanTransition(state[r], outcome)
    /\ FinishTask(r, [state EXCEPT ![r] = outcome], exec)

\* processTaskCancel: a task that is working is asked to stop, any other is
\* finished here and now; a cancelled task is finished again.
TaskCancel(r) ==
    /\ ~closed
    /\ ~Late(r)
    /\ \/ /\ state[r] = "working"
          /\ state' = [state EXCEPT ![r] = CancelTarget(state[r])]
          /\ UNCHANGED <<due, queue, active, arrival, inbound, routerTimer, exec,
                         dedupe, closed, runs, answer, replies>>
       \/ /\ state[r] \in {"accepted", "queued", "cancelling"}
          /\ FinishTask(r, [state EXCEPT ![r] = CancelTarget(state[r])], exec)
       \/ /\ state[r] = "cancelled"
          /\ FinishTask(r, state, exec)

\* processTaskStatus, a late task.cancel, a late reply tool, the status tool:
\* all they do to a late task is expire it.
ReadLateTask(r) ==
    /\ ~closed
    /\ Late(r)
    /\ OnlyExpire(r)

-----------------------------------------------------------------------------
(* Time, delivery, shutdown. *)

\* The store's own expiry timer.
StoreTimerFires(r) ==
    /\ IsActive(state[r])
    /\ "timer" \in due[r]
    /\ OnlyExpire(r)

\* The router's expiry timer: it finishes the task if reading it has not
\* already expired it.
RouterTimerFires(r) ==
    /\ routerTimer[r]
    /\ "timer" \in due[r]
    /\ \/ /\ IsActive(state[r])
          /\ ~Late(r)
          /\ FinishTask(r, Expired(state, r), exec)
       \/ /\ ~IsActive(state[r]) \/ Late(r)
          /\ routerTimer' = [routerTimer EXCEPT ![r] = FALSE]
          /\ state' = IF Late(r) THEN Expired(state, r) ELSE state
          /\ UNCHANGED <<due, queue, active, arrival, inbound, exec, dedupe, closed,
                         runs, answer, replies>>

\* sendViaDelivery settles, delivered or not; the reply is not retried.
ReplySettles(r) ==
    /\ inbound[r] = "replying"
    /\ inbound' = [inbound EXCEPT ![r] = "none"]
    /\ UNCHANGED <<state, due, queue, active, arrival, routerTimer, exec, dedupe,
                   closed, runs, answer, replies>>

CloseKeepsTasks ==
    /\ ~closed
    /\ closed' = TRUE
    /\ dedupe' = [r \in Requests |-> Absent]
    /\ UNCHANGED <<state, due, queue, active, arrival, inbound, routerTimer, exec, runs,
                   answer, replies>>

\* close: the task and dedupe stores are disposed, the rest is left.
Close ==
    /\ ~closed
    /\ closed' = TRUE
    /\ state' = [r \in Requests |-> Absent]
    /\ dedupe' = [r \in Requests |-> Absent]
    /\ UNCHANGED <<due, queue, active, arrival, inbound, routerTimer, exec, runs,
                   answer, replies>>

\* A group of clocks passes the deadline of a request.  The store's deadline
\* and the timers only exist once the request is admitted.
DeadlinePasses(r, G) ==
    /\ ~(G \subseteq due[r])
    /\ state[r] # Absent \/ routerTimer[r] \/ G \cap {"store", "timer"} = {}
    /\ due' = [due EXCEPT ![r] = @ \cup G]
    /\ UNCHANGED <<state, queue, active, arrival, inbound, routerTimer, exec, dedupe,
                   closed, runs, answer, replies>>

ClockPasses(r, c) == \E G \in ClockGroups(r) : c \in G /\ DeadlinePasses(r, G)

Step(r) ==
    \/ ReceiveRequest(r)
    \/ \E result \in Results : ExecutorReturns(r, result)
    \/ \E outcome \in Results \cap {"completed", "failed", "rejected"} : ReplyTool(r, outcome)
    \/ TaskCancel(r)
    \/ ReadLateTask(r)
    \/ StoreTimerFires(r)
    \/ RouterTimerFires(r)
    \/ ReplySettles(r)
    \/ \E G \in ClockGroups(r) : DeadlinePasses(r, G)

Next ==
    /\ (\E r \in Requests : Step(r)) \/ Close
    /\ UNCHANGED setting

\* The event loop: time passes, due timers fire, promises settle.  Nothing is
\* assumed of peers, of the model that answer, or of shutdown.
Fairness ==
    \A r \in Requests :
        /\ \A c \in Clocks : WF_vars(ClockPasses(r, c) /\ UNCHANGED setting)
        /\ WF_vars(StoreTimerFires(r) /\ UNCHANGED setting)
        /\ WF_vars(RouterTimerFires(r) /\ UNCHANGED setting)
        /\ WF_vars(ReplySettles(r) /\ UNCHANGED setting)
        /\ WF_vars((\E result \in Results : ExecutorReturns(r, result)) /\ UNCHANGED setting)

Spec == Init /\ [][Next]_vars
FairSpec == Spec /\ Fairness

-----------------------------------------------------------------------------
(* Safety. *)

\* The types of the variables.
TypeOK ==
    /\ state \in [Requests -> TaskState \cup {Absent}]
    /\ due \in [Requests -> SUBSET Clocks]
    /\ queue \subseteq Requests
    /\ active \subseteq Requests
    /\ arrival \in [Requests -> Nat]
    /\ inbound \in [Requests -> {"none", "open", "replying"}]
    /\ routerTimer \in [Requests -> BOOLEAN]
    /\ exec \in [Requests -> {"none", "running", "returned"}]
    /\ dedupe \in [Requests -> {"accepted", "queued", "expired", Absent}]
    /\ closed \in BOOLEAN
    /\ runs \in [Requests -> Nat]
    /\ answer \in [Requests -> {"accepted", "queued", "busy", "expired", "internal",
                               Absent}]
    /\ replies \in [Requests -> Seq(TerminalOutcomes)]

\* Neither the queue nor the active slots ever exceed their capacity, and no
\* slot stays free while a request waits, in any order of admissions, releases
\* and the drains these start: whatever gives a slot back also drains the
\* queue, so nobody waits for an event that never comes.
SlotsWellUsed ==
    /\ Cardinality(queue) <= QueueCapacity
    /\ Cardinality(active) <= ActiveCapacity
    /\ queue # {} => Cardinality(active) = ActiveCapacity

\* Work in progress holds a slot until it is decided, also after its executor
\* returned without an answer (the Pi executor always does) or was asked to
\* stop; and a slot is only kept for a request that the router still tracks,
\* so that a decision can always find what it has to release and to answer.
WorkHoldsSlot ==
    /\ \A r \in Requests : state[r] \in {"working", "cancelling"} => r \in active
    /\ \A r \in active : inbound[r] = "open"

\* The queue of the policy and the tasks of the store agree.  A queued task is
\* in the queue, unless a clock says that it is due: it is never lost to a
\* sweep, a drain or another task's cancellation.  What is in the queue has
\* neither started nor been answered, though its task may have expired unnoticed.
QueueMatchesTasks ==
    /\ \A r \in Requests :
          state[r] = "queued" /\ "policy" \notin due[r] => r \in queue
    /\ \A r \in queue :
          /\ r \notin active
          /\ exec[r] = "none"
          /\ inbound[r] = "open"
          /\ (closed \/ state[r] \in {"queued", "expired"})

\* Every decision but an expiry is carried through in the step that commits
\* it: the slot is released, the terminal reply is on its way, the router's
\* timer is cleared.
DecisionsCarriedThrough ==
    \A r \in Requests : IsTerminal(state[r]) /\ state[r] # "expired" =>
        /\ r \notin active
        /\ r \notin queue
        /\ inbound[r] # "open"
        /\ ~routerTimer[r]

\* Once a request is admitted, every retry gets the original answer: not busy,
\* not expired, and never the answer of a second admission.
RetriesReplay ==
    \A r \in Requests : dedupe[r] # Absent => answer[r] = dedupe[r]

\* The books of the policy, of the router and of the task store agree, in all
\* four respects, between any two events.
BooksAgree == WorkHoldsSlot /\ QueueMatchesTasks /\ DecisionsCarriedThrough /\ RetriesReplay

\* Requests start in the order in which they were admitted: when one leaves
\* the queue to start, no earlier one is left waiting, unless the policy's
\* clock says that it is due.
StartsInOrder ==
    [][\A r \in queue : runs'[r] > runs[r] =>
          \A q \in Requests : state'[q] = "queued" /\ "policy" \notin due[q] =>
              arrival[r] < arrival[q]]_vars

\* No executor is called for a request whose deadline has passed on the clock
\* of the store or of the policy, nor for one that was cancelled meanwhile.
NeverStartsLate ==
    [][\A r \in Requests : runs'[r] > runs[r] =>
          /\ {"store", "policy"} \cap due[r] = {}
          /\ state[r] \in {Absent, "queued"}]_vars

\* A closed router starts nothing, admits nothing and answers nobody, though
\* its executors and timers go on.
QuietAfterClose ==
    [][closed => UNCHANGED <<queue, active, runs, answer, replies>>]_vars

-----------------------------------------------------------------------------
(* Refinement: each request lives the life that RequestLife describes. *)

NoOutcome == Absent

StageOf(r) ==
    IF closed THEN "gone"
    ELSE IF state[r] = Absent THEN "unknown"
    ELSE IF state[r] \in {"working", "cancelling"} THEN "running"
    ELSE IF IsTerminal(state[r]) THEN "decided"
    ELSE "waiting"

ReplyOf(r) ==
    IF replies[r] = <<>> THEN NoOutcome
    ELSE IF Len(replies[r]) = 1 THEN Head(replies[r]) ELSE "contradictory"

life ==
    [r \in Requests |->
        [stage   |-> StageOf(r),
         outcome |-> IF IsTerminal(state[r]) THEN state[r] ELSE NoOutcome,
         reply   |-> ReplyOf(r)]]

Contract == INSTANCE RequestLife WITH Outcomes <- TerminalOutcomes

ImplementsContract == Contract!Spec

-----------------------------------------------------------------------------
(* Liveness. *)

\* Every admitted request is decided, whatever the executor does.
EveryRequestDecided ==
    \A r \in Requests : IsActive(state[r]) ~> (IsTerminal(state[r]) \/ closed)

\* Slots of decided requests are given back.
SlotsComeBack ==
    \A r \in Requests : (r \in active /\ IsTerminal(state[r])) ~> (r \notin active \/ closed)
=============================================================================
