------------------------------ MODULE TaskStore ------------------------------
(***************************************************************************)
(* router/task-store.ts: the table of logical requests one runtime keeps,  *)
(* with its expiry and purge timers, its queued index and the abort signal *)
(* of every task.  The store is synchronous: every call runs to its end    *)
(* before a timer or another call does, so each one is a single action.    *)
(*                                                                         *)
(* Abstractions.  A deadline is one Boolean per task, `due', that the      *)
(* monotonic clock sets once the deadline is reached.  The wall clock,     *)
(* which only stamps `updatedAt', may jump either way (so may the stamp    *)
(* that an update brings along).  Content, errors and owners are left out; *)
(* a call by a stranger is one that stops after its lazy expiry            *)
(* (ExpireOnCall).  A task is created undecided: nobody creates one that   *)
(* already has its outcome.                                                *)
(***************************************************************************)
EXTENDS TaskStates, Integers

CONSTANTS Tasks,             \* the request identifiers
          MaxWall,           \* bound: wall-clock readings are 0..MaxWall
          FiniteRetention    \* TRUE when terminalRetentionMs is finite

ASSUME MaxWallAssumption == MaxWall \in Nat
ASSUME RetentionAssumption == FiniteRetention \in BOOLEAN

VARIABLES
    state,            \* record.snapshot.state, Absent without a record
    cancelRequested,  \* record.snapshot.cancellationRequested
    updatedAt,        \* record.updatedAtMs
    aborted,          \* record.controller.signal.aborted
    expiryTimer,      \* record.expiryTimer is armed
    purgeTimer,       \* record.purgeTimer is armed
    queued,           \* the `queued' index of the store
    disposed,
    due,              \* the monotonic clock reached record.deadlineMonotonicMs
    wall              \* the wall clock's current reading

records == <<state, cancelRequested, updatedAt, aborted, expiryTimer, purgeTimer,
             queued>>
vars == <<records, disposed, due, wall>>

Clock == 0..MaxWall

Init ==
    /\ state = [t \in Tasks |-> Absent]
    /\ cancelRequested = [t \in Tasks |-> FALSE]
    /\ updatedAt = [t \in Tasks |-> 0]
    /\ aborted = [t \in Tasks |-> FALSE]
    /\ expiryTimer = [t \in Tasks |-> FALSE]
    /\ purgeTimer = [t \in Tasks |-> FALSE]
    /\ queued = {}
    /\ disposed = FALSE
    /\ due = [t \in Tasks |-> FALSE]
    /\ wall = 0

-----------------------------------------------------------------------------
\* The undecided states in which createTask takes a task.
InitialStates == ActiveStates \ {"cancelling"}

\* nextUpdatedAt never goes back behind what the record already shows.
Later(a, b) == IF a < b THEN b ELSE a

\* The parts of tryTransition that follow its linearization point, some
\* preceded by a mistake that the checks of this module must notice.
QueuedAfter(t, next) ==
    IF next = "queued" THEN queued \cup {t} ELSE queued \ {t}

TimerDroppedOnCancel(t, next) ==
    expiryTimer[t] /\ ~IsTerminal(next) /\ next # "cancelling"
ExpiryTimerAfter(t, next) == expiryTimer[t] /\ ~IsTerminal(next)

PurgeTimerAfter(t, next) ==
    purgeTimer[t] \/ (IsTerminal(next) /\ FiniteRetention)

\* nextCancellation: an update asks for it, or asking is what the transition does.
CancelRequestedAfter(t, next, asked) ==
    cancelRequested[t] \/ asked \/ next = "cancelling"

AbortsOnlyWhenDecided(t, next) ==
    aborted[t] \/ next \in {"cancelled", "expired"}
AbortedAfter(t, next) == aborted[t] \/ next \in AbortingStates

\* tryTransition from its linearization point on; `asked' is the caller's
\* update.cancellationRequested.
Commit(t, next, asked) ==
    /\ state' = [state EXCEPT ![t] = next]
    /\ cancelRequested' = [cancelRequested EXCEPT ![t] = CancelRequestedAfter(t, next, asked)]
    /\ updatedAt' = [updatedAt EXCEPT ![t] = Later(@, wall)]
    /\ queued' = QueuedAfter(t, next)
    /\ expiryTimer' = [expiryTimer EXCEPT ![t] = ExpiryTimerAfter(t, next)]
    /\ purgeTimer' = [purgeTimer EXCEPT ![t] = PurgeTimerAfter(t, next)]
    /\ aborted' = [aborted EXCEPT ![t] = AbortedAfter(t, next)]
    /\ UNCHANGED <<disposed, due, wall>>

\* A call other than createTask may act on t: it is active, and the
\* expireIfDue that starts every call has nothing to do.
IgnoresDeadline(t) == IsActive(state[t])
OnTime(t) == IsActive(state[t]) /\ ~due[t]

\* createTask.  A request that is expired on admission, or whose expiry delay
\* has already run down to 0, is created expired and aborted at once.
Create(t, initial, asked, createdAt, expired) ==
    /\ ~disposed
    /\ state[t] = Absent
    /\ LET first == IF expired THEN "expired" ELSE initial IN
         /\ state' = [state EXCEPT ![t] = first]
         /\ queued' = IF first = "queued" THEN queued \cup {t} ELSE queued
         /\ aborted' = [aborted EXCEPT ![t] = expired]
         /\ expiryTimer' = [expiryTimer EXCEPT ![t] = ~expired]
         /\ purgeTimer' = [purgeTimer EXCEPT ![t] = expired /\ FiniteRetention]
    /\ cancelRequested' = [cancelRequested EXCEPT ![t] = asked]
    /\ updatedAt' = [updatedAt EXCEPT ![t] = createdAt]
    /\ due' = [due EXCEPT ![t] = expired]
    /\ UNCHANGED <<disposed, wall>>

\* expireIfDue, the start of getTask, getTaskHandle, getStatusResult,
\* getRecordMetadata, listSnapshots, beginExecution, tryTransition and
\* cancelTask: on a task past its deadline a call commits `expired' and then
\* finds it terminal.
ExpireOnCall(t) ==
    /\ ~disposed
    /\ IsActive(state[t])
    /\ due[t]
    /\ Commit(t, "expired", FALSE)

\* tryTransition / transition / completeTask / failTask / rejectTask: any legal
\* next state, with or without the flag, from any caller.  The deadline counts
\* for all of them but `expired'.
Transition(t, next, asked) ==
    /\ ~disposed
    /\ next # "expired" => OnTime(t)
    /\ CanTransition(state[t], next)
    /\ Commit(t, next, asked)

\* beginExecution, the step from admitted to working work; work that has begun
\* is only looked at.
BeginExecution(t) == Transition(t, "working", FALSE)

\* cancelTask; a task the sender has only created cannot be cancelled.
Cancel(t) == OnTime(t) /\ Transition(t, CancelTarget(state[t]), TRUE)

\* expireTask: commits whatever the clock says.
Expire(t) == Transition(t, "expired", FALSE)

\* The callback of scheduleExpiry, which expireRecord ends.  A timer may fire
\* up to a millisecond before the monotonic clock reads the deadline.
ExpiryTimerFires(t) ==
    /\ expiryTimer[t]
    /\ IsActive(state[t])
    /\ Commit(t, "expired", FALSE)

\* removeRecord.
Remove(S) ==
    /\ state' = [t \in Tasks |-> IF t \in S THEN Absent ELSE state[t]]
    /\ cancelRequested' = [t \in Tasks |-> cancelRequested[t] /\ t \notin S]
    /\ updatedAt' = [t \in Tasks |-> IF t \in S THEN 0 ELSE updatedAt[t]]
    /\ expiryTimer' = [t \in Tasks |-> expiryTimer[t] /\ t \notin S]
    /\ purgeTimer' = [t \in Tasks |-> purgeTimer[t] /\ t \notin S]
    /\ queued' = queued \ S

\* purgeTask, and the callback of schedulePurge: only decided work is removed.
Purge(t) ==
    /\ IsTerminal(state[t])
    /\ Remove({t})
    /\ aborted' = [aborted EXCEPT ![t] = FALSE]
    /\ UNCHANGED <<disposed, due, wall>>

PurgeTimerFires(t) == purgeTimer[t] /\ Purge(t)

\* dispose (and the clear it makes): every signal is aborted, every record and
\* timer goes.  An aborted signal outlives its record: executors still hold it.
Dispose ==
    /\ ~disposed
    /\ disposed' = TRUE
    /\ Remove(Tasks)
    /\ aborted' = [t \in Tasks |-> aborted[t] \/ state[t] # Absent]
    /\ UNCHANGED <<due, wall>>

\* The environment: time passes, and the wall clock is set.
DeadlineReached(t) ==
    /\ IsActive(state[t])
    /\ ~due[t]
    /\ due' = [due EXCEPT ![t] = TRUE]
    /\ UNCHANGED <<records, disposed, wall>>

WallClockSet(w) ==
    /\ w # wall
    /\ wall' = w
    /\ UNCHANGED <<records, disposed, due>>

Step(t) ==
    \/ \E initial \in InitialStates, asked, expired \in BOOLEAN, createdAt \in Clock :
          Create(t, initial, asked, createdAt, expired)
    \/ ExpireOnCall(t)
    \/ \E next \in TaskState, asked \in BOOLEAN : Transition(t, next, asked)
    \/ BeginExecution(t)
    \/ Cancel(t)
    \/ Expire(t)
    \/ ExpiryTimerFires(t)
    \/ Purge(t)
    \/ PurgeTimerFires(t)
    \/ DeadlineReached(t)

Next ==
    \/ \E t \in Tasks : Step(t)
    \/ Dispose
    \/ \E w \in Clock : WallClockSet(w)

\* Time passes and due timers fire; callers are under no obligation.
Fairness ==
    /\ \A t \in Tasks : WF_vars(DeadlineReached(t))
    /\ \A t \in Tasks : WF_vars(due[t] /\ ExpiryTimerFires(t))
    /\ \A t \in Tasks : WF_vars(PurgeTimerFires(t))

Spec == Init /\ [][Next]_vars
FairSpec == Spec /\ Fairness

-----------------------------------------------------------------------------
\* The types of the variables.
TypeOK ==
    /\ state \in [Tasks -> TaskState \cup {Absent}]
    /\ cancelRequested \in [Tasks -> BOOLEAN]
    /\ updatedAt \in [Tasks -> Clock]
    /\ aborted \in [Tasks -> BOOLEAN]
    /\ expiryTimer \in [Tasks -> BOOLEAN]
    /\ purgeTimer \in [Tasks -> BOOLEAN]
    /\ queued \subseteq Tasks
    /\ disposed \in BOOLEAN
    /\ due \in [Tasks -> BOOLEAN]
    /\ wall \in Clock

\* queuedSize counts the index, not the records: the two never diverge, over
\* any order of transitions, timers, purges and disposal.
QueuedIndexExact == queued = {t \in Tasks : state[t] = "queued"}

\* Every undecided task has an armed expiry timer and no decided one has:
\* lazy expiry, cancellation and replies all disarm it exactly once.
TimerWatchesActiveTasks ==
    \A t \in Tasks : expiryTimer[t] <=> IsActive(state[t])

\* A decided task waits for its purge, and only it, when retention is finite.
PurgeArmedAfterOutcome ==
    \A t \in Tasks : purgeTimer[t] <=> (IsTerminal(state[t]) /\ FiniteRetention)

\* No cancelled or expired task leaves its executor running unwarned, whoever
\* committed the transition and whether or not it set the flag.
StoppedWorkIsWarned ==
    \A t \in Tasks : state[t] \in AbortingStates => aborted[t]

\* A signal is aborted only for a reason that the record shows: its outcome,
\* or that it was asked to stop before another outcome won the race.  (That a
\* task is `cancelled' does not say that its flag is set: the store takes
\* accepted or queued work to `cancelled' without it.)
WarningsAreRecorded ==
    \A t \in Tasks : state[t] # Absent /\ (aborted[t] \/ state[t] = "cancelling") =>
        cancelRequested[t] \/ state[t] \in {"cancelled", "expired"}

\* One transition writes a record, an index, two timers and a signal, and every
\* transition, purge and disposal leaves all of them in agreement.
Consistent ==
    /\ QueuedIndexExact
    /\ TimerWatchesActiveTasks
    /\ PurgeArmedAfterOutcome
    /\ StoppedWorkIsWarned
    /\ WarningsAreRecorded

\* What holds of the store in every state, between any two steps of its callers
\* and timers.
Sound == TypeOK /\ Consistent

\* A decided task keeps its outcome, its cancellation marker and its signal
\* until it is purged or the store is disposed: the first terminal transition
\* to commit wins every race.
FirstOutcomeWins ==
    [][\A t \in Tasks : IsTerminal(state[t]) =>
          \/ state'[t] = Absent
          \/ /\ state'[t] = state[t]
             /\ cancelRequested'[t] = cancelRequested[t]
             /\ updatedAt'[t] = updatedAt[t]
             /\ aborted'[t] = aborted[t]]_vars

\* After the deadline the only thing an undecided task can become is expired:
\* no interleaving of calls starts, cancels, completes or fails it late.
LateTasksOnlyExpire ==
    [][\A t \in Tasks : IsActive(state[t]) /\ due[t] =>
          state'[t] \in {state[t], "expired", Absent}]_vars

\* updatedAt never runs backwards, though the wall clock may.
UpdatedAtMonotone ==
    [][\A t \in Tasks : state'[t] # Absent /\ state[t] # Absent =>
          updatedAt[t] <= updatedAt'[t]]_vars

\* Having been asked to stop is not taken back while the record is there, also
\* when the task completes or fails after all.
WarningsStand ==
    [][\A t \in Tasks : state'[t] # Absent /\ state[t] # Absent =>
          /\ cancelRequested[t] => cancelRequested'[t]
          /\ aborted[t] => aborted'[t]]_vars

\* What a record says only moves on: its first outcome stands, its deadline cuts
\* off everything but expiry, its timestamps follow one another, and a request
\* to stop stands.
RecordsOnlyMoveOn ==
    FirstOutcomeWins /\ LateTasksOnlyExpire /\ UpdatedAtMonotone /\ WarningsStand

\* Every task is decided in the end (or the store is disposed): whatever the
\* callers do, its timer is still armed when its deadline comes.
EveryTaskDecided ==
    \A t \in Tasks : IsActive(state[t]) ~> ~IsActive(state[t])

\* A store with finite retention forgets what was decided.
DecidedTasksForgotten ==
    \A t \in Tasks : (IsTerminal(state[t]) /\ FiniteRetention) ~> state[t] = Absent

\* The life of a task comes to its end, whatever the callers do: it is decided,
\* and a store with finite retention forgets it.
TasksComeToAnEnd == EveryTaskDecided /\ DecidedTasksForgotten

=============================================================================
