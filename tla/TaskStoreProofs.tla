--------------------------- MODULE TaskStoreProofs ---------------------------
(***************************************************************************)
(* What the task store guarantees for every set of requests, every range   *)
(* of the wall clock and either retention setting.                         *)
(***************************************************************************)
EXTENDS TaskStore, TLAPS

\* The inductive invariant: the types, and the agreement of the record with
\* its indexes, timers, signal and cancellation marker.
IInv == TypeOK /\ Consistent

USE DEF OnTime

\* The states partition into active and terminal ones, and Absent is neither.
LEMMA StatesPartition ==
    /\ TaskState = ActiveStates \cup TerminalOutcomes
    /\ ActiveStates \cap TerminalOutcomes = {}
    /\ Absent \notin TaskState
    /\ "expired" \in TerminalOutcomes
    /\ "queued" \in ActiveStates
BY DEF TaskState, ActiveStates, TerminalOutcomes, Absent

\* The legal transitions stay within the states and leave active ones only.
LEMMA LegalEnds ==
    ASSUME NEW from, NEW to, CanTransition(from, to)
    PROVE  from \in ActiveStates /\ to \in TaskState
BY DEF CanTransition, LegalTransitions, ActiveStates, TerminalOutcomes, TaskState

\* Committing any state to an active task keeps the record, its index and its
\* timers in agreement (tryTransition from its linearization point on).
LEMMA CommitKeepsIInv ==
    ASSUME IInv, NEW t \in Tasks, NEW next \in TaskState, NEW asked \in BOOLEAN,
           IsActive(state[t]), Commit(t, next, asked)
    PROVE  IInv'
<1> USE DEF IInv, Commit
<1>1. TypeOK'
  BY DEF TypeOK, Clock, Later, QueuedAfter, ExpiryTimerAfter, PurgeTimerAfter,
         CancelRequestedAfter, AbortedAfter
<1>2. QueuedIndexExact'
  BY DEF TypeOK, Consistent, QueuedIndexExact, QueuedAfter
<1>3. TimerWatchesActiveTasks'
  BY StatesPartition
  DEF TypeOK, Consistent, TimerWatchesActiveTasks, ExpiryTimerAfter, IsActive,
      IsTerminal
<1>4. PurgeArmedAfterOutcome'
  BY StatesPartition
  DEF TypeOK, Consistent, PurgeArmedAfterOutcome, PurgeTimerAfter, IsActive,
      IsTerminal
<1>5. StoppedWorkIsWarned'
  BY DEF TypeOK, Consistent, StoppedWorkIsWarned, AbortedAfter
<1>6. WarningsAreRecorded'
  BY StatesPartition
  DEF TypeOK, Consistent, WarningsAreRecorded, AbortedAfter, CancelRequestedAfter,
      AbortingStates, ActiveStates, IsActive
<1> QED
  BY <1>1, <1>2, <1>3, <1>4, <1>5, <1>6 DEF Consistent

\* What a call or a timer commits to an active task: once the deadline has
\* passed, nothing but the expiry.
CommitsLegally(t) ==
    \E next \in TaskState, asked \in BOOLEAN :
        /\ IsActive(state[t])
        /\ due[t] => next = "expired"
        /\ Commit(t, next, asked)

\* Every step of one task is its creation, such a commit, its removal or the
\* passing of its deadline.
LEMMA StepShape ==
    ASSUME TypeOK, NEW t \in Tasks, Step(t)
    PROVE  \/ \E initial \in InitialStates, asked, expired \in BOOLEAN, createdAt \in Clock :
                 Create(t, initial, asked, createdAt, expired)
           \/ CommitsLegally(t)
           \/ Purge(t)
           \/ DeadlineReached(t)
<1> USE DEF IsActive
<1>e. "expired" \in TaskState
  BY DEF TaskState, TerminalOutcomes
<1>1. ASSUME NEW next, NEW asked \in BOOLEAN, Transition(t, next, asked)
      PROVE  CommitsLegally(t)
  <2>1. next \in TaskState /\ IsActive(state[t]) /\ Commit(t, next, asked)
    BY <1>1, LegalEnds DEF Transition
  <2>2. due[t] => next = "expired"
    BY <1>1 DEF Transition
  <2> QED
    BY <2>1, <2>2 DEF CommitsLegally
<1>2. CASE ExpireOnCall(t) \/ ExpiryTimerFires(t)
  <2>1. IsActive(state[t]) /\ Commit(t, "expired", FALSE)
    BY <1>2 DEF ExpireOnCall, ExpiryTimerFires
  <2> QED
    BY <2>1, <1>e DEF CommitsLegally
<1>3. CASE \E next \in TaskState, asked \in BOOLEAN : Transition(t, next, asked)
  BY <1>3, <1>1
<1>4. CASE BeginExecution(t) \/ Cancel(t) \/ Expire(t)
  BY <1>4, <1>1 DEF BeginExecution, Cancel, Expire
<1>5. CASE Purge(t) \/ PurgeTimerFires(t)
  BY <1>5 DEF PurgeTimerFires
<1>6. CASE \E initial \in InitialStates, asked, expired \in BOOLEAN, createdAt \in Clock :
            Create(t, initial, asked, createdAt, expired)
  BY <1>6
<1> QED
  BY <1>2, <1>3, <1>4, <1>5, <1>6 DEF Step

\* An empty store satisfies the invariant.
LEMMA InitIInv == ASSUME Init PROVE IInv
<1>1. Absent \notin ActiveStates /\ Absent \notin TerminalOutcomes
  BY StatesPartition
<1>2. 0 \in Clock
  BY MaxWallAssumption DEF Clock
<1> QED
  BY <1>1, <1>2 DEF Init, IInv, TypeOK, Consistent, QueuedIndexExact,
     TimerWatchesActiveTasks, PurgeArmedAfterOutcome, StoppedWorkIsWarned,
     WarningsAreRecorded, AbortingStates, IsActive, IsTerminal, Absent

\* Creating a task that the store does not know keeps the invariant.
LEMMA CreateKeepsIInv ==
    ASSUME IInv, NEW t \in Tasks, NEW initial \in InitialStates, NEW asked \in BOOLEAN,
           NEW createdAt \in Clock, NEW expired \in BOOLEAN,
           Create(t, initial, asked, createdAt, expired)
    PROVE  IInv'
<1> DEFINE first == IF expired THEN "expired" ELSE initial
<1>0. /\ first \in TaskState
      /\ expired <=> ~IsActive(first)
      /\ expired <=> IsTerminal(first)
      /\ expired <=> first = "expired"
      /\ first \notin {"cancelling", "cancelled"}
  BY DEF InitialStates, TaskState, ActiveStates, TerminalOutcomes, IsActive, IsTerminal
<1>1. /\ state' = [state EXCEPT ![t] = first]
      /\ queued' = IF first = "queued" THEN queued \cup {t} ELSE queued
      /\ aborted' = [aborted EXCEPT ![t] = expired]
      /\ expiryTimer' = [expiryTimer EXCEPT ![t] = ~expired]
      /\ purgeTimer' = [purgeTimer EXCEPT ![t] = expired /\ FiniteRetention]
      /\ cancelRequested' = [cancelRequested EXCEPT ![t] = asked]
      /\ updatedAt' = [updatedAt EXCEPT ![t] = createdAt]
      /\ due' = [due EXCEPT ![t] = expired]
      /\ UNCHANGED <<disposed, wall>>
      /\ state[t] = "absent"
  BY DEF Create, Absent
<1> HIDE DEF first
<1> USE DEF IInv, Consistent
<1>2. TypeOK'
  BY <1>0, <1>1, RetentionAssumption DEF TypeOK
<1>3. QueuedIndexExact'
  BY <1>0, <1>1 DEF TypeOK, QueuedIndexExact
<1>4. TimerWatchesActiveTasks'
  BY <1>0, <1>1 DEF TypeOK, TimerWatchesActiveTasks, IsActive
<1>5. PurgeArmedAfterOutcome'
  BY <1>0, <1>1, RetentionAssumption DEF TypeOK, PurgeArmedAfterOutcome, IsTerminal
<1>6. StoppedWorkIsWarned'
  BY <1>0, <1>1 DEF TypeOK, StoppedWorkIsWarned, AbortingStates
<1>7. WarningsAreRecorded'
  BY <1>0, <1>1 DEF TypeOK, WarningsAreRecorded
<1> QED
  BY <1>2, <1>3, <1>4, <1>5, <1>6, <1>7

\* Removing any set of records keeps the invariant.
LEMMA RemoveKeepsIInv ==
    ASSUME IInv, NEW S \in SUBSET Tasks, Remove(S),
           aborted' \in [Tasks -> BOOLEAN],
           \A t \in Tasks \ S : state[t] # Absent => aborted'[t] = aborted[t],
           disposed' \in BOOLEAN, UNCHANGED <<due, wall>>
    PROVE  IInv'
<1> USE DEF IInv, Consistent, Remove
<1>0. /\ 0 \in Clock
      /\ Absent \notin ActiveStates
      /\ Absent \notin TerminalOutcomes
      /\ Absent # "queued"
      /\ Absent \notin AbortingStates
  BY MaxWallAssumption, StatesPartition DEF Clock, Absent, AbortingStates
<1>1. TypeOK'
  BY <1>0 DEF TypeOK
<1>2. QueuedIndexExact'
  BY <1>0 DEF TypeOK, QueuedIndexExact
<1>3. TimerWatchesActiveTasks'
  BY <1>0 DEF TypeOK, TimerWatchesActiveTasks, IsActive
<1>4. PurgeArmedAfterOutcome'
  BY <1>0 DEF TypeOK, PurgeArmedAfterOutcome, IsTerminal
<1>5. StoppedWorkIsWarned'
  BY <1>0 DEF TypeOK, StoppedWorkIsWarned
<1>6. WarningsAreRecorded'
  BY <1>0 DEF TypeOK, WarningsAreRecorded
<1> QED
  BY <1>1, <1>2, <1>3, <1>4, <1>5, <1>6

\* No call, timer, disposal or movement of a clock breaks the invariant.
LEMMA NextKeepsIInv == ASSUME IInv, [Next]_vars PROVE IInv'
<1>1. CASE \E t \in Tasks : Step(t)
  <2>1. PICK t \in Tasks : Step(t)
    BY <1>1
  <2>2. TypeOK
    BY DEF IInv
  <2>3. CASE \E initial \in InitialStates, asked, expired \in BOOLEAN, createdAt \in Clock :
                Create(t, initial, asked, createdAt, expired)
    BY <2>3, CreateKeepsIInv
  <2>4. CASE CommitsLegally(t)
    BY <2>4, CommitKeepsIInv DEF CommitsLegally
  <2>5. CASE Purge(t)
    <3>1. /\ Remove({t})
          /\ aborted' \in [Tasks -> BOOLEAN]
          /\ \A u \in Tasks \ {t} : aborted'[u] = aborted[u]
          /\ disposed' \in BOOLEAN
          /\ UNCHANGED <<due, wall>>
      BY <2>2, <2>5 DEF Purge, TypeOK
    <3>2. {t} \in SUBSET Tasks
      OBVIOUS
    <3> QED
      BY <3>1, <3>2, RemoveKeepsIInv
  <2>6. CASE DeadlineReached(t)
    BY <2>6 DEF DeadlineReached, records, IInv, TypeOK, Consistent, QueuedIndexExact,
       TimerWatchesActiveTasks, PurgeArmedAfterOutcome, StoppedWorkIsWarned,
       WarningsAreRecorded
  <2> QED
    BY <2>1, <2>2, <2>3, <2>4, <2>5, <2>6, StepShape
<1>2. CASE Dispose
  <2>1. /\ Remove(Tasks)
        /\ aborted' \in [Tasks -> BOOLEAN]
        /\ disposed' \in BOOLEAN
        /\ UNCHANGED <<due, wall>>
        /\ Tasks \in SUBSET Tasks
    BY <1>2 DEF Dispose, IInv, TypeOK
  <2> QED
    BY <2>1, RemoveKeepsIInv
<1>3. CASE \E w \in Clock : WallClockSet(w)
  BY <1>3 DEF WallClockSet, records, IInv, TypeOK, Consistent, QueuedIndexExact,
     TimerWatchesActiveTasks, PurgeArmedAfterOutcome, StoppedWorkIsWarned,
     WarningsAreRecorded
<1>4. CASE UNCHANGED vars
  BY <1>4 DEF vars, records, IInv, TypeOK, Consistent, QueuedIndexExact,
     TimerWatchesActiveTasks, PurgeArmedAfterOutcome, StoppedWorkIsWarned,
     WarningsAreRecorded
<1> QED
  BY <1>1, <1>2, <1>3, <1>4 DEF Next

\* Every task has exactly the timers its state calls for, the queued index is
\* the set of queued tasks, and signals agree with outcomes and markers.
THEOREM Invariance == Spec => []IInv
<1>1. Init => IInv
  BY InitIInv
<1>2. IInv /\ [Next]_vars => IInv'
  BY NextKeepsIInv
<1> QED
  BY <1>1, <1>2, PTL DEF Spec

\* The variables of the store keep their types.
THEOREM TypeCorrectness == Spec => []TypeOK
<1>1. IInv => TypeOK
  BY DEF IInv
<1> QED
  BY <1>1, Invariance, PTL

\* Every transition, purge and disposal leaves the queued index, both timers,
\* the abort signal and the cancellation marker in agreement with the record.
THEOREM ConsistencyAlways == Spec => []Consistent
<1>1. IInv => Consistent
  BY DEF IInv
<1> QED
  BY <1>1, Invariance, PTL

\* Both together: what the store's callers may rely on between any two steps.
THEOREM SoundAlways == Spec => []Sound
<1>1. IInv => Sound
  BY DEF IInv, Sound
<1> QED
  BY <1>1, Invariance, PTL

-----------------------------------------------------------------------------
\* What one step of the store may do to the record of one task.
KeepsOutcome(t) ==
    IsTerminal(state[t]) =>
       \/ state'[t] = Absent
       \/ /\ state'[t] = state[t]
          /\ cancelRequested'[t] = cancelRequested[t]
          /\ updatedAt'[t] = updatedAt[t]
          /\ aborted'[t] = aborted[t]

OnlyExpiresLate(t) ==
    IsActive(state[t]) /\ due[t] => state'[t] \in {state[t], "expired", Absent}

StampsForward(t) ==
    state'[t] # Absent /\ state[t] # Absent => updatedAt[t] <= updatedAt'[t]

WarningKept(t) ==
    state'[t] # Absent /\ state[t] # Absent =>
       /\ cancelRequested[t] => cancelRequested'[t]
       /\ aborted[t] => aborted'[t]

\* All four facts about a step come from the same case split.
LEMMA StepFacts ==
    ASSUME TypeOK, [Next]_vars, NEW u \in Tasks
    PROVE  KeepsOutcome(u) /\ OnlyExpiresLate(u) /\ StampsForward(u) /\ WarningKept(u)
<1> USE DEF KeepsOutcome, OnlyExpiresLate, StampsForward, WarningKept
<1>0. /\ \A a \in Clock : a <= a
      /\ \A a, b \in Clock : a <= Later(a, b)
      /\ Absent \notin ActiveStates
      /\ Absent \notin TerminalOutcomes
      /\ ActiveStates \cap TerminalOutcomes = {}
  BY StatesPartition DEF Clock, Later
<1>1. CASE \E t \in Tasks : Step(t)
  <2>1. PICK t \in Tasks : Step(t)
    BY <1>1
  <2>2. CASE \E initial \in InitialStates, asked, expired \in BOOLEAN, createdAt \in Clock :
                Create(t, initial, asked, createdAt, expired)
    <3>1. /\ state[t] = Absent
          /\ u # t => /\ state'[u] = state[u]
                      /\ cancelRequested'[u] = cancelRequested[u]
                      /\ updatedAt'[u] = updatedAt[u]
                      /\ aborted'[u] = aborted[u]
      BY <2>2 DEF Create, TypeOK
    <3> QED
      BY <3>1, <1>0 DEF TypeOK, IsActive, IsTerminal
  <2>3. CASE CommitsLegally(t)
    BY <2>3, <1>0 DEF CommitsLegally, Commit, CancelRequestedAfter, AbortedAfter, TypeOK, IsActive, IsTerminal
  <2>4. CASE Purge(t)
    BY <2>4, <1>0 DEF Purge, Remove, TypeOK
  <2>5. CASE DeadlineReached(t)
    BY <2>5, <1>0 DEF DeadlineReached, records, TypeOK
  <2> QED
    BY <2>1, <2>2, <2>3, <2>4, <2>5, StepShape
<1>2. CASE Dispose
  BY <1>2 DEF Dispose, Remove, TypeOK
<1>3. CASE \E w \in Clock : WallClockSet(w)
  BY <1>3, <1>0 DEF WallClockSet, records, TypeOK
<1>4. CASE UNCHANGED vars
  BY <1>4, <1>0 DEF vars, records, TypeOK
<1> QED
  BY <1>1, <1>2, <1>3, <1>4 DEF Next

\* Whichever of a reply, a cancellation and an expiry commits first wins, and
\* nothing about the record changes until it is forgotten.
THEOREM FirstOutcomeWinsAlways == Spec => FirstOutcomeWins
<1>1. TypeOK /\ [Next]_vars =>
        [\A t \in Tasks : IsTerminal(state[t]) =>
          \/ state'[t] = Absent
          \/ /\ state'[t] = state[t]
             /\ cancelRequested'[t] = cancelRequested[t]
             /\ updatedAt'[t] = updatedAt[t]
             /\ aborted'[t] = aborted[t]]_vars
  BY StepFacts DEF KeepsOutcome
<1> QED
  BY <1>1, TypeCorrectness, PTL DEF Spec, FirstOutcomeWins

\* Past its deadline a task can only expire.
THEOREM LateTasksOnlyExpireAlways == Spec => LateTasksOnlyExpire
<1>1. TypeOK /\ [Next]_vars =>
        [\A t \in Tasks : IsActive(state[t]) /\ due[t] =>
          state'[t] \in {state[t], "expired", Absent}]_vars
  BY StepFacts DEF OnlyExpiresLate
<1> QED
  BY <1>1, TypeCorrectness, PTL DEF Spec, LateTasksOnlyExpire

\* The timestamps of a record never run backwards, whatever the wall clock does.
THEOREM UpdatedAtIsMonotone == Spec => UpdatedAtMonotone
<1>1. TypeOK /\ [Next]_vars =>
        [\A t \in Tasks : state'[t] # Absent /\ state[t] # Absent =>
          updatedAt[t] <= updatedAt'[t]]_vars
  BY StepFacts DEF StampsForward
<1> QED
  BY <1>1, TypeCorrectness, PTL DEF Spec, UpdatedAtMonotone

\* That a task was asked to stop is not taken back (nextCancellation, abort).
THEOREM WarningsStandAlways == Spec => WarningsStand
<1>1. TypeOK /\ [Next]_vars =>
        [\A t \in Tasks : state'[t] # Absent /\ state[t] # Absent =>
          /\ cancelRequested[t] => cancelRequested'[t]
          /\ aborted[t] => aborted'[t]]_vars
  BY StepFacts DEF WarningKept
<1> QED
  BY <1>1, TypeCorrectness, PTL DEF Spec, WarningsStand

\* Races of calls and timers, and a wall clock that is set back, only ever move
\* a record on: the four action properties above, as the run checks them.
THEOREM RecordsOnlyMoveOnAlways == Spec => RecordsOnlyMoveOn
BY FirstOutcomeWinsAlways, LateTasksOnlyExpireAlways, UpdatedAtIsMonotone,
   WarningsStandAlways
   DEF RecordsOnlyMoveOn
=============================================================================
