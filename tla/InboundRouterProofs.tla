-------------------------- MODULE InboundRouterProofs --------------------------
(***************************************************************************)
(* The receiving side for every set of requests, every setting of the      *)
(* router, clocks that disagree in any way, and executors that do anything *)
(* or nothing: its books agree, its slots are used, it starts work in      *)
(* order and in time, and each request lives the life of RequestLife.      *)
(***************************************************************************)
EXTENDS InboundRouter, FiniteSetTheorems, SequenceTheorems, TLAPS

\* A request without a task, while the router is open, has left no trace; and its
\* deadline is not yet one that the store or a timer could find passed.
Untouched ==
    \A r \in Requests : ~closed /\ state[r] = Absent =>
        /\ exec[r] = "none"
        /\ r \notin active
        /\ ~routerTimer[r]
        /\ replies[r] = <<>>
        /\ {"store", "timer"} \cap due[r] = {}

\* close disposes the task store and the dedupe store.
ClosedForgets == closed => \A r \in Requests : state[r] = Absent /\ dedupe[r] = Absent

\* A request that still waits for its terminal reply was sent none, and none was
\* ever sent two.
RepliedOnce ==
    \A r \in Requests :
        /\ Len(replies[r]) <= 1
        /\ inbound[r] = "open" => replies[r] = <<>>

\* The inductive invariant.
IInv ==
    /\ setting \in Settings
    /\ TypeOK
    /\ BooksAgree
    /\ SlotsWellUsed
    /\ Untouched
    /\ ClosedForgets
    /\ RepliedOnce

\* drainQueue from the tasks st, the queue S, the slots A and the executors ex started
\* what is in `started', after a sweep left the tasks as `swept'.
Drained(st, S, A, ex, swept, started) ==
    /\ \A q \in Requests : swept[q] = st[q] \/ (q \in S /\ swept[q] = "expired")
    /\ \A s \in started : st[s] = "queued" /\ {"store", "policy"} \cap due[s] = {}
    /\ state' = [q \in Requests |-> IF q \in started THEN "working" ELSE swept[q]]
    /\ exec' = [q \in Requests |-> IF q \in started THEN "running" ELSE ex[q]]
    /\ runs' = [q \in Requests |-> IF q \in started THEN runs[q] + 1 ELSE runs[q]]
    /\ active' = A \cup started
    /\ queue' \subseteq S \ started
    /\ \A q \in S \ started : swept[q] = "queued" /\ "policy" \notin due[q] =>
          q \in queue' /\ \A s \in started : arrival[s] < arrival[q]

\* What the books say about one request: IInv, request by request.
Consistent(r) ==
    /\ state[r] \in {"working", "cancelling"} => r \in active
    /\ r \in active => inbound[r] = "open"
    /\ state[r] = "queued" /\ "policy" \notin due[r] => r \in queue
    /\ r \in queue => /\ r \notin active
                      /\ exec[r] = "none"
                      /\ inbound[r] = "open"
                      /\ closed \/ state[r] \in {"queued", "expired"}
    /\ IsTerminal(state[r]) /\ state[r] # "expired" =>
          r \notin active /\ r \notin queue /\ inbound[r] # "open" /\ ~routerTimer[r]
    /\ dedupe[r] # Absent => answer[r] = dedupe[r]
    /\ ~closed /\ state[r] = Absent =>
          /\ exec[r] = "none"
          /\ r \notin active
          /\ ~routerTimer[r]
          /\ replies[r] = <<>>
          /\ {"store", "timer"} \cap due[r] = {}
    /\ closed => state[r] = Absent /\ dedupe[r] = Absent
    /\ Len(replies[r]) <= 1
    /\ inbound[r] = "open" => replies[r] = <<>>

\* What a step may do to a request.  It may leave it as it is, but for what time,
\* reading it, its executor's return, a repeated delivery or a first request to stop do.
Stays(r) ==
    /\ \/ state'[r] = state[r]
       \/ state'[r] = "expired" /\ IsActive(state[r])
       \/ state[r] = "working" /\ state'[r] = "cancelling"
    /\ r \in active' <=> r \in active
    /\ r \in queue' => r \in queue
    /\ r \in queue /\ state'[r] = "queued" /\ "policy" \notin due'[r] => r \in queue'
    /\ exec'[r] = exec[r] \/ (exec[r] = "running" /\ exec'[r] = "returned")
    /\ runs'[r] = runs[r] /\ replies'[r] = replies[r] /\ dedupe'[r] = dedupe[r]
    /\ answer'[r] = answer[r] \/ dedupe[r] = Absent \/ answer'[r] = dedupe[r]
    /\ inbound'[r] = inbound[r] \/ (inbound[r] = "replying" /\ inbound'[r] = "none")
    /\ routerTimer'[r] => routerTimer[r]
    /\ due[r] \subseteq due'[r]
    /\ state[r] = Absent /\ ~routerTimer[r] =>
          {"store", "timer"} \cap due'[r] = {"store", "timer"} \cap due[r]
    /\ closed' = closed

\* It may leave the queue and start.
Starts(r) ==
    /\ r \in queue /\ r \notin queue' /\ r \in active'
    /\ state[r] = "queued" /\ {"store", "policy"} \cap due[r] = {} /\ state'[r] = "working"
    /\ runs'[r] = runs[r] + 1
    /\ replies'[r] = replies[r] /\ dedupe'[r] = dedupe[r] /\ answer'[r] = answer[r]
    /\ inbound'[r] = inbound[r]
    /\ ~closed /\ ~closed'

\* It may be decided, and the decision is carried through.
Decides(r, outcome) ==
    /\ outcome \in TerminalOutcomes
    /\ IsActive(state[r]) \/ state[r] = outcome
    /\ state'[r] = outcome
    /\ r \notin active' /\ r \notin queue' /\ inbound'[r] # "open" /\ ~routerTimer'[r]
    /\ \/ replies'[r] = replies[r]
       \/ inbound[r] = "open" /\ replies'[r] = Append(replies[r], outcome)
    /\ runs'[r] = runs[r] /\ dedupe'[r] = dedupe[r] /\ answer'[r] = answer[r]
    /\ ~closed /\ ~closed'

\* It may be admitted, to a slot, to the queue, or too late for either.
Admits(r) ==
    /\ state[r] = Absent
    /\ inbound'[r] = "open"
    /\ dedupe'[r] = answer'[r]
    /\ replies'[r] = replies[r]
    /\ \/ /\ state'[r] = "working" /\ r \in active' /\ r \notin queue'
          /\ runs'[r] = runs[r] + 1 /\ {"store", "policy"} \cap due[r] = {}
       \/ /\ state'[r] = "queued" /\ r \notin active' /\ r \in queue'
          /\ exec'[r] = exec[r] /\ runs'[r] = runs[r]
       \/ /\ state'[r] = "expired" /\ r \notin active'
          /\ exec'[r] = exec[r] /\ runs'[r] = runs[r]
    /\ ~closed /\ ~closed'

\* It may be forgotten with the rest.
Forgets(r) ==
    /\ state'[r] = Absent /\ dedupe'[r] = Absent
    /\ r \in active' <=> r \in active
    /\ r \in queue' <=> r \in queue
    /\ exec'[r] = exec[r] /\ runs'[r] = runs[r] /\ replies'[r] = replies[r]
    /\ inbound'[r] = inbound[r]
    /\ ~closed /\ closed'

Moves(r) ==
    \/ Stays(r)
    \/ Starts(r)
    \/ \E outcome \in TerminalOutcomes : Decides(r, outcome)
    \/ Admits(r)
    \/ Forgets(r)

-----------------------------------------------------------------------------
\* The states are what they are called, and a queued task can expire.
LEMMA StateFacts ==
    /\ TaskState = ActiveStates \cup TerminalOutcomes
    /\ ActiveStates \cap TerminalOutcomes = {}
    /\ Absent \notin TaskState
    /\ CanTransition("queued", "expired")
    /\ ~CanTransition("expired", "expired")
    /\ {"created", "queued", "working", "cancelling", "accepted"} = ActiveStates
    /\ "expired" \in TerminalOutcomes
BY DEF TaskState, ActiveStates, TerminalOutcomes, Absent, CanTransition, LegalTransitions

\* The capacities of a router are positive, and every group of clocks is one of clocks.
LEMMA SettingFacts ==
    ASSUME setting \in Settings
    PROVE  /\ QueueCapacity \in Nat \ {0}
           /\ ActiveCapacity \in Nat \ {0}
           /\ \A r \in Requests : \A G \in ClockGroups(r) : G \subseteq Clocks
           /\ Results \subseteq {"void", "completed", "failed", "rejected", "threw"}
<1>1. setting \in Setting
  BY SettingsAssumption
<1>2. /\ QueueCapacity \in Nat \ {0}
      /\ ActiveCapacity \in Nat \ {0}
      /\ Results \subseteq {"void", "completed", "failed", "rejected", "threw"}
  BY <1>1 DEF Setting, QueueCapacity, ActiveCapacity, Results
<1>3. ASSUME NEW r \in Requests, NEW G \in ClockGroups(r)
      PROVE  G \subseteq Clocks
  <2>1. setting.clockGroups \in [Requests -> SUBSET SUBSET Clocks]
    BY <1>1 DEF Setting
  <2>2. setting.clockGroups[r] \in SUBSET SUBSET Clocks
    BY <2>1
  <2> QED
    BY <2>2, <1>3 DEF ClockGroups
<1> QED
  BY <1>2, <1>3

\* A sweep expires tasks of the swept queue that are due, and nothing else.
LEMMA SeenFacts ==
    ASSUME NEW st, NEW S, NEW q \in Requests
    PROVE  \/ Seen(st, S)[q] = st[q]
           \/ /\ q \in S
              /\ Seen(st, S)[q] = "expired"
              /\ CanTransition(st[q], "expired")
BY DEF Seen

\* What the queue holds while the router is open.
LEMMA QueuedFacts ==
    ASSUME IInv, ~closed, NEW q \in queue
    PROVE  /\ q \in Requests
           /\ q \notin active
           /\ exec[q] = "none"
           /\ inbound[q] = "open"
           /\ state[q] \in {"queued", "expired"}
BY DEF IInv, TypeOK, BooksAgree, QueueMatchesTasks

\* While the router is open, policy.expire keeps exactly the entries that its own
\* clock has not expired, and dispatchLease starts those that are queued and that the
\* store's clock has not expired either.
LEMMA RunnableFacts ==
    ASSUME IInv, ~closed, NEW st, NEW S \in SUBSET queue,
           \A q \in S : st[q] = state[q] \/ st[q] = "expired"
    PROVE  /\ Runnable(st, S) = {q \in S : "policy" \notin due[q]}
           /\ Startable(st, S) =
                {q \in S : /\ "policy" \notin due[q]
                           /\ Seen(st, S)[q] = "queued"}
           /\ \A q \in Startable(st, S) :
                st[q] = "queued" /\ {"store", "policy"} \cap due[q] = {}
<1>1. ASSUME NEW q \in S
      PROVE  /\ Seen(st, S)[q] \in {"queued", "expired"}
             /\ inbound[q] = "open"
             /\ "policy" \notin due[q] /\ Seen(st, S)[q] = "queued" =>
                  st[q] = "queued" /\ "store" \notin due[q]
  <2>1. q \in Requests /\ inbound[q] = "open" /\ st[q] \in {"queued", "expired"}
    BY QueuedFacts
  <2> QED
    BY <2>1, StateFacts DEF Seen
<1>2. Runnable(st, S) = {q \in S : "policy" \notin due[q]}
  BY <1>1 DEF Runnable
<1>3. Startable(st, S) = {q \in S : "policy" \notin due[q] /\ Seen(st, S)[q] = "queued"}
  BY <1>1, <1>2 DEF Startable
<1> QED
  BY <1>1, <1>2, <1>3

\* The sets of requests that the router keeps are finite.
LEMMA FiniteFacts ==
    ASSUME NEW S \in SUBSET Requests
    PROVE  IsFiniteSet(S) /\ Cardinality(S) \in Nat
BY RequestsAssumption, FS_Subset, FS_CardinalityType

LEMMA DisjointSets ==
    ASSUME NEW S, NEW T, IsFiniteSet(S), IsFiniteSet(T), S \cap T = {}
    PROVE  Cardinality(S \cup T) = Cardinality(S) + Cardinality(T)
<1>1. Cardinality(S \cup T) = Cardinality(S) + Cardinality(T) - Cardinality(S \cap T)
  BY FS_Union
<1>2. Cardinality(S \cap T) = 0
  BY FS_EmptySet
<1>3. Cardinality(S) \in Nat /\ Cardinality(T) \in Nat
  BY FS_CardinalityType
<1> QED
  BY <1>1, <1>2, <1>3

\* drainQueue starts the oldest of what may start, and keeps the rest of it.
LEMMA DrainFacts ==
    ASSUME IInv, ~closed,
           NEW st, NEW S \in SUBSET queue, NEW A \in SUBSET active, NEW ex,
           st \in [Requests -> TaskState \cup {Absent}],
           ex \in [Requests -> {"none", "running", "returned"}],
           \A q \in S : st[q] = state[q] \/ st[q] = "expired",
           DrainQueue(st, S, A, ex)
    PROVE  /\ \E swept \in [Requests -> TaskState \cup {Absent}], started \in SUBSET S :
                Drained(st, S, A, ex, swept, started)
           /\ Cardinality(active') <= ActiveCapacity
           /\ queue' # {} => Cardinality(active') = ActiveCapacity
<1> USE DEF QueueAfter, FreeSlots
<1>1. /\ ActiveCapacity \in Nat \ {0}
      /\ arrival \in [Requests -> Nat]
      /\ queue \subseteq Requests /\ active \subseteq Requests
      /\ Cardinality(active) <= ActiveCapacity
      /\ runs \in [Requests -> Nat]
  BY SettingFacts DEF IInv, TypeOK, SlotsWellUsed
<1>2. /\ IsFiniteSet(A) /\ Cardinality(A) \in Nat
      /\ IsFiniteSet(active) /\ Cardinality(active) \in Nat
      /\ Cardinality(A) <= Cardinality(active)
  BY <1>1, FiniteFacts, FS_Subset
<1>3. CASE FreeSlots(A) <= 0
  <2>1. NothingDrained(st, S, A, ex)
    BY <1>3 DEF DrainQueue
  <2>2. Drained(st, S, A, ex, st, {})
    BY <2>1, <1>1 DEF NothingDrained, Drained
  <2>3. Cardinality(active') = ActiveCapacity
    BY <2>1, <1>1, <1>2, <1>3 DEF NothingDrained
  <2> QED
    BY <2>2, <2>3, <1>1
<1>4. CASE ~(FreeSlots(A) <= 0)
  <2>1. PICK started \in SUBSET Startable(st, S) :
            /\ IsFirst(started, FreeSlots(A), Startable(st, S))
            /\ state' = [r \in Requests |->
                            IF r \in started THEN "working" ELSE Seen(st, S)[r]]
            /\ queue' = QueueAfter(st, S, A, started)
            /\ active' = SlotsAfter(A, started)
            /\ exec' = [r \in Requests |-> IF r \in started THEN "running" ELSE ex[r]]
            /\ runs' = [r \in Requests |-> IF r \in started THEN runs[r] + 1 ELSE runs[r]]
    BY <1>4 DEF DrainQueue
  <2>2. /\ started \subseteq S
        /\ S \subseteq Requests
        /\ \A s \in started : st[s] = "queued" /\ {"store", "policy"} \cap due[s] = {}
        /\ \A q \in S \ started : "policy" \notin due[q] /\ Seen(st, S)[q] = "queued" =>
              q \in Startable(st, S) \ started /\ q \in Runnable(st, S)
        /\ Runnable(st, S) \subseteq S
    BY RunnableFacts, <1>1
  <2>3. /\ IsFiniteSet(started) /\ Cardinality(started) \in Nat
        /\ Cardinality(started) <= FreeSlots(A)
        /\ started # Startable(st, S) => Cardinality(started) = FreeSlots(A)
        /\ \A p \in started, q \in Startable(st, S) \ started : arrival[p] < arrival[q]
    BY <2>1, <2>2, <1>1, FiniteFacts DEF IsFirst
  <2>4. queue' \subseteq S \ started
    <3>1. ASSUME NEW q \in queue' PROVE q \in Runnable(st, S) /\ q \notin started
      <4>1. q \in {r \in Runnable(st, S) : \A s \in started : arrival[s] < arrival[r]}
        BY <2>1
      <4>2. q \in Requests
        BY <4>1, <2>2
      <4> QED
        BY <4>1, <4>2, <1>1
    <3> QED
      BY <3>1, <2>2
  <2>5. ASSUME NEW q \in S \ started, Seen(st, S)[q] = "queued", "policy" \notin due[q]
        PROVE  q \in queue' /\ \A s \in started : arrival[s] < arrival[q]
    <3>1. q \in Startable(st, S) \ started /\ q \in Runnable(st, S)
      BY <2>2, <2>5
    <3>2. Cardinality(started) = FreeSlots(A)
      BY <3>1, <2>3
    <3>3. \A s \in started : arrival[s] < arrival[q]
      BY <3>1, <2>3
    <3>4. queue' = {r \in Runnable(st, S) : \A s \in started : arrival[s] < arrival[r]}
      BY <2>1, <3>2, <1>1, <1>2
    <3> QED
      BY <3>1, <3>3, <3>4
  <2>6. Seen(st, S) \in [Requests -> TaskState \cup {Absent}]
    <3>1. ASSUME NEW q \in Requests PROVE Seen(st, S)[q] \in TaskState \cup {Absent}
      BY SeenFacts, StateFacts
    <3> QED
      BY <3>1 DEF Seen
  <2>7. \A q \in Requests : Seen(st, S)[q] = st[q] \/ (q \in S /\ Seen(st, S)[q] = "expired")
    BY SeenFacts
  <2>8. Drained(st, S, A, ex, Seen(st, S), started)
    BY <2>1, <2>2, <2>4, <2>5, <2>7 DEF Drained, SlotsAfter
  <2>9. Cardinality(active') = Cardinality(A) + Cardinality(started)
    <3>1. A \cap started = {}
      BY <2>2, QueuedFacts
    <3> QED
      BY <3>1, <2>1, <2>3, <1>2, DisjointSets DEF SlotsAfter
  <2>10. queue' # {} => Cardinality(started) = FreeSlots(A)
    BY <2>1, <2>3, <1>1, <1>2
  <2> QED
    BY <2>2, <2>3, <2>6, <2>8, <2>9, <2>10, <1>1, <1>2
<1> QED
  BY <1>3, <1>4

-----------------------------------------------------------------------------
(* Each of these moves keeps the books of the request consistent. *)

\* The invariant, request by request.
LEMMA RequestByRequest ==
    ASSUME IInv, NEW r \in Requests
    PROVE  Consistent(r)
<1>1. /\ WorkHoldsSlot /\ QueueMatchesTasks /\ DecisionsCarriedThrough /\ RetriesReplay
      /\ Untouched /\ ClosedForgets /\ RepliedOnce
  BY DEF IInv, BooksAgree
<1>2. /\ state[r] \in {"working", "cancelling"} => r \in active
      /\ r \in active => inbound[r] = "open"
  BY <1>1 DEF WorkHoldsSlot
<1>3. /\ state[r] = "queued" /\ "policy" \notin due[r] => r \in queue
      /\ r \in queue => /\ r \notin active
                        /\ exec[r] = "none"
                        /\ inbound[r] = "open"
                        /\ closed \/ state[r] \in {"queued", "expired"}
  BY <1>1 DEF QueueMatchesTasks
<1>4. /\ IsTerminal(state[r]) /\ state[r] # "expired" =>
            r \notin active /\ r \notin queue /\ inbound[r] # "open" /\ ~routerTimer[r]
      /\ dedupe[r] # Absent => answer[r] = dedupe[r]
  BY <1>1 DEF DecisionsCarriedThrough, RetriesReplay
<1>5. /\ ~closed /\ state[r] = Absent =>
            /\ exec[r] = "none"
            /\ r \notin active
            /\ ~routerTimer[r]
            /\ replies[r] = <<>>
            /\ {"store", "timer"} \cap due[r] = {}
      /\ closed => state[r] = Absent /\ dedupe[r] = Absent
      /\ Len(replies[r]) <= 1
      /\ inbound[r] = "open" => replies[r] = <<>>
  BY <1>1 DEF Untouched, ClosedForgets, RepliedOnce
<1> QED
  BY <1>2, <1>3, <1>4, <1>5 DEF Consistent

LEMMA MovesConsistently ==
    ASSUME NEW r \in Requests, Consistent(r), Moves(r)
    PROVE  Consistent(r)'
<1>1. CASE Stays(r)
  BY <1>1, StateFacts DEF Stays, Consistent, IsTerminal, IsActive, TaskState
<1>2. CASE Starts(r)
  BY <1>2, StateFacts DEF Starts, Consistent, IsTerminal, IsActive, Absent, TaskState
<1>3. ASSUME NEW outcome \in TerminalOutcomes, Decides(r, outcome) PROVE Consistent(r)'
  <2>1. Len(Append(<<>>, outcome)) = 1
    OBVIOUS
  <2> QED
    BY <1>3, <2>1, StateFacts DEF Decides, Consistent, IsTerminal, IsActive, Absent, TaskState
<1>4. CASE Admits(r)
  BY <1>4, StateFacts DEF Admits, Consistent, IsTerminal, IsActive, Absent
<1>5. CASE Forgets(r)
  BY <1>5, StateFacts DEF Forgets, Consistent, IsTerminal, IsActive, TaskState
<1> QED
  BY <1>1, <1>2, <1>3, <1>4, <1>5 DEF Moves

\* So a step whose every move is one of these keeps the invariant.
LEMMA MovesInvariantly ==
    ASSUME IInv, setting' = setting, TypeOK', SlotsWellUsed', \A r \in Requests : Moves(r)
    PROVE  IInv'
<1>1. ASSUME NEW r \in Requests PROVE Consistent(r)'
  <2>1. Consistent(r) /\ Moves(r)
    BY RequestByRequest
  <2> QED
    BY <2>1, MovesConsistently
<1>2. queue' \subseteq Requests /\ active' \subseteq Requests /\ setting' \in Settings
  BY DEF TypeOK, IInv
<1>3. WorkHoldsSlot'
  BY <1>1, <1>2 DEF WorkHoldsSlot, Consistent
<1>4. QueueMatchesTasks'
  BY <1>1, <1>2 DEF QueueMatchesTasks, Consistent
<1>5. DecisionsCarriedThrough' /\ RetriesReplay'
  BY <1>1 DEF DecisionsCarriedThrough, RetriesReplay, Consistent
<1>6. Untouched' /\ ClosedForgets' /\ RepliedOnce'
  BY <1>1 DEF Untouched, ClosedForgets, RepliedOnce, Consistent
<1> QED
  BY <1>2, <1>3, <1>4, <1>5, <1>6 DEF IInv, BooksAgree

\* A request starts only in time, and only if nobody cancelled it.
LEMMA MovesInTime ==
    ASSUME TypeOK, NEW r \in Requests, Moves(r), runs'[r] > runs[r]
    PROVE  {"store", "policy"} \cap due[r] = {} /\ state[r] \in {Absent, "queued"}
<1>1. runs[r] \in Nat
  BY DEF TypeOK
<1> QED
  BY <1>1 DEF Moves, Stays, Starts, Decides, Admits, Forgets

\* Each move is a step of the life that RequestLife describes.
LEMMA MovesOnwards ==
    ASSUME TypeOK, TypeOK', NEW r \in Requests, Consistent(r), Moves(r)
    PROVE  Contract!MayBecome(life[r], life'[r]) /\ life'[r] \in Contract!Life
<1> DEFINE outcomeOf == IF IsTerminal(state[r]) THEN state[r] ELSE NoOutcome
<1>1. /\ life[r].stage = StageOf(r) /\ life'[r].stage = StageOf(r)'
      /\ life[r].outcome = outcomeOf /\ life'[r].outcome = outcomeOf'
      /\ life[r].reply = ReplyOf(r) /\ life'[r].reply = ReplyOf(r)'
      /\ life'[r] = [stage |-> StageOf(r)', outcome |-> outcomeOf', reply |-> ReplyOf(r)']
  BY DEF life
<1>2. Consistent(r)'
  BY MovesConsistently
<1>3. state[r] \in TaskState \cup {Absent} /\ state'[r] \in TaskState \cup {Absent}
  BY DEF TypeOK
<1>4. /\ StageOf(r)' \in Contract!Stages
      /\ outcomeOf' \in TerminalOutcomes \cup {NoOutcome}
      /\ StageOf(r)' = "decided" <=> outcomeOf' # NoOutcome
  BY <1>2, <1>3, StateFacts DEF StageOf, Contract!Stages, NoOutcome, Consistent, IsTerminal, Absent
<1>5. StageOf(r) = StageOf(r)' \/ <<StageOf(r), StageOf(r)'>> \in Contract!Onwards
  <2>1. CASE Stays(r)
    BY <2>1, <1>3, StateFacts DEF Stays, StageOf, Contract!Onwards, Contract!Stages, IsTerminal, IsActive, Absent
  <2>2. CASE Starts(r)
    BY <2>2, <1>3, StateFacts DEF Starts, StageOf, Contract!Onwards, Contract!Stages, IsTerminal, IsActive, Absent
  <2>3. ASSUME NEW outcome \in TerminalOutcomes, Decides(r, outcome)
        PROVE  StageOf(r) = StageOf(r)' \/ <<StageOf(r), StageOf(r)'>> \in Contract!Onwards
    BY <2>3, <1>3, StateFacts DEF Decides, StageOf, Contract!Onwards, Contract!Stages, IsTerminal, IsActive, Absent
  <2>4. CASE Admits(r)
    BY <2>4, <1>3, StateFacts DEF Admits, StageOf, Contract!Onwards, Contract!Stages, IsTerminal, IsActive, Absent
  <2>5. CASE Forgets(r)
    BY <2>5, <1>3, StateFacts DEF Forgets, StageOf, Contract!Onwards, Contract!Stages, IsTerminal, IsActive, Absent
  <2> QED
    BY <2>1, <2>2, <2>3, <2>4, <2>5 DEF Moves
<1>6. StageOf(r) = "decided" /\ StageOf(r)' = "decided" => outcomeOf = outcomeOf'
  <2>1. (StageOf(r) = "decided" => IsTerminal(state[r]) /\ ~closed)
          /\ (StageOf(r)' = "decided" => IsTerminal(state'[r]) /\ ~closed')
    BY <1>3 DEF StageOf, IsTerminal
  <2>2. IsTerminal(state[r]) /\ IsTerminal(state'[r]) /\ ~closed' => state'[r] = state[r]
    BY StateFacts DEF Moves, Stays, Starts, Decides, Admits, Forgets, IsTerminal, IsActive
  <2> QED
    BY <2>1, <2>2
<1>7. /\ replies[r] \in Seq(TerminalOutcomes) /\ replies'[r] \in Seq(TerminalOutcomes)
      /\ Len(replies[r]) <= 1 /\ Len(replies'[r]) <= 1
  BY <1>2 DEF TypeOK, Consistent
<1>8. ReplyOf(r)' \in TerminalOutcomes \cup {NoOutcome}
  <2>1. replies'[r] = <<>> \/ (Len(replies'[r]) = 1 /\ Head(replies'[r]) \in TerminalOutcomes)
    <3>1. replies'[r] # <<>> => Len(replies'[r]) # 0
      BY <1>7, EmptySeq
    <3>2. Len(replies'[r]) \in Nat
      BY <1>7, LenProperties
    <3> QED
      <4>1. replies'[r] # <<>> => Head(replies'[r]) \in TerminalOutcomes
        BY <1>7, HeadTailProperties
      <4>2. replies'[r] # <<>> => Len(replies'[r]) = 1
        <5>1. \A n \in Nat : n <= 1 /\ n # 0 => n = 1
          OBVIOUS
        <5>2. Len(replies'[r]) <= 1
          BY <1>7
        <5> QED
          BY <5>1, <5>2, <3>1, <3>2, Zenon
      <4> QED
        BY <4>1, <4>2
  <2> QED
    BY <2>1 DEF ReplyOf
<1>9. \/ replies'[r] = replies[r]
      \/ /\ replies[r] = <<>> /\ IsTerminal(state'[r])
         /\ replies'[r] = <<state'[r]>>
  BY DEF Moves, Stays, Starts, Decides, Admits, Forgets, IsTerminal, Consistent
<1>10. ReplyOf(r) # ReplyOf(r)' => ReplyOf(r) = NoOutcome /\ ReplyOf(r)' = outcomeOf'
  <2>1. CASE replies'[r] = replies[r]
    BY <2>1 DEF ReplyOf
  <2>2. CASE replies[r] = <<>> /\ IsTerminal(state'[r]) /\ replies'[r] = <<state'[r]>>
    <3>1. replies'[r] # <<>> /\ Len(replies'[r]) = 1 /\ Head(replies'[r]) = state'[r]
      BY <2>2
    <3> QED
      BY <2>2, <3>1 DEF ReplyOf
  <2> QED
    BY <1>9, <2>1, <2>2
<1>11. life'[r] \in Contract!Life
  BY <1>1, <1>4, <1>8 DEF Contract!Life
<1> HIDE DEF outcomeOf
<1> QED
  BY <1>1, <1>4, <1>5, <1>6, <1>10, <1>11 DEF Contract!MayBecome

-----------------------------------------------------------------------------
(* What each handler does is a move of every request. *)

\* A step started the oldest first (StartsInOrder, of one step).
InOrder ==
    \A r \in queue : runs'[r] > runs[r] =>
        \A q \in Requests : state'[q] = "queued" /\ "policy" \notin due[q] =>
            arrival[r] < arrival[q]

\* A step is accounted for.
Accounted == TypeOK' /\ SlotsWellUsed' /\ InOrder /\ \A r \in Requests : Moves(r)

\* The rest of what the router knows of a request is left alone.
LeftAlone(q) ==
    /\ inbound'[q] = inbound[q] /\ routerTimer'[q] = routerTimer[q]
    /\ replies'[q] = replies[q] /\ dedupe'[q] = dedupe[q] /\ answer'[q] = answer[q]
    /\ due'[q] = due[q]

\* Any other request than the one that a handler is about stays or starts.
LEMMA DrainedMoves ==
    ASSUME IInv, ~closed, closed' = closed,
           NEW st, NEW S \in SUBSET queue, NEW A, NEW ex, NEW swept, NEW started \in SUBSET S,
           Drained(st, S, A, ex, swept, started),
           NEW q \in Requests,
           st[q] = state[q] \/ (q \in queue /\ st[q] = "expired"),
           ex[q] = exec[q], q \in A <=> q \in active,
           q \in queue /\ "policy" \notin due[q] => q \in S,
           LeftAlone(q)
    PROVE  Moves(q)
<1>1. CASE q \in started
  <2>1. Starts(q)
    BY <1>1 DEF Drained, Starts, LeftAlone
  <2> QED
    BY <2>1 DEF Moves
<1>2. CASE q \notin started
  <2>1. /\ state'[q] = swept[q]
        /\ exec'[q] = exec[q] /\ runs'[q] = runs[q]
        /\ q \in active' <=> q \in active
        /\ q \in queue' => q \in queue
        /\ q \in queue /\ state'[q] = "queued" /\ "policy" \notin due[q] => q \in queue'
    <3>1. state'[q] = swept[q] /\ exec'[q] = exec[q] /\ runs'[q] = runs[q]
      BY <1>2 DEF Drained
    <3>2. active' = A \cup started /\ queue' \subseteq S \ started
      BY DEF Drained
    <3>3. q \in S \ started /\ swept[q] = "queued" /\ "policy" \notin due[q] => q \in queue'
      BY DEF Drained
    <3>4. q \in active' <=> q \in active
      BY <3>2, <1>2
    <3>5. q \in queue' => q \in queue
      BY <3>2
    <3>6. q \in queue /\ state'[q] = "queued" /\ "policy" \notin due[q] => q \in queue'
      BY <3>1, <3>3, <1>2
    <3> QED
      BY <3>1, <3>4, <3>5, <3>6
  <2>2. state'[q] = state[q] \/ (state'[q] = "expired" /\ IsActive(state[q]))
    <3>1. swept[q] = state[q] \/ (q \in queue /\ swept[q] = "expired")
      BY DEF Drained
    <3>2. q \in queue => state[q] \in {"queued", "expired"}
      BY QueuedFacts
    <3> QED
      BY <3>1, <3>2, <2>1, StateFacts DEF IsActive
  <2>3. Stays(q)
    BY <2>1, <2>2 DEF Stays, LeftAlone
  <2> QED
    BY <2>3 DEF Moves
<1> QED
  BY <1>1, <1>2

\* A drain starts what came first.
LEMMA DrainedInOrder ==
    ASSUME IInv, ~closed,
           NEW st, NEW S \in SUBSET queue, NEW A, NEW ex, NEW swept, NEW started \in SUBSET S,
           Drained(st, S, A, ex, swept, started),
           \A q \in Requests : st[q] = "queued" /\ "policy" \notin due[q] =>
                state[q] = "queued" /\ (q \in queue => q \in S)
    PROVE  InOrder
<1> SUFFICES ASSUME NEW r \in queue, runs'[r] > runs[r],
                    NEW q \in Requests, state'[q] = "queued", "policy" \notin due[q]
             PROVE  arrival[r] < arrival[q]
  BY DEF InOrder
<1>1. r \in Requests /\ runs \in [Requests -> Nat]
  BY DEF IInv, TypeOK
<1>2. r \in started
  BY <1>1 DEF Drained
<1>3. q \notin started /\ swept[q] = "queued"
  BY DEF Drained
<1>4. st[q] = "queued"
  BY <1>3 DEF Drained
<1>5. q \in queue
  BY <1>4 DEF IInv, BooksAgree, QueueMatchesTasks
<1>6. q \in S \ started
  BY <1>3, <1>4, <1>5
<1> QED
  BY <1>2, <1>3, <1>6 DEF Drained

\* And it leaves the variables that it writes in their types.
LEMMA DrainedTypes ==
    ASSUME TypeOK,
           NEW st, NEW S \in SUBSET queue, NEW A \in SUBSET active,
           NEW ex \in [Requests -> {"none", "running", "returned"}],
           NEW swept \in [Requests -> TaskState \cup {Absent}], NEW started \in SUBSET S,
           Drained(st, S, A, ex, swept, started)
    PROVE  /\ state' \in [Requests -> TaskState \cup {Absent}]
           /\ exec' \in [Requests -> {"none", "running", "returned"}]
           /\ runs' \in [Requests -> Nat]
           /\ queue' \subseteq Requests
           /\ active' \subseteq Requests
<1>1. "working" \in TaskState
  BY StateFacts
<1>2. queue \subseteq Requests /\ active \subseteq Requests /\ runs \in [Requests -> Nat]
  BY DEF TypeOK
<1>3. state' \in [Requests -> TaskState \cup {Absent}]
  BY <1>1 DEF Drained
<1>4. exec' \in [Requests -> {"none", "running", "returned"}]
  BY DEF Drained
<1>5. runs' \in [Requests -> Nat]
  BY <1>2 DEF Drained
<1>6. queue' \subseteq Requests /\ active' \subseteq Requests
  BY <1>2 DEF Drained
<1> QED
  BY <1>3, <1>4, <1>5, <1>6

\* The slots after a step, from what it did to the queue and to them.
LEMMA SlotsAgain ==
    ASSUME IInv, setting' = setting, queue' \subseteq queue,
           Cardinality(active') <= ActiveCapacity,
           queue' # {} => Cardinality(active') = ActiveCapacity
    PROVE  SlotsWellUsed'
<1>1. Cardinality(queue') <= Cardinality(queue) /\ queue \subseteq Requests
  BY FiniteFacts, FS_Subset DEF IInv, TypeOK
<1>2. Cardinality(queue) <= QueueCapacity /\ QueueCapacity \in Nat
  BY SettingFacts DEF IInv, SlotsWellUsed
<1>3. Cardinality(queue) \in Nat /\ Cardinality(queue') \in Nat
  BY <1>1, FiniteFacts
<1>4. Cardinality(queue') <= QueueCapacity
  BY <1>1, <1>2, <1>3
<1>5. QueueCapacity' = QueueCapacity /\ ActiveCapacity' = ActiveCapacity
  BY DEF QueueCapacity, ActiveCapacity
<1> QED
  BY <1>4, <1>5 DEF SlotsWellUsed

\* finishTask carries the decision of r through (any of its callers).
LEMMA FinishAccounted ==
    ASSUME IInv, ~closed, setting' = setting,
           NEW r \in Requests, NEW outcome \in TerminalOutcomes, NEW ex,
           IsActive(state[r]) \/ state[r] = outcome,
           ex \in [Requests -> {"none", "running", "returned"}],
           \A q \in Requests \ {r} : ex[q] = exec[q],
           FinishTask(r, [state EXCEPT ![r] = outcome], ex)
    PROVE  Accounted
<1> DEFINE st == [state EXCEPT ![r] = outcome]
           S == queue \ {r}
           A == active \ {r}
<1>1. TypeOK /\ state \in [Requests -> TaskState \cup {Absent}] /\ queue \subseteq Requests
  BY DEF IInv, TypeOK
<1>2. /\ st \in [Requests -> TaskState \cup {Absent}]
      /\ st[r] = outcome
      /\ \A q \in Requests \ {r} : st[q] = state[q]
  BY <1>1, StateFacts
<1>3. /\ routerTimer' = [routerTimer EXCEPT ![r] = FALSE]
      /\ DrainQueue(st, S, A, ex)
      /\ SendTerminalReply(r, st[r])
      /\ UNCHANGED <<due, arrival, dedupe, closed, answer>>
  BY DEF FinishTask
<1> HIDE DEF st
<1>4. /\ S \in SUBSET queue /\ A \in SUBSET active
      /\ \A q \in S : st[q] = state[q] \/ st[q] = "expired"
  BY <1>1, <1>2
<1>5. /\ \E swept \in [Requests -> TaskState \cup {Absent}], started \in SUBSET S :
            Drained(st, S, A, ex, swept, started)
      /\ Cardinality(active') <= ActiveCapacity
      /\ queue' # {} => Cardinality(active') = ActiveCapacity
  <2> HIDE DEF S, A
  <2> QED
    BY <1>2, <1>3, <1>4, DrainFacts
<1>6. PICK swept \in [Requests -> TaskState \cup {Absent}], started \in SUBSET S :
        Drained(st, S, A, ex, swept, started)
  BY <1>5
<1>7. /\ inbound' \in [Requests -> {"none", "open", "replying"}]
      /\ replies' \in [Requests -> Seq(TerminalOutcomes)]
      /\ \A q \in Requests \ {r} : inbound'[q] = inbound[q] /\ replies'[q] = replies[q]
      /\ inbound'[r] # "open"
      /\ \/ replies'[r] = replies[r]
         \/ inbound[r] = "open" /\ replies'[r] = Append(replies[r], outcome)
  <2>1. inbound \in [Requests -> {"none", "open", "replying"}]
          /\ replies \in [Requests -> Seq(TerminalOutcomes)]
    BY <1>1 DEF TypeOK
  <2>2. CASE UNCHANGED <<inbound, replies>> /\ inbound[r] # "open"
    BY <2>1, <2>2
  <2>3. CASE inbound' = [inbound EXCEPT ![r] = "none"] /\ UNCHANGED replies
    BY <2>1, <2>3
  <2>4. CASE /\ inbound[r] = "open"
             /\ inbound' = [inbound EXCEPT ![r] = "replying"]
             /\ replies' = [replies EXCEPT ![r] = Append(@, outcome)]
    <3>1. Append(replies[r], outcome) \in Seq(TerminalOutcomes)
      BY <2>1
    <3> QED
      BY <2>1, <2>4, <3>1
  <2> QED
    BY <1>2, <1>3, <2>2, <2>3, <2>4 DEF SendTerminalReply
<1>8. TypeOK'
  <2>1. /\ state' \in [Requests -> TaskState \cup {Absent}]
        /\ exec' \in [Requests -> {"none", "running", "returned"}]
        /\ runs' \in [Requests -> Nat]
        /\ queue' \subseteq Requests
        /\ active' \subseteq Requests
    <3> HIDE DEF S, A
    <3> QED
      BY <1>1, <1>4, <1>6, DrainedTypes
  <2>2. routerTimer' \in [Requests -> BOOLEAN]
    BY <1>1, <1>3 DEF TypeOK
  <2> QED
    BY <2>1, <2>2, <1>1, <1>3, <1>7 DEF TypeOK
<1>9. SlotsWellUsed'
  <2>1. queue' \subseteq queue
    BY <1>6 DEF Drained
  <2> QED
    BY <2>1, <1>5, SlotsAgain
<1>10. InOrder
  <2>1. \A q \in Requests : st[q] = "queued" /\ "policy" \notin due[q] =>
            state[q] = "queued" /\ (q \in queue => q \in S)
    BY <1>2, StateFacts
  <2> HIDE DEF S, A
  <2> QED
    BY <2>1, <1>4, <1>6, DrainedInOrder
<1>11. ASSUME NEW q \in Requests, q # r PROVE Moves(q)
  <2>1. LeftAlone(q)
    BY <1>1, <1>3, <1>7, <1>11 DEF LeftAlone, TypeOK
  <2>2. /\ st[q] = state[q] \/ (q \in queue /\ st[q] = "expired")
        /\ ex[q] = exec[q]
        /\ q \in A <=> q \in active
        /\ q \in queue /\ "policy" \notin due[q] => q \in S
        /\ closed' = closed
    BY <1>2, <1>3, <1>11
  <2> HIDE DEF S, A
  <2> QED
    BY <2>1, <2>2, <1>4, <1>6, DrainedMoves
<1>12. Moves(r)
  <2>1. r \notin started
    BY <1>6
  <2>2. state'[r] = swept[r] /\ runs'[r] = runs[r]
    BY <1>6, <2>1 DEF Drained
  <2>3. swept[r] = outcome
    BY <1>2, <1>6 DEF Drained
  <2>4. r \notin active' /\ r \notin queue'
    BY <1>6, <2>1 DEF Drained
  <2>5. ~routerTimer'[r] /\ dedupe'[r] = dedupe[r] /\ answer'[r] = answer[r] /\ closed' = closed
    BY <1>1, <1>3 DEF TypeOK
  <2>6. Decides(r, outcome)
    BY <2>2, <2>3, <2>4, <2>5, <1>7 DEF Decides
  <2> QED
    BY <2>6 DEF Moves
<1> QED
  BY <1>8, <1>9, <1>10, <1>11, <1>12 DEF Accounted

\* finishTask for a task that is terminal already.
LEMMA FinishDecidedAccounted ==
    ASSUME IInv, setting' = setting, NEW r \in Requests, NEW ex,
           IsTerminal(state[r]),
           ex \in [Requests -> {"none", "running", "returned"}],
           \A q \in Requests \ {r} : ex[q] = exec[q],
           FinishTask(r, state, ex)
    PROVE  Accounted
<1>1. state \in [Requests -> TaskState \cup {Absent}]
  BY DEF IInv, TypeOK
<1>2. state = [state EXCEPT ![r] = state[r]]
  BY <1>1
<1>3. FinishTask(r, [state EXCEPT ![r] = state[r]], ex)
  BY <1>2
<1>4. ~closed
  BY StateFacts DEF IInv, ClosedForgets, IsTerminal
<1>5. state[r] \in TerminalOutcomes
  BY DEF IsTerminal
<1> QED
  BY <1>3, <1>4, <1>5, FinishAccounted

\* A step that leaves the queue and the slots alone.
LEMMA QuietAccounted ==
    ASSUME IInv, setting' = setting, TypeOK', queue' = queue, active' = active, runs' = runs,
           \A q \in Requests : Stays(q)
    PROVE  Accounted
<1>1. SlotsWellUsed'
  BY DEF IInv, SlotsWellUsed, QueueCapacity, ActiveCapacity
<1>2. InOrder
  BY DEF InOrder, IInv, TypeOK
<1> QED
  BY <1>1, <1>2 DEF Accounted, Moves

-----------------------------------------------------------------------------
(* Every step is accounted for: the executor, the reply tool, cancellation, *)
(* time, delivery and shutdown.                                             *)

\* What OnlyExpire does to the task of r.
LEMMA ExpiredFacts ==
    ASSUME TypeOK, NEW r \in Requests
    PROVE  /\ Expired(state, r) \in [Requests -> TaskState \cup {Absent}]
           /\ \A q \in Requests :
                \/ Expired(state, r)[q] = state[q]
                \/ Expired(state, r)[q] = "expired" /\ IsActive(state[q])
           /\ \/ Expired(state, r) = state
              \/ Expired(state, r) = [state EXCEPT ![r] = "expired"] /\ IsActive(state[r])
<1>1. state \in [Requests -> TaskState \cup {Absent}]
  BY DEF TypeOK
<1>2. CASE CanTransition(state[r], "expired")
  <2>1. IsActive(state[r])
    BY <1>2 DEF CanTransition, LegalTransitions, IsActive, ActiveStates
  <2>2. Expired(state, r) = [state EXCEPT ![r] = "expired"]
    BY <1>2, <1>1 DEF Expired
  <2> QED
    BY <1>1, <2>1, <2>2, StateFacts
<1>3. CASE ~CanTransition(state[r], "expired")
  <2>1. Expired(state, r) = state
    BY <1>3, <1>1 DEF Expired
  <2> QED
    BY <1>1, <2>1
<1> QED
  BY <1>2, <1>3

LEMMA OnlyExpireAccounted ==
    ASSUME IInv, setting' = setting, NEW r \in Requests, OnlyExpire(r)
    PROVE  Accounted
<1>1. TypeOK
  BY DEF IInv
<1>2. TypeOK'
  BY <1>1, ExpiredFacts DEF OnlyExpire, TypeOK
<1>3. ASSUME NEW q \in Requests PROVE Stays(q)
  BY <1>1, ExpiredFacts DEF OnlyExpire, Stays
<1> QED
  BY <1>2, <1>3, QuietAccounted DEF OnlyExpire

\* From an active state a transition is to a state, and to an active one only from
\* work that is not yet cancelling.
LEMMA ResultFacts ==
    ASSUME NEW s, NEW result, result \in {"completed", "failed", "rejected", "threw"}
    PROVE  ResultState(s, result) \in TerminalOutcomes
BY DEF ResultState, TerminalOutcomes

LEMMA ExecutorReturnsAccounted ==
    ASSUME IInv, setting' = setting, NEW r \in Requests, NEW result \in Results,
           ExecutorReturns(r, result)
    PROVE  Accounted
<1> DEFINE ex == [exec EXCEPT ![r] = "returned"]
           st == IF Late(r) THEN Expired(state, r) ELSE state
<1>1. /\ TypeOK
      /\ exec \in [Requests -> {"none", "running", "returned"}]
      /\ state \in [Requests -> TaskState \cup {Absent}]
      /\ exec[r] = "running"
      /\ result \in {"void", "completed", "failed", "rejected", "threw"}
  BY SettingFacts DEF IInv, TypeOK, ExecutorReturns
<1>2. /\ ex \in [Requests -> {"none", "running", "returned"}]
      /\ \A q \in Requests \ {r} : ex[q] = exec[q]
  BY <1>1
<1>3. \/ st = state
      \/ st = [state EXCEPT ![r] = "expired"] /\ IsActive(state[r])
  BY <1>1, ExpiredFacts
<1>4. st[r] = state[r] \/ (st[r] = "expired" /\ IsActive(state[r]))
  BY <1>1, <1>3
<1>5. CASE IsTerminal(st[r]) /\ FinishTask(r, st, ex)
  <2>1. CASE st = state
    BY <1>2, <1>5, <2>1, FinishDecidedAccounted
  <2>2. CASE st = [state EXCEPT ![r] = "expired"] /\ IsActive(state[r])
    <3>1. ~closed
      BY <2>2, StateFacts DEF IInv, ClosedForgets, IsActive
    <3> HIDE DEF ex
    <3> QED
      BY <1>2, <1>5, <2>2, <3>1, StateFacts, FinishAccounted
  <2> QED
    BY <1>3, <2>1, <2>2
<1>6. ASSUME IsActive(st[r]), result # "void",
             FinishTask(r, [st EXCEPT ![r] = ResultState(st[r], result)], ex)
      PROVE  Accounted
  <2>1. st = state
    BY <1>1, <1>3, <1>6, StateFacts DEF IsActive
  <2>2. ~closed
    BY <1>6, <2>1, StateFacts DEF IInv, ClosedForgets, IsActive
  <2>3. ResultState(st[r], result) \in TerminalOutcomes
    BY <1>1, <1>6, ResultFacts
  <2> HIDE DEF ex, st
  <2> QED
    BY <1>2, <1>6, <2>1, <2>2, <2>3, FinishAccounted
<1>7. CASE /\ exec' = ex
           /\ UNCHANGED <<state, due, queue, active, arrival, inbound, routerTimer,
                          dedupe, closed, runs, answer, replies>>
  <2>1. TypeOK'
    BY <1>1, <1>2, <1>7 DEF TypeOK
  <2>2. ASSUME NEW q \in Requests PROVE Stays(q)
    BY <1>1, <1>2, <1>7 DEF Stays
  <2> QED
    BY <1>7, <2>1, <2>2, QuietAccounted
<1> QED
  BY <1>5, <1>6, <1>7 DEF ExecutorReturns

LEMMA ReplyToolAccounted ==
    ASSUME IInv, setting' = setting, NEW r \in Requests,
           NEW outcome \in {"completed", "failed", "rejected"}, ReplyTool(r, outcome)
    PROVE  Accounted
<1>1. /\ ~closed
      /\ IsActive(state[r])
      /\ FinishTask(r, [state EXCEPT ![r] = outcome], exec)
      /\ exec \in [Requests -> {"none", "running", "returned"}]
  BY DEF ReplyTool, IInv, TypeOK
<1>2. outcome \in TerminalOutcomes
  BY DEF TerminalOutcomes
<1> QED
  BY <1>1, <1>2, FinishAccounted

LEMMA TaskCancelAccounted ==
    ASSUME IInv, setting' = setting, NEW r \in Requests, TaskCancel(r)
    PROVE  Accounted
<1>1. /\ ~closed
      /\ TypeOK
      /\ exec \in [Requests -> {"none", "running", "returned"}]
      /\ state \in [Requests -> TaskState \cup {Absent}]
  BY DEF TaskCancel, IInv, TypeOK
<1>2. CASE /\ state[r] = "working"
           /\ state' = [state EXCEPT ![r] = CancelTarget(state[r])]
           /\ UNCHANGED <<due, queue, active, arrival, inbound, routerTimer, exec,
                          dedupe, closed, runs, answer, replies>>
  <2>1. state' = [state EXCEPT ![r] = "cancelling"] /\ "cancelling" \in TaskState
    BY <1>2, StateFacts DEF CancelTarget
  <2>2. TypeOK'
    BY <1>1, <1>2, <2>1 DEF TypeOK
  <2>3. ASSUME NEW q \in Requests PROVE Stays(q)
    BY <1>1, <1>2, <2>1 DEF Stays
  <2> QED
    BY <1>2, <2>2, <2>3, QuietAccounted
<1>3. CASE /\ state[r] \in {"accepted", "queued", "cancelling"}
           /\ FinishTask(r, [state EXCEPT ![r] = CancelTarget(state[r])], exec)
  <2>1. CancelTarget(state[r]) = "cancelled" /\ "cancelled" \in TerminalOutcomes
    BY <1>3 DEF CancelTarget, TerminalOutcomes
  <2>2. IsActive(state[r])
    BY <1>3, StateFacts DEF IsActive
  <2> QED
    BY <1>1, <1>3, <2>1, <2>2, FinishAccounted
<1>4. CASE state[r] = "cancelled" /\ FinishTask(r, state, exec)
  <2>1. IsTerminal(state[r])
    BY <1>4 DEF IsTerminal, TerminalOutcomes
  <2> QED
    BY <1>1, <1>4, <2>1, FinishDecidedAccounted
<1> QED
  BY <1>2, <1>3, <1>4 DEF TaskCancel

LEMMA RouterTimerAccounted ==
    ASSUME IInv, setting' = setting, NEW r \in Requests, RouterTimerFires(r)
    PROVE  Accounted
<1>1. /\ TypeOK
      /\ exec \in [Requests -> {"none", "running", "returned"}]
      /\ routerTimer \in [Requests -> BOOLEAN]
  BY DEF IInv, TypeOK
<1>2. CASE IsActive(state[r]) /\ FinishTask(r, Expired(state, r), exec)
  <2>1. ~closed
    BY <1>2, StateFacts DEF IInv, ClosedForgets, IsActive
  <2>2. CASE Expired(state, r) = state
    <3>1. state[r] # "expired"
      BY <1>2, StateFacts DEF IsActive
    <3>2. ~CanTransition(state[r], "expired")
      BY <2>2, <3>1, <1>1 DEF Expired, TypeOK
    <3>3. state[r] \in {"created", "queued", "working", "cancelling", "accepted"}
      BY <1>2, StateFacts DEF IsActive
    <3>4. CanTransition(state[r], "expired")
      BY <3>3 DEF CanTransition, LegalTransitions
    <3> QED
      BY <3>2, <3>4
  <2>3. CASE Expired(state, r) = [state EXCEPT ![r] = "expired"]
    <3>1. FinishTask(r, [state EXCEPT ![r] = "expired"], exec)
      BY <1>2, <2>3
    <3>2. "expired" \in TerminalOutcomes
      BY StateFacts
    <3> QED
      BY <1>1, <1>2, <2>1, <3>1, <3>2, FinishAccounted
  <2> QED
    BY <1>1, <2>2, <2>3, ExpiredFacts
<1>3. CASE /\ routerTimer' = [routerTimer EXCEPT ![r] = FALSE]
           /\ state' = IF Late(r) THEN Expired(state, r) ELSE state
           /\ UNCHANGED <<due, queue, active, arrival, inbound, exec, dedupe, closed,
                          runs, answer, replies>>
  <2>1. /\ state' \in [Requests -> TaskState \cup {Absent}]
        /\ \A q \in Requests :
              state'[q] = state[q] \/ (state'[q] = "expired" /\ IsActive(state[q]))
    BY <1>1, <1>3, ExpiredFacts DEF TypeOK
  <2>2. TypeOK'
    BY <1>1, <1>3, <2>1 DEF TypeOK
  <2>3. ASSUME NEW q \in Requests PROVE Stays(q)
    BY <1>1, <1>3, <2>1 DEF Stays
  <2> QED
    BY <1>3, <2>2, <2>3, QuietAccounted
<1> QED
  BY <1>2, <1>3 DEF RouterTimerFires

LEMMA ReplySettlesAccounted ==
    ASSUME IInv, setting' = setting, NEW r \in Requests, ReplySettles(r)
    PROVE  Accounted
<1>1. TypeOK
  BY DEF IInv
<1>2. TypeOK'
  BY <1>1 DEF ReplySettles, TypeOK
<1>3. ASSUME NEW q \in Requests PROVE Stays(q)
  BY <1>1 DEF ReplySettles, Stays, TypeOK
<1> QED
  BY <1>2, <1>3, QuietAccounted DEF ReplySettles

LEMMA DeadlinePassesAccounted ==
    ASSUME IInv, setting' = setting, NEW r \in Requests, NEW G \in ClockGroups(r),
           DeadlinePasses(r, G)
    PROVE  Accounted
<1>1. TypeOK /\ due \in [Requests -> SUBSET Clocks] /\ G \subseteq Clocks
  BY SettingFacts DEF IInv, TypeOK
<1>2. due' = [due EXCEPT ![r] = @ \cup G]
  BY DEF DeadlinePasses
<1>3. TypeOK'
  <2>1. due' \in [Requests -> SUBSET Clocks]
    BY <1>1, <1>2
  <2> QED
    BY <1>1, <2>1 DEF DeadlinePasses, TypeOK
<1>4. ASSUME NEW q \in Requests PROVE Stays(q)
  <2>1. /\ due[q] \subseteq due'[q]
        /\ q # r => due'[q] = due[q]
        /\ q = r => due'[q] = due[q] \cup G
    BY <1>1, <1>2
  <2>2. state[q] = Absent /\ ~routerTimer[q] =>
            {"store", "timer"} \cap due'[q] = {"store", "timer"} \cap due[q]
    BY <2>1 DEF DeadlinePasses
  <2> QED
    BY <2>1, <2>2 DEF DeadlinePasses, Stays
<1> QED
  BY <1>3, <1>4, QuietAccounted DEF DeadlinePasses

LEMMA CloseAccounted ==
    ASSUME IInv, setting' = setting, Close
    PROVE  Accounted
<1>1. TypeOK
  BY DEF IInv
<1>2. TypeOK'
  BY <1>1 DEF Close, TypeOK
<1>3. SlotsWellUsed'
  BY DEF Close, IInv, SlotsWellUsed, QueueCapacity, ActiveCapacity
<1>4. InOrder
  BY <1>1 DEF InOrder, TypeOK, Close
<1>5. ASSUME NEW q \in Requests PROVE Forgets(q)
  BY DEF Close, Forgets
<1> QED
  BY <1>2, <1>3, <1>4, <1>5 DEF Accounted, Moves

-----------------------------------------------------------------------------
(* message.request. *)

\* What the policy's sweep of its queue leaves of the requests other than the new one.
LEMMA SweptStays ==
    ASSUME IInv, ~closed, closed' = closed, NEW q \in Requests,
           state'[q] = Seen(state, queue)[q],
           q \in queue' <=> q \in Runnable(state, queue),
           q \in active' <=> q \in active,
           exec'[q] = exec[q], runs'[q] = runs[q], LeftAlone(q)
    PROVE  Stays(q)
<1>1. Runnable(state, queue) = {p \in queue : "policy" \notin due[p]}
  BY RunnableFacts
<1>2. /\ q \in queue' => q \in queue
      /\ q \in queue /\ "policy" \notin due[q] => q \in queue'
  BY <1>1
<1>3. state'[q] = state[q] \/ (state'[q] = "expired" /\ IsActive(state[q]))
  <2>1. q \in queue => state[q] \in {"queued", "expired"}
    BY QueuedFacts
  <2> QED
    BY <2>1, SeenFacts, StateFacts DEF IsActive
<1> QED
  BY <1>2, <1>3 DEF Stays, LeftAlone

\* And of the tasks and the queue as a whole.
LEMMA SweptTypes ==
    ASSUME IInv, ~closed
    PROVE  /\ Seen(state, queue) \in [Requests -> TaskState \cup {Absent}]
           /\ Runnable(state, queue) \subseteq queue
           /\ \A q \in Requests : Seen(state, queue)[q] = state[q]
                  \/ (q \in queue /\ Seen(state, queue)[q] = "expired")
           /\ \A q \in queue : "policy" \notin due[q] => q \in Runnable(state, queue)
<1>1. \A q \in Requests : Seen(state, queue)[q] = state[q]
         \/ (q \in queue /\ Seen(state, queue)[q] = "expired")
  BY SeenFacts
<1>2. state \in [Requests -> TaskState \cup {Absent}]
  BY DEF IInv, TypeOK
<1>3. \A q \in Requests : Seen(state, queue)[q] \in TaskState \cup {Absent}
  BY <1>1, <1>2, StateFacts
<1>4. Seen(state, queue) \in [Requests -> TaskState \cup {Absent}]
  BY <1>3 DEF Seen
<1>5. Runnable(state, queue) = {p \in queue : "policy" \notin due[p]}
  BY RunnableFacts
<1> QED
  BY <1>1, <1>4, <1>5

\* A request that is admitted was not known: the router has no trace of it.
LEMMA NewFacts ==
    ASSUME IInv, NEW r \in Requests, Considered(r), Refusal(r) = "none"
    PROVE  /\ ~closed
           /\ "policy" \notin due[r]
           /\ {"store", "timer"} \cap due[r] = {}
           /\ state[r] = Absent
           /\ r \notin active /\ r \notin queue
           /\ exec[r] = "none" /\ ~routerTimer[r] /\ replies[r] = <<>>
           /\ FreeSlots(active) <= 0 => Cardinality(Runnable(state, queue)) < QueueCapacity
<1>1. /\ ~closed /\ "policy" \notin due[r] /\ state[r] = Absent
      /\ ~(FreeSlots(active) <= 0 /\ Cardinality(Runnable(state, queue)) >= QueueCapacity)
  BY DEF Considered, Valid, Refusal
<1>2. r \notin queue
  BY <1>1, QueuedFacts, StateFacts DEF TaskState, ActiveStates, Absent
<1>3. /\ Cardinality(Runnable(state, queue)) \in Nat
      /\ QueueCapacity \in Nat
  <2>1. Runnable(state, queue) \subseteq Requests
    BY <1>1, SweptTypes DEF IInv, TypeOK
  <2> QED
    BY <2>1, FiniteFacts, SettingFacts DEF IInv
<1>4. FreeSlots(active) <= 0 => Cardinality(Runnable(state, queue)) < QueueCapacity
  BY <1>1, <1>3
<1> QED
  BY <1>1, <1>2, <1>4 DEF IInv, Untouched

\* What Record writes.
LEMMA RecordTypes ==
    ASSUME TypeOK, NEW r \in Requests, NEW admission \in {"accepted", "queued", "expired"},
           Record(r, admission)
    PROVE  /\ arrival' \in [Requests -> Nat]
           /\ dedupe' \in [Requests -> {"accepted", "queued", "expired", Absent}]
           /\ answer' \in [Requests -> {"accepted", "queued", "busy", "expired", "internal",
                                        Absent}]
           /\ inbound' \in [Requests -> {"none", "open", "replying"}]
           /\ routerTimer' \in [Requests -> BOOLEAN]
           /\ closed' = closed /\ replies' = replies
           /\ \A q \in Requests \ {r} :
                 /\ inbound'[q] = inbound[q] /\ routerTimer'[q] = routerTimer[q]
                 /\ dedupe'[q] = dedupe[q] /\ answer'[q] = answer[q]
           /\ inbound'[r] = "open" /\ dedupe'[r] = answer'[r]
<1>1. NextToken \in Nat
  BY FiniteFacts DEF NextToken
<1> QED
  BY <1>1 DEF Record, Answered, TypeOK

\* The queue after a sweep, and one more.
LEMMA SweptSlots ==
    ASSUME IInv, ~closed, setting' = setting, NEW r \in Requests, r \notin queue,
           FreeSlots(active) <= 0,
           Cardinality(Runnable(state, queue)) < QueueCapacity,
           queue' = Runnable(state, queue) \cup {r},
           active' = active
    PROVE  SlotsWellUsed'
<1>1. /\ Runnable(state, queue) \subseteq queue /\ queue \subseteq Requests
      /\ active \subseteq Requests
  BY SweptTypes DEF IInv, TypeOK
<1>2. /\ IsFiniteSet(Runnable(state, queue)) /\ Cardinality(Runnable(state, queue)) \in Nat
      /\ Cardinality(active) \in Nat
      /\ QueueCapacity \in Nat /\ ActiveCapacity \in Nat
  BY <1>1, FiniteFacts, SettingFacts DEF IInv
<1>3. Cardinality(queue') = Cardinality(Runnable(state, queue)) + 1
  BY <1>1, <1>2, FS_AddElement
<1>4. Cardinality(queue') <= QueueCapacity
  BY <1>2, <1>3
<1>5. Cardinality(active) = ActiveCapacity
  BY <1>2 DEF IInv, SlotsWellUsed, FreeSlots
<1>6. QueueCapacity' = QueueCapacity /\ ActiveCapacity' = ActiveCapacity
  BY DEF QueueCapacity, ActiveCapacity
<1> QED
  BY <1>2, <1>4, <1>5, <1>6 DEF SlotsWellUsed

LEMMA AnsweredAgainAccounted ==
    ASSUME IInv, setting' = setting, NEW r \in Requests,
           ReplayAdmission(r) \/ RefuseUntracked(r)
    PROVE  Accounted
<1>1. /\ TypeOK
      /\ dedupe[r] \in {"accepted", "queued", "expired", Absent}
      /\ answer \in [Requests -> {"accepted", "queued", "busy", "expired", "internal", Absent}]
  BY DEF IInv, TypeOK
<1>2. /\ \E a \in {"accepted", "queued", "expired", "busy", Absent} :
            /\ answer' = [answer EXCEPT ![r] = a]
            /\ dedupe[r] = Absent \/ a = dedupe[r]
      /\ UNCHANGED <<state, due, queue, active, arrival, inbound, routerTimer, exec,
                     dedupe, closed, runs, replies>>
  BY <1>1 DEF ReplayAdmission, RefuseUntracked, Answered, Unknown
<1>3. TypeOK'
  <2>1. answer' \in [Requests -> {"accepted", "queued", "busy", "expired", "internal", Absent}]
    BY <1>1, <1>2
  <2> QED
    BY <1>1, <1>2, <2>1 DEF TypeOK
<1>4. ASSUME NEW q \in Requests PROVE Stays(q)
  <2>1. answer'[q] = answer[q] \/ dedupe[q] = Absent \/ answer'[q] = dedupe[q]
    BY <1>1, <1>2
  <2> QED
    BY <1>2, <2>1 DEF Stays
<1> QED
  BY <1>2, <1>3, <1>4, QuietAccounted

LEMMA RefuseAccounted ==
    ASSUME IInv, setting' = setting, NEW r \in Requests, Refuse(r)
    PROVE  Accounted
<1>1. /\ ~closed
      /\ TypeOK
      /\ dedupe[r] = Absent
      /\ Refusal(r) \in {"expired", "busy", "internal"}
      /\ answer \in [Requests -> {"accepted", "queued", "busy", "expired", "internal", Absent}]
  BY DEF IInv, TypeOK, Refuse, Considered, Valid, Unknown, Refusal
<1>2. /\ answer' = [answer EXCEPT ![r] = Refusal(r)]
      /\ state' = Seen(state, queue)
      /\ queue' = Runnable(state, queue)
      /\ UNCHANGED <<due, active, arrival, inbound, routerTimer, exec, dedupe, closed,
                     runs, replies>>
  BY DEF Refuse, Answered
<1>3. /\ state' \in [Requests -> TaskState \cup {Absent}]
      /\ queue' \subseteq queue /\ queue \subseteq Requests
  BY <1>1, <1>2, SweptTypes DEF TypeOK
<1>4. answer' \in [Requests -> {"accepted", "queued", "busy", "expired", "internal", Absent}]
  BY <1>1, <1>2
<1>5. TypeOK'
  BY <1>1, <1>2, <1>3, <1>4 DEF TypeOK
<1>6. SlotsWellUsed'
  <2>1. /\ Cardinality(active') <= ActiveCapacity
        /\ queue' # {} => Cardinality(active') = ActiveCapacity
    BY <1>2, <1>3 DEF IInv, SlotsWellUsed
  <2> QED
    BY <2>1, <1>3, SlotsAgain
<1>7. InOrder
  BY <1>1, <1>2 DEF InOrder, TypeOK
<1>8. ASSUME NEW q \in Requests PROVE Moves(q)
  <2>1. CASE q # r
    <3>1. answer'[q] = answer[q]
      BY <1>1, <1>2, <2>1
    <3>2. LeftAlone(q)
      BY <1>2, <3>1 DEF LeftAlone
    <3> QED
      BY <1>1, <1>2, <3>2, SweptStays DEF Moves
  <2>2. CASE q = r
    <3>1. r \in queue' <=> r \in queue /\ "policy" \notin due[r]
      BY <1>1, <1>2, RunnableFacts
    <3>2. state'[r] = state[r] \/ (state'[r] = "expired" /\ IsActive(state[r]))
      <4>1. r \in queue => state[r] \in {"queued", "expired"}
        BY <1>1, QueuedFacts
      <4> QED
        BY <4>1, <1>2, SeenFacts, StateFacts DEF IsActive
    <3>3. Stays(r)
      BY <1>1, <1>2, <3>1, <3>2 DEF Stays
    <3> QED
      BY <2>2, <3>3 DEF Moves
  <2> QED
    BY <2>1, <2>2
<1> QED
  BY <1>5, <1>6, <1>7, <1>8 DEF Accounted

LEMMA AcceptAccounted ==
    ASSUME IInv, setting' = setting, NEW r \in Requests, Accept(r)
    PROVE  Accounted
<1>1. /\ TypeOK
      /\ state \in [Requests -> TaskState \cup {Absent}]
      /\ queue \subseteq Requests /\ active \subseteq Requests
      /\ exec \in [Requests -> {"none", "running", "returned"}]
      /\ runs \in [Requests -> Nat]
  BY DEF IInv, TypeOK
<1>2. /\ ~closed
      /\ {"store", "policy"} \cap due[r] = {}
      /\ state[r] = Absent
      /\ r \notin active /\ r \notin queue
      /\ exec[r] = "none" /\ replies[r] = <<>>
  BY NewFacts DEF Accept
<1>3. /\ state' = [Seen(state, queue) EXCEPT ![r] = "working"]
      /\ queue' = Runnable(state, queue)
      /\ active' = active \cup {r}
      /\ exec' = [exec EXCEPT ![r] = "running"]
      /\ runs' = [runs EXCEPT ![r] = @ + 1]
      /\ due' = due
      /\ Record(r, "accepted")
      /\ FreeSlots(active) > 0
  BY DEF Accept
<1>4. queue' = {}
  <2>1. Cardinality(active) # ActiveCapacity
    BY <1>1, <1>3, FiniteFacts, SettingFacts DEF FreeSlots, IInv
  <2>2. queue = {}
    BY <2>1 DEF IInv, SlotsWellUsed
  <2> QED
    BY <1>2, <1>3, <2>2, SweptTypes
<1>5. /\ Seen(state, queue) \in [Requests -> TaskState \cup {Absent}]
      /\ "working" \in TaskState
  BY <1>2, SweptTypes, StateFacts
<1>6. /\ state' \in [Requests -> TaskState \cup {Absent}]
      /\ exec' \in [Requests -> {"none", "running", "returned"}]
      /\ runs' \in [Requests -> Nat]
      /\ active' \subseteq Requests
  BY <1>1, <1>3, <1>5
<1>7. TypeOK'
  BY <1>1, <1>3, <1>4, <1>6, RecordTypes DEF TypeOK
<1>8. SlotsWellUsed'
  <2>1. Cardinality(active') = Cardinality(active) + 1 /\ Cardinality(active) \in Nat
    BY <1>1, <1>2, <1>3, FiniteFacts, FS_AddElement
  <2>2. Cardinality(active') <= ActiveCapacity
    BY <1>3, <2>1, SettingFacts DEF FreeSlots, IInv
  <2> QED
    BY <2>2, <1>4, SlotsAgain
<1>9. InOrder
  BY <1>1, <1>2, <1>3 DEF InOrder
<1>10. ASSUME NEW q \in Requests, q # r PROVE Moves(q)
  <2>1. /\ state'[q] = Seen(state, queue)[q]
        /\ q \in queue' <=> q \in Runnable(state, queue)
        /\ q \in active' <=> q \in active
        /\ exec'[q] = exec[q] /\ runs'[q] = runs[q]
    BY <1>1, <1>3, <1>5, <1>10
  <2>2. LeftAlone(q) /\ closed' = closed
    BY <1>1, <1>3, <1>10, RecordTypes DEF LeftAlone
  <2> QED
    BY <2>1, <2>2, <1>2, SweptStays DEF Moves
<1>11. Admits(r)
  <2>1. state'[r] = "working" /\ r \in active' /\ r \notin queue' /\ runs'[r] = runs[r] + 1
    BY <1>1, <1>3, <1>4, <1>5
  <2> QED
    BY <1>1, <1>2, <1>3, <2>1, RecordTypes DEF Admits
<1> QED
  BY <1>7, <1>8, <1>9, <1>10, <1>11 DEF Accounted, Moves

\* A request that goes to the queue, or whose task was born expired and that goes
\* there all the same, when no slot is free.
LEMMA ToQueueAccounted ==
    ASSUME IInv, setting' = setting, NEW r \in Requests,
           Considered(r), Refusal(r) = "none", FreeSlots(active) <= 0,
           NEW s \in {"queued", "expired"},
           state' = [Seen(state, queue) EXCEPT ![r] = s],
           queue' = Runnable(state, queue) \cup {r},
           UNCHANGED <<active, exec, runs>>,
           due' \in [Requests -> SUBSET Clocks],
           \A q \in Requests \ {r} : due'[q] = due[q],
           Record(r, s)
    PROVE  Accounted
<1>1. /\ TypeOK
      /\ queue \subseteq Requests
      /\ runs \in [Requests -> Nat]
  BY DEF IInv, TypeOK
<1>2. /\ ~closed
      /\ state[r] = Absent
      /\ r \notin active /\ r \notin queue
      /\ exec[r] = "none" /\ replies[r] = <<>>
      /\ Cardinality(Runnable(state, queue)) < QueueCapacity
  BY NewFacts
<1>3. /\ Seen(state, queue) \in [Requests -> TaskState \cup {Absent}]
      /\ s \in TaskState
      /\ Runnable(state, queue) \subseteq queue
  BY <1>2, SweptTypes, StateFacts
<1>4. /\ state' \in [Requests -> TaskState \cup {Absent}]
      /\ queue' \subseteq Requests
  BY <1>1, <1>3
<1>5. TypeOK'
  <2>1. s \in {"accepted", "queued", "expired"}
    OBVIOUS
  <2> QED
    BY <1>1, <1>4, <2>1, RecordTypes DEF TypeOK
<1>6. SlotsWellUsed'
  BY <1>2, SweptSlots
<1>7. InOrder
  BY <1>1 DEF InOrder
<1>8. ASSUME NEW q \in Requests, q # r PROVE Moves(q)
  <2>1. /\ state'[q] = Seen(state, queue)[q]
        /\ q \in queue' <=> q \in Runnable(state, queue)
        /\ q \in active' <=> q \in active
        /\ exec'[q] = exec[q] /\ runs'[q] = runs[q]
    BY <1>3, <1>8
  <2>2. LeftAlone(q) /\ closed' = closed
    BY <1>1, <1>8, RecordTypes DEF LeftAlone
  <2> QED
    BY <2>1, <2>2, <1>2, SweptStays DEF Moves
<1>9. Admits(r)
  <2>1. state'[r] = s /\ r \in queue' /\ r \notin active'
    BY <1>2, <1>3
  <2>2. /\ closed' = closed /\ replies' = replies
        /\ inbound'[r] = "open" /\ dedupe'[r] = answer'[r]
    BY <1>1, RecordTypes
  <2> QED
    BY <1>2, <2>1, <2>2 DEF Admits
<1> QED
  BY <1>5, <1>6, <1>7, <1>8, <1>9 DEF Accounted, Moves

LEMMA EnqueueAccounted ==
    ASSUME IInv, setting' = setting, NEW r \in Requests, Enqueue(r)
    PROVE  Accounted
<1>1. due' \in [Requests -> SUBSET Clocks] /\ \A q \in Requests \ {r} : due'[q] = due[q]
  BY DEF Enqueue, IInv, TypeOK
<1>2. /\ Considered(r) /\ Refusal(r) = "none" /\ FreeSlots(active) <= 0
      /\ state' = [Seen(state, queue) EXCEPT ![r] = "queued"]
      /\ queue' = Runnable(state, queue) \cup {r}
      /\ UNCHANGED <<active, exec, runs>>
      /\ Record(r, "queued")
  BY DEF Enqueue
<1> QED
  BY <1>1, <1>2, ToQueueAccounted

LEMMA AdmitTooLateAccounted ==
    ASSUME IInv, setting' = setting, NEW r \in Requests, AdmitTooLate(r)
    PROVE  Accounted
<1> DEFINE st == [Seen(state, queue) EXCEPT ![r] = "expired"]
           S == Runnable(state, queue)
<1>1. /\ TypeOK
      /\ queue \subseteq Requests
      /\ exec \in [Requests -> {"none", "running", "returned"}]
      /\ runs \in [Requests -> Nat]
      /\ due \in [Requests -> SUBSET Clocks]
  BY DEF IInv, TypeOK
<1>2. Considered(r) /\ Refusal(r) = "none" /\ Record(r, "expired")
  BY DEF AdmitTooLate
<1>3. /\ ~closed
      /\ state[r] = Absent
      /\ r \notin active /\ r \notin queue
      /\ exec[r] = "none" /\ replies[r] = <<>>
  BY <1>2, NewFacts
<1>4. due' \in [Requests -> SUBSET Clocks] /\ \A q \in Requests \ {r} : due'[q] = due[q]
  <2>1. PICK G \in ClockGroups(r) : due' = [due EXCEPT ![r] = @ \cup G \cup {"store"}]
    BY DEF AdmitTooLate
  <2>2. G \subseteq Clocks /\ "store" \in Clocks
    BY SettingFacts DEF IInv, Clocks
  <2>3. due[r] \cup G \cup {"store"} \in SUBSET Clocks
    BY <2>2, <1>1
  <2> QED
    BY <2>1, <2>3, <1>1
<1>5. CASE FreeSlots(active) > 0 /\ DrainQueue(st, S, active, exec)
  <2>1. /\ Seen(state, queue) \in [Requests -> TaskState \cup {Absent}]
        /\ "expired" \in TaskState
        /\ S \subseteq queue
        /\ \A q \in Requests : Seen(state, queue)[q] = state[q]
               \/ (q \in queue /\ Seen(state, queue)[q] = "expired")
        /\ \A q \in queue : "policy" \notin due[q] => q \in S
    BY <1>3, SweptTypes, StateFacts
  <2>2. /\ st \in [Requests -> TaskState \cup {Absent}]
        /\ st[r] = "expired"
        /\ \A q \in Requests \ {r} : st[q] = state[q] \/ (q \in queue /\ st[q] = "expired")
        /\ S \in SUBSET queue /\ r \notin S /\ active \in SUBSET active
    BY <1>3, <2>1
  <2> HIDE DEF st, S
  <2>3. \A q \in S : st[q] = state[q] \/ st[q] = "expired"
    BY <1>1, <2>2
  <2>4. /\ \E swept \in [Requests -> TaskState \cup {Absent}], started \in SUBSET S :
              Drained(st, S, active, exec, swept, started)
        /\ Cardinality(active') <= ActiveCapacity
        /\ queue' # {} => Cardinality(active') = ActiveCapacity
    BY <1>1, <1>3, <1>5, <2>2, <2>3, DrainFacts
  <2>5. PICK swept \in [Requests -> TaskState \cup {Absent}], started \in SUBSET S :
          Drained(st, S, active, exec, swept, started)
    BY <2>4
  <2>6. /\ state' \in [Requests -> TaskState \cup {Absent}]
        /\ exec' \in [Requests -> {"none", "running", "returned"}]
        /\ runs' \in [Requests -> Nat]
        /\ queue' \subseteq Requests
        /\ active' \subseteq Requests
    BY <1>1, <2>2, <2>5, DrainedTypes
  <2>7. TypeOK'
    BY <1>1, <1>2, <1>4, <2>6, RecordTypes DEF TypeOK
  <2>8. SlotsWellUsed'
    <3>1. queue' \subseteq queue
      BY <2>2, <2>5 DEF Drained
    <3> QED
      BY <3>1, <2>4, SlotsAgain
  <2>9. InOrder
    <3>1. \A q \in Requests : st[q] = "queued" /\ "policy" \notin due[q] =>
              state[q] = "queued" /\ (q \in queue => q \in S)
      <4>1. \A q \in queue : "policy" \notin due[q] => q \in S
        BY <2>1
      <4>2. \A q \in Requests : st[q] = "queued" => state[q] = "queued"
        BY <2>2
      <4> QED
        BY <4>1, <4>2
    <3> QED
      BY <3>1, <1>3, <2>2, <2>5, DrainedInOrder
  <2>10. ASSUME NEW q \in Requests, q # r PROVE Moves(q)
    <3>1. LeftAlone(q) /\ closed' = closed
      BY <1>1, <1>2, <1>4, <2>10, RecordTypes DEF LeftAlone
    <3>2. /\ st[q] = state[q] \/ (q \in queue /\ st[q] = "expired")
          /\ q \in queue /\ "policy" \notin due[q] => q \in S
      BY <2>1, <2>2, <2>10
    <3> QED
      BY <3>1, <3>2, <1>3, <2>2, <2>5, DrainedMoves
  <2>11. Admits(r)
    <3>1. r \notin started
      BY <2>2, <2>5
    <3>2. state'[r] = swept[r] /\ exec'[r] = exec[r] /\ runs'[r] = runs[r]
      BY <2>5, <3>1 DEF Drained
    <3>3. swept[r] = "expired"
      BY <2>2, <2>5 DEF Drained
    <3>4. r \notin active'
      BY <1>3, <2>5, <3>1 DEF Drained
    <3>5. /\ closed' = closed /\ replies' = replies
          /\ inbound'[r] = "open" /\ dedupe'[r] = answer'[r]
      BY <1>1, <1>2, RecordTypes
    <3> QED
      BY <1>3, <3>2, <3>3, <3>4, <3>5 DEF Admits
  <2> QED
    BY <2>7, <2>8, <2>9, <2>10, <2>11 DEF Accounted, Moves
<1>6. CASE /\ FreeSlots(active) <= 0
           /\ state' = st
           /\ queue' = S \cup {r}
           /\ UNCHANGED <<active, exec, runs>>
  BY <1>2, <1>4, <1>6, ToQueueAccounted
<1> QED
  BY <1>5, <1>6 DEF AdmitTooLate

-----------------------------------------------------------------------------
(* The theorems. *)

LEMMA NextAccounted ==
    ASSUME IInv, Next
    PROVE  Accounted /\ setting' = setting
<1>1. setting' = setting
  BY DEF Next
<1>2. ASSUME NEW r \in Requests, Step(r) PROVE Accounted
  <2>1. CASE ReceiveRequest(r)
    <3>1. CASE ReplayAdmission(r) \/ RefuseUntracked(r)
      BY <1>1, <3>1, AnsweredAgainAccounted
    <3>2. CASE Refuse(r)
      BY <1>1, <3>2, RefuseAccounted
    <3>3. CASE Accept(r)
      BY <1>1, <3>3, AcceptAccounted
    <3>4. CASE Enqueue(r)
      BY <1>1, <3>4, EnqueueAccounted
    <3>5. CASE AdmitTooLate(r)
      BY <1>1, <3>5, AdmitTooLateAccounted
    <3> QED
      BY <2>1, <3>1, <3>2, <3>3, <3>4, <3>5 DEF ReceiveRequest
  <2>2. ASSUME NEW result \in Results, ExecutorReturns(r, result) PROVE Accounted
    BY <1>1, <2>2, ExecutorReturnsAccounted
  <2>3. ASSUME NEW outcome \in Results \cap {"completed", "failed", "rejected"},
               ReplyTool(r, outcome)
        PROVE  Accounted
    BY <1>1, <2>3, ReplyToolAccounted
  <2>4. CASE TaskCancel(r)
    BY <1>1, <2>4, TaskCancelAccounted
  <2>5. CASE ReadLateTask(r) \/ StoreTimerFires(r)
    <3>1. OnlyExpire(r)
      BY <2>5 DEF ReadLateTask, StoreTimerFires
    <3> QED
      BY <1>1, <3>1, OnlyExpireAccounted
  <2>6. CASE RouterTimerFires(r)
    BY <1>1, <2>6, RouterTimerAccounted
  <2>7. CASE ReplySettles(r)
    BY <1>1, <2>7, ReplySettlesAccounted
  <2>8. ASSUME NEW G \in ClockGroups(r), DeadlinePasses(r, G) PROVE Accounted
    BY <1>1, <2>8, DeadlinePassesAccounted
  <2> QED
    BY <1>2, <2>1, <2>2, <2>3, <2>4, <2>5, <2>6, <2>7, <2>8 DEF Step
<1>3. CASE Close
  BY <1>1, <1>3, CloseAccounted
<1> QED
  BY <1>1, <1>2, <1>3 DEF Next

LEMMA InitInvariant ==
    ASSUME Init
    PROVE  IInv
<1>1. TypeOK
  <2>1. <<>> \in Seq(TerminalOutcomes)
    OBVIOUS
  <2> QED
    BY <2>1 DEF Init, TypeOK
<1>2. BooksAgree
  <2>1. Absent \notin {"working", "cancelling", "queued"} /\ ~IsTerminal(Absent)
    BY DEF Absent, IsTerminal, TerminalOutcomes
  <2>2. /\ state = [r \in Requests |-> Absent] /\ queue = {} /\ active = {}
        /\ dedupe = [r \in Requests |-> Absent]
    BY DEF Init
  <2> QED
    BY <2>1, <2>2 DEF BooksAgree, WorkHoldsSlot, QueueMatchesTasks,
       DecisionsCarriedThrough, RetriesReplay
<1>3. SlotsWellUsed
  <2>1. Cardinality({}) = 0
    BY FS_EmptySet
  <2>2. queue = {} /\ active = {} /\ setting \in Settings
    BY DEF Init
  <2> QED
    BY <2>1, <2>2, SettingFacts DEF SlotsWellUsed
<1>4. Untouched
  BY DEF Init, Untouched
<1>5. ClosedForgets /\ RepliedOnce
  <2>1. Len(<<>>) = 0
    OBVIOUS
  <2> QED
    BY <2>1 DEF Init, ClosedForgets, RepliedOnce
<1> QED
  BY <1>1, <1>2, <1>3, <1>4, <1>5 DEF IInv, Init

LEMMA NextInvariant ==
    ASSUME IInv, Next
    PROVE  IInv'
<1>1. Accounted /\ setting' = setting
  BY NextAccounted
<1> QED
  BY <1>1, MovesInvariantly DEF Accounted

\* The inductive invariant holds always.
THEOREM Invariance == Spec => []IInv
<1>1. Init => IInv
  BY InitInvariant
<1>2. IInv /\ [Next]_vars => IInv'
  <2>1. CASE Next
    BY <2>1, NextInvariant
  <2>2. ASSUME IInv, UNCHANGED vars PROVE IInv'
    BY <2>2 DEF vars, IInv, TypeOK, BooksAgree, WorkHoldsSlot, QueueMatchesTasks,
       DecisionsCarriedThrough, RetriesReplay, SlotsWellUsed, QueueCapacity,
       ActiveCapacity, Untouched, ClosedForgets, RepliedOnce
  <2> QED
    BY <2>1, <2>2
<1> QED
  BY <1>1, <1>2, PTL DEF Spec

\* The variables of the router have their types.
THEOREM TypesAlways == Spec => []TypeOK
<1>1. IInv => TypeOK
  BY DEF IInv
<1> QED
  BY <1>1, Invariance, PTL

\* The books of the policy, of the router and of the task store agree between any two
\* events, whatever the clocks say and the executors do: work holds a slot, a queued
\* task is in the queue, a decision is carried through, a retry is replayed.
THEOREM BooksAgreeAlways == Spec => []BooksAgree
<1>1. IInv => BooksAgree
  BY DEF IInv
<1> QED
  BY <1>1, Invariance, PTL

\* The queue and the slots keep to their capacities, whatever these are, and no slot is
\* free while a request waits (drainQueue).
THEOREM SlotsWellUsedAlways == Spec => []SlotsWellUsed
<1>1. IInv => SlotsWellUsed
  BY DEF IInv
<1> QED
  BY <1>1, Invariance, PTL

\* Requests start in the order of their admission (takeNextStartable takes the head of
\* the queue).
THEOREM StartsInOrderAlways == Spec => StartsInOrder
<1>1. ASSUME IInv, [Next]_vars
      PROVE  [\A r \in queue : runs'[r] > runs[r] =>
                \A q \in Requests : state'[q] = "queued" /\ "policy" \notin due[q] =>
                    arrival[r] < arrival[q]]_vars
  BY <1>1, NextAccounted DEF Accounted, InOrder
<1> QED
  BY <1>1, Invariance, PTL DEF Spec, StartsInOrder

\* No executor is called for a request that is late on the clock of the store or of the
\* policy, or that was cancelled meanwhile (dispatchLease and beginExecution).
THEOREM NeverStartsLateAlways == Spec => NeverStartsLate
<1>1. ASSUME IInv, [Next]_vars
      PROVE  [\A r \in Requests : runs'[r] > runs[r] =>
                /\ {"store", "policy"} \cap due[r] = {}
                /\ state[r] \in {Absent, "queued"}]_vars
  <2>1. CASE Next
    <3>1. TypeOK /\ \A r \in Requests : Moves(r)
      BY <1>1, <2>1, NextAccounted DEF Accounted, IInv
    <3> QED
      BY <3>1, MovesInTime
  <2>2. CASE UNCHANGED vars
    BY <2>2
  <2> QED
    BY <1>1, <2>1, <2>2
<1> QED
  BY <1>1, Invariance, PTL DEF Spec, NeverStartsLate

\* A step of a closed router: there is no task left to decide or to start.
LEMMA ClosedStep ==
    ASSUME IInv, closed, Next
    PROVE  UNCHANGED <<queue, active, runs, answer, replies>>
<1>1. \A r \in Requests : state[r] = Absent
  BY DEF IInv, ClosedForgets
<1>2. ~Close
  BY DEF Close
<1>3. PICK r \in Requests : Step(r)
  BY <1>2 DEF Next
<1>4. ~IsActive(state[r]) /\ ~IsTerminal(state[r]) /\ ~Late(r)
  BY <1>1, StateFacts DEF IsActive, IsTerminal, Late
<1>5. ~ReceiveRequest(r)
  BY DEF ReceiveRequest, ReplayAdmission, RefuseUntracked, Refuse, Accept, Enqueue,
     AdmitTooLate, Considered, Valid
<1>6. /\ \A outcome : ~ReplyTool(r, outcome)
      /\ ~TaskCancel(r) /\ ~ReadLateTask(r) /\ ~StoreTimerFires(r)
  BY <1>4 DEF ReplyTool, TaskCancel, ReadLateTask, StoreTimerFires
<1>7. ASSUME NEW result \in Results, ExecutorReturns(r, result)
      PROVE  UNCHANGED <<queue, active, runs, answer, replies>>
  BY <1>4, <1>7 DEF ExecutorReturns
<1>8. ASSUME RouterTimerFires(r)
      PROVE  UNCHANGED <<queue, active, runs, answer, replies>>
  BY <1>4, <1>8 DEF RouterTimerFires
<1>9. ASSUME ReplySettles(r)
      PROVE  UNCHANGED <<queue, active, runs, answer, replies>>
  BY <1>9 DEF ReplySettles
<1>10. ASSUME NEW G \in ClockGroups(r), DeadlinePasses(r, G)
       PROVE  UNCHANGED <<queue, active, runs, answer, replies>>
  BY <1>10 DEF DeadlinePasses
<1> QED
  BY <1>3, <1>5, <1>6, <1>7, <1>8, <1>9, <1>10 DEF Step

\* A closed router starts nothing, admits nothing and answers nobody, though its
\* executors and timers go on (close, and the guards of what may run after it).
THEOREM QuietAfterCloseAlways == Spec => QuietAfterClose
<1>1. ASSUME IInv, [Next]_vars
      PROVE  [closed => UNCHANGED <<queue, active, runs, answer, replies>>]_vars
  BY <1>1, ClosedStep
<1> QED
  BY <1>1, Invariance, PTL DEF Spec, QuietAfterClose

\* Under the mapping `life', the router does what RequestLife describes: it starts as
\* RequestLife does, and every step is one of its steps or leaves all lives as they are.
THEOREM ContractImplemented == Spec => ImplementsContract
<1>1. Init => Contract!Init
  <2>1. ASSUME Init PROVE life = [r \in Requests |-> Contract!Unborn]
    <3>1. /\ state = [r \in Requests |-> Absent] /\ ~closed
          /\ replies = [r \in Requests |-> <<>>]
      BY <2>1 DEF Init
    <3>2. ASSUME NEW r \in Requests
          PROVE  /\ StageOf(r) = "unknown" /\ ReplyOf(r) = NoOutcome
                 /\ ~IsTerminal(state[r])
      BY <3>1 DEF StageOf, ReplyOf, IsTerminal, TerminalOutcomes, Absent
    <3> QED
      BY <3>2 DEF life, Contract!Unborn
  <2> QED
    BY <2>1 DEF Contract!Init
<1>2. ASSUME IInv, [Next]_vars PROVE [Contract!Next]_life
  <2>1. CASE Next
    <3>1. /\ TypeOK /\ TypeOK'
          /\ \A r \in Requests : Moves(r) /\ Consistent(r)
      BY <1>2, <2>1, NextAccounted, RequestByRequest DEF Accounted, IInv
    <3>2. \A r \in Requests :
            Contract!MayBecome(life[r], life'[r]) /\ life'[r] \in Contract!Life
      BY <3>1, MovesOnwards
    <3>3. life' \in [Requests -> Contract!Life]
      <4>1. life' = [r \in Requests |-> life'[r]]
        BY DEF life
      <4> QED
        BY <3>2, <4>1
    <3> QED
      BY <3>2, <3>3 DEF Contract!Next
  <2>2. CASE UNCHANGED vars
    BY <2>2 DEF vars, life, StageOf, ReplyOf
  <2> QED
    BY <1>2, <2>1, <2>2
<1> QED
  BY <1>1, <1>2, Invariance, PTL DEF Spec, ImplementsContract, Contract!Spec
=============================================================================
