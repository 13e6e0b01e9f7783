----------------------------- MODULE Operations -----------------------------
(***************************************************************************)
(* The operations of the protocol between two runtimes: an asker, which    *)
(* builds envelopes, and an answerer, whose router (processInbound)        *)
(* validates what arrives, looks it up in its dedupe store (DedupeStore),  *)
(* carries it out on its task records and answers.  The wire delivers an   *)
(* envelope any number of times, at any time or never; the application may *)
(* send another envelope under an id it has used; and a stranger, another  *)
(* runtime of the room, may send the same as its own.                      *)
(*                                                                         *)
(* `now' is the wall clock of the answerer, and the asker's is off by a    *)
(* constant.  Left out, and modelled by InboundRouter: slots, the queue    *)
(* and who starts when; and what is refused outright (AuthorizationIssue,  *)
(* Issue), which changes nothing.                                          *)
(***************************************************************************)
EXTENDS DedupeStore, Envelopes, FiniteSets

CONSTANTS Asker, Answerer, Stranger,
          AskerIds,    \* the ids of operations that the asker uses
          FirstId,     \* the one it uses first: ids are interchangeable
          ReplyId,     \* the id of a terminal reply
          Settings,    \* see `setting'
          MaxSent,     \* bound: envelopes the asker builds
          LastBuild    \* bound: when it builds the last, the answerer being open

VARIABLES
    setting,   \* how far the asker's clock is ahead, what is sent, and who sends
    sent,      \* the envelopes of the asker
    tasks,     \* the answerer's record of each request
    replies    \* the terminal replies the answerer has built

opsVars == <<vars, setting, sent, tasks, replies>>

Setting ==
    [offset : -MaxSkew..MaxSkew, operations : SUBSET OperationNames, senders : SUBSET {Asker, Stranger},
     lifetimes : SUBSET {"longest", "brief"}, contracts : SUBSET {Missing, "schema"}]
ASSUME SettingsAssumption == Settings \subseteq Setting

\* What the application gives with an envelope.
Payloads ==
    [content : {"text", "json", Missing}, contract : {"schema", Missing}, outcome : {Missing},
     error : {Missing}, option : {Missing}]

ASSUME NamesAssumption ==
    /\ {Missing, Malformed} \cap Payloads = {}
    /\ AskerIds \subseteq Ids
    /\ ReplyId \in Ids \ AskerIds
    /\ {Asker, Answerer, Stranger} \subseteq Runtimes
    /\ Keys = {Asker, Stranger} \X AskerIds

ASSUME BuildsAssumption == LastBuild \in Nat /\ MaxSent \in Nat

\* What an asker can build has its print: see FingerprintOf.
ASSUME PrintsAssumption ==
    \A operation \in OperationNames, s \in Settings, n \in 0..LastBuild :
       \A ttl \in 1..MaxTtl(operation) :
          [operation : {operation}, requestId : AskerIds \cup {Missing}, createdAt : {n + s.offset},
           expiresAt : {n + s.offset + ttl}, content : {"text", "json", Missing},
           contract : {"schema", Missing}] \subseteq Prints

offset == setting.offset
AskerNow == now + offset

\* The deadlines that the application gives, Missing where it leaves them out.
Wishes == {IF l = "brief" THEN AskerNow + 1 ELSE Missing : l \in setting.lifetimes}

-----------------------------------------------------------------------------
(* Task records, of which a snapshot shows all but the requester and the   *)
(* contract.                                                               *)

NoTask == [state |-> Absent]

\* createTask of processMessageRequest, which may find the task expired already.
TaskOf(e, state) ==
    [requestId |-> e.requestId, state |-> state, requester |-> e.sender,
     contract |-> e.payload.contract, createdAt |-> e.createdAt, updatedAt |-> e.createdAt,
     expiresAt |-> e.expiresAt, requestedAt |-> Missing, content |-> Missing,
     error |-> IF state = "expired" THEN ProtocolError("expired") ELSE Missing]

\* buildSnapshot.
SnapshotOfSuccess(t) ==
    [requestId |-> t.requestId, state |-> t.state, createdAt |-> t.createdAt,
     updatedAt |-> t.updatedAt, expiresAt |-> t.expiresAt, requestedAt |-> t.requestedAt,
     terminalOutcome |-> IF t.state = "completed" THEN t.state ELSE Missing,
     content |-> t.content, error |-> t.error]
Snapshot(t) ==
    [requestId |-> t.requestId, state |-> t.state, createdAt |-> t.createdAt,
     updatedAt |-> t.updatedAt, expiresAt |-> t.expiresAt, requestedAt |-> t.requestedAt,
     terminalOutcome |-> IF IsTerminal(t.state) THEN t.state ELSE Missing,
     content |-> t.content, error |-> t.error]

\* nextUpdatedAt: the stamps of a record never go back.
StampedNow(t) == now
Stamp(t) == IF t.updatedAt > now THEN t.updatedAt ELSE now

Moved(t, to) == [t EXCEPT !.state = to, !.updatedAt = Stamp(t)]

\* expireIfDue.
UpToDate(t) ==
    IF IsActive(t.state) /\ now >= t.expiresAt
    THEN [Moved(t, "expired") EXCEPT !.error = ProtocolError("expired")] ELSE t

\* nextCancellation, of a record that a caller cancels.
Stopped(t) == [Moved(t, CancelTarget(t.state)) EXCEPT !.requestedAt = now]

\* isAuthorized: a task is its requester's.
AnyoneMayStop(t, runtime) == t # NoTask
IsRequester(t, runtime) == t # NoTask /\ t.requester = runtime

\* sendTerminalReply, unless the deadline of the request has passed.
ReplyTo(t) ==
    IF IsTerminal(t.state) /\ now < t.expiresAt
    THEN {ReplyEnvelope(ReplyId, [operationId |-> t.requestId, sender |-> t.requester,
                                  recipientRuntimeId |-> Answerer, expiresAt |-> t.expiresAt],
                        Snapshot(t), now)}
    ELSE {}

OperationsInit ==
    /\ Init
    /\ setting \in Settings
    /\ sent = {}
    /\ tasks = [id \in AskerIds |-> NoTask]
    /\ replies = {}

-----------------------------------------------------------------------------
(* The asker builds envelopes: request, notify, status, cancel, describe.  *)

Question(contract) == [EmptyPayload EXCEPT !.content = "text", !.contract = contract]

Asked(id) ==
    {RequestEnvelope(id, Asker, Answerer, wish, Question(contract), AskerNow)
        : wish \in Wishes, contract \in setting.contracts}

Notifications(id) ==
    {NotifyEnvelope(id, Asker, Answerer, wish, [EmptyPayload EXCEPT !.content = content], AskerNow)
        : wish \in Wishes, content \in {"text", "json"}}

Controls(id) ==
    {ControlEnvelope(operation, id, target, Asker, Answerer, wish, AskerNow)
        : operation \in {"task.status", "task.cancel"}, target \in AskerIds \ {id},
          wish \in Wishes}

Build(id) ==
    /\ ~closed
    /\ sent = {} => id = FirstId
    /\ Cardinality(sent) < MaxSent
    /\ now <= LastBuild
    /\ \E e \in Asked(id) \cup Notifications(id) \cup Controls(id)
                \cup {DescribeEnvelope(id, Asker, Answerer, AskerNow)} :
          e.operation \in setting.operations /\ sent' = sent \cup {e}
    /\ UNCHANGED <<vars, setting, tasks, replies>>

-----------------------------------------------------------------------------
(* The answerer's handlers.                                                *)

\* What may arrive, and gets past the checks.
Incoming == {[e EXCEPT !.sender = from] : e \in sent, from \in setting.senders}

Admissible(e) ==
    /\ AuthorizationIssue(e, Answerer, e.sender) = "none"
    /\ Issue(e, now) = "none"

\* makeDedupeKey, and fingerprintData: what the envelopes under one key differ in.
Key(e) == <<e.sender, e.operationId>>
FingerprintOf(e) ==
    [operation |-> e.operation, requestId |-> e.requestId, createdAt |-> e.createdAt,
     expiresAt |-> e.expiresAt, content |-> e.payload.content, contract |-> e.payload.contract]

\* What is answered, and what a terminal reply says.
Delivered == [delivered |-> TRUE]
Failed    == [failure |-> "internal"]
Admission(id, state) == [requestId |-> id, state |-> state]
AdmissionStates == {"accepted", "queued", "expired"}
Errors == {ProtocolError(code) : code \in ErrorCodes}
ReplyPayloads ==
    [content : Contents \cup {Missing}, contract : {Missing}, outcome : TerminalOutcomes,
     error : Errors \cup {Missing}, option : {Missing}]
ASSUME AnswersAssumption ==
    {Missing, Malformed} \cap ({Delivered} \cup Errors \cup ReplyPayloads
        \cup {Admission(id, state) : id \in Ids, state \in AdmissionStates}) = {}
ASSUME ResultsAssumption ==
    /\ {Delivered, Failed} \subseteq Results
    /\ {Admission(id, state) : id \in AskerIds, state \in AdmissionStates} \subseteq Results
    /\ \A s \in Settings, n \in 0..LastBuild, ttl \in 1..MaxRequestTtl :
          [requestId : AskerIds, state : {"cancelling", "cancelled"}, createdAt : {n + s.offset},
           updatedAt : {n + s.offset} \cup 0..MaxNow, expiresAt : {n + s.offset + ttl},
           requestedAt : 0..MaxNow \cup {Missing}, terminalOutcome : {"cancelled", Missing},
           content : {Missing}, error : {Missing, ProtocolError("cancelled")}] \subseteq Results

\* createTask looks at the clock again: in the last instant before the deadline it
\* may have passed.
Admitted(e, state) == state = "expired" => now + 1 >= e.expiresAt

\* processMessageRequest.  The policy may be out of capacity, and createTask throws
\* when the id is that of a task.  Whatever state the task is created in is answered.
ReceiveRequest(e) ==
    /\ e.operation = "message.request"
    /\ \/ \E state \in AdmissionStates :
             /\ Admitted(e, state)
             /\ tasks[e.requestId] = NoTask
             /\ CarryOut(Key(e), FingerprintOf(e), Admission(e.requestId, state))
             /\ tasks' = [tasks EXCEPT ![e.requestId] = TaskOf(e, state)]
       \/ Refuse(Key(e), FingerprintOf(e)) /\ UNCHANGED tasks
       \/ Replay(Key(e), FingerprintOf(e)) /\ UNCHANGED tasks
    /\ UNCHANGED <<setting, sent, replies>>

\* processMessageNotify, up to the await and after it.
ReceiveNotification(c, e) ==
    /\ e.operation = "message.notify"
    /\ TakeUp(c, Key(e), FingerprintOf(e)) \/ Replay(Key(e), FingerprintOf(e))
    /\ UNCHANGED <<setting, sent, tasks, replies>>

NotificationHandled(c) ==
    /\ \E result \in {Delivered, Failed} : Commit(c, result)
    /\ UNCHANGED <<setting, sent, tasks, replies>>

\* processTaskStatus.
ReceiveStatus(e) ==
    /\ e.operation = "task.status"
    /\ ~closed
    /\ tasks[e.requestId] # NoTask
    /\ tasks' = [tasks EXCEPT ![e.requestId] = UpToDate(@)]
    /\ UNCHANGED <<vars, setting, sent, replies>>

\* processTaskCancel.  A task that is cancelled already is so again; finishTask
\* sends the reply of one that now is.
ReceiveCancel(e) ==
    LET t == UpToDate(tasks[e.requestId])
        mayStop == IsRequester(t, e.sender)
    IN /\ e.operation = "task.cancel"
       /\ \/ /\ mayStop /\ IsActive(t.state)
             /\ CarryOut(Key(e), FingerprintOf(e), Snapshot(Stopped(t)))
             /\ tasks' = [tasks EXCEPT ![e.requestId] = Stopped(t)]
             /\ replies' = replies \cup ReplyTo(Stopped(t))
          \/ /\ mayStop /\ t.state = "cancelled"
             /\ CarryOut(Key(e), FingerprintOf(e), Snapshot(t))
             /\ UNCHANGED <<tasks, replies>>
          \/ /\ ~(mayStop /\ (IsActive(t.state) \/ t.state = "cancelled"))
             /\ Refuse(Key(e), FingerprintOf(e))
             /\ tasks' = [tasks EXCEPT ![e.requestId] = t]
             /\ UNCHANGED replies
          \/ /\ Replay(Key(e), FingerprintOf(e))
             /\ UNCHANGED <<tasks, replies>>
       /\ UNCHANGED <<setting, sent>>

-----------------------------------------------------------------------------
(* The work of the answerer, which tells the requester how it ends.        *)

OnTime(id) == ~closed /\ IsActive(tasks[id].state) /\ now < tasks[id].expiresAt

Start(id) ==
    /\ OnTime(id)
    /\ tasks[id].state \in {"accepted", "queued"}
    /\ tasks' = [tasks EXCEPT ![id] = Moved(@, "working")]
    /\ UNCHANGED <<vars, setting, sent, replies>>

\* completeTask (which refuses content the contract does not allow), failTask and
\* rejectTask, and an executor that gives in to a cancellation.
Endings(t) ==
    {[Moved(t, "completed") EXCEPT !.content = content]
        : content \in {c \in Contents \ {"other json"} : Fits(c, t.contract)}}
    \cup {[Moved(t, outcome) EXCEPT !.error = ProtocolError("internal")]
        : outcome \in {"failed", "rejected"}}
    \cup {[Moved(t, "cancelled") EXCEPT !.error = ProtocolError("cancelled")]
        : s \in {t.state} \cap {"cancelling"}}

Decide(id) ==
    /\ OnTime(id)
    /\ \E t \in Endings(tasks[id]) :
          /\ CanTransition(tasks[id].state, t.state)
          /\ tasks' = [tasks EXCEPT ![id] = t]
          /\ replies' = replies \cup ReplyTo(t)
    /\ UNCHANGED <<vars, setting, sent>>

Expire(id) ==
    /\ ~closed
    /\ IsActive(tasks[id].state)
    /\ UpToDate(tasks[id]) # tasks[id]
    /\ tasks' = [tasks EXCEPT ![id] = UpToDate(@)]
    /\ UNCHANGED <<vars, setting, sent, replies>>

\* close of the router.
Shutdown ==
    /\ Close
    /\ tasks' = [id \in AskerIds |-> NoTask]
    /\ UNCHANGED <<setting, sent, replies>>

\* The rest of the dedupe store, which changes nothing here.
Abandoned(c) == Abandon(c) /\ UNCHANGED <<setting, sent, tasks, replies>>
Forgotten(k) == TimerFires(k) /\ UNCHANGED <<setting, sent, tasks, replies>>
TimePasses == Tick /\ UNCHANGED <<setting, sent, tasks, replies>>

OperationsNext ==
    \/ \E id \in AskerIds : Build(id) \/ Start(id) \/ Decide(id) \/ Expire(id)
    \/ \E e \in {m \in Incoming : Admissible(m)} :
          \/ ReceiveRequest(e)
          \/ \E c \in Callers : ReceiveNotification(c, e)
          \/ ReceiveStatus(e)
          \/ ReceiveCancel(e)
    \/ \E c \in Callers : NotificationHandled(c) \/ Abandoned(c)
    \/ \E k \in Keys : Forgotten(k)
    \/ Shutdown
    \/ TimePasses

\* Time passes and timers fire; the network, the application and handlers may
\* take forever.
OperationsSpec ==
    /\ OperationsInit
    /\ [][OperationsNext]_opsVars
    /\ WF_opsVars(TimePasses)
    /\ \A k \in Keys : WF_opsVars(Forgotten(k))

-----------------------------------------------------------------------------
\* Types, and what the parts of a task record have to do with each other.
TypeOK ==
    /\ RecordsTypeOK
    /\ setting \in Settings
    /\ \A e \in sent : e.sender = Asker /\ e.operationId \in AskerIds
    /\ \A id \in AskerIds : tasks[id] # NoTask =>
          LET t == tasks[id]
          IN /\ t.requestId = id
             /\ t.state \in TaskState \ {"created"}
             /\ t.requester \in {Asker, Stranger}
             /\ t.createdAt <= t.updatedAt
             /\ t.state \in {"completed"} <=> t.content # Missing
             /\ t.content # Missing => t.error = Missing
    /\ \A r \in replies : r.operationId = ReplyId

\* What a runtime builds, another one understands: until its deadline, whichever
\* clock is ahead by no more than the tolerance of validateEnvelope.
OursAreUnderstood ==
    \A e \in sent :
        /\ AuthorizationIssue(e, Answerer, Asker) = "none"
        /\ Issue(e, now) = IF now < e.expiresAt THEN "none" ELSE "expired"

\* The asker understands a snapshot until the deadline of the task.  The exception
\* is the cancellation of a task by a runtime whose clock is behind: it may be
\* stamped before the task was created, and is then malformed.
SnapshotUnderstood(s) ==
    \/ SnapshotIssue(s, AskerNow, s.requestId) = IF AskerNow < s.expiresAt THEN "none" ELSE "expired"
    \/ offset > 0 /\ s.requestedAt # Missing

\* It understands and accepts a terminal reply (processMessageReply).  The exception
\* is the reply, by a runtime whose clock is behind, to a request that has the
\* longest lifetime there is: the reply may then have a longer one.
ReplyUnderstood(r) ==
    \/ /\ AuthorizationIssue(r, Asker, Answerer) = "none"
       /\ Issue(r, AskerNow) = IF AskerNow < r.expiresAt THEN "none" ELSE "expired"
       /\ r.payload.outcome = "completed" /\ tasks[r.requestId] # NoTask =>
             Fits(r.payload.content, tasks[r.requestId].contract)
    \/ offset > 0 /\ r.expiresAt - r.createdAt > MaxRequestTtl

\* It understands what is answered to its operations.  The exception is the admission
\* of a request whose deadline passes between validation and createTask: the state
\* `expired', which the router answers then, is none that an asker accepts of an
\* admission (validateResultForOperation), and none that is answered any earlier.
AnswerUnderstood(operationId, p, result) ==
    LET answer == [operation |-> p.operation, operationId |-> operationId,
                   result |-> IF result = Failed THEN Missing ELSE result,
                   error |-> IF result = Failed THEN ProtocolError("internal") ELSE Missing]
    IN IF p.operation = "task.cancel" THEN SnapshotUnderstood(result)
       ELSE \/ ResponseIssue(answer, AskerNow, p.requestId) = "none"
            \/ result = Admission(p.requestId, "expired") /\ now + 1 >= p.expiresAt

\* What a runtime is told about its operations it understands: what the dedupe
\* store will replay, the snapshots of its tasks, and their terminal replies.
AnswersAreUnderstood ==
    /\ \A k \in Keys : records[k].kind = "committed" =>
          AnswerUnderstood(k[2], records[k].print, records[k].result)
    /\ \A id \in AskerIds : tasks[id] # NoTask => SnapshotUnderstood(Snapshot(tasks[id]))
    /\ \A r \in replies : r.recipientRuntimeId = Asker => ReplyUnderstood(r)

\* Only its requester has a task stopped: whoever's cancellation was answered with
\* anything but a refusal, and whatever stopped a task, came from the requester.
OnlyTheRequesterStops ==
    /\ \A id \in AskerIds :
          tasks[id] # NoTask /\ tasks[id].requestedAt # Missing =>
              \E t \in told : /\ t[1][1] = tasks[id].requester
                              /\ t[2].operation = "task.cancel" /\ t[2].requestId = id
    /\ \A t \in told :
          t[2].operation = "task.cancel" /\ tasks[t[2].requestId] # NoTask =>
              t[1][1] = tasks[t[2].requestId].requester
=============================================================================
