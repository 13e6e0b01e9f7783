---------------------------- MODULE OutboundRouter ----------------------------
(***************************************************************************)
(* The sending side of router/router.ts with runtime/wire-bridge.ts: a     *)
(* request is registered and sent over an exchange of the local transport, *)
(* its admission is answered on that exchange, and the peer's terminal     *)
(* reply comes on an exchange of its own, before or after that answer.     *)
(* pi/adapter.ts takes the outcome to the session of Pi that asked.        *)
(*                                                                         *)
(* The peer is any runtime that keeps the promise of RequestLife, which    *)
(* InboundRouter is checked to implement.  The network loses messages by   *)
(* never delivering them, delays and reorders them, and delivers a reply   *)
(* again; the transport connects once per send, so a request is delivered  *)
(* at most once per send, perhaps after the sender gave up.                *)
(*                                                                         *)
(* A caller may send a request again at any time, also while it waits for  *)
(* the answer to an earlier send.  All its sends share one operation id,   *)
(* and with it one entry of `pending': the latest send has it, an answer   *)
(* on any exchange settles whoever has it, and a failed exchange deletes   *)
(* it whoever has it.                                                      *)
(*                                                                         *)
(* Abstractions.  `due' says which clocks have passed a request's deadline:*)
(* "wall" for the validation of envelopes, "store" for the task store.     *)
(* Authorization and content are left out: a message that fails them is    *)
(* one that is lost.  The router's own completeTask and cancelTask are not *)
(* applied to requests it sent: nothing under src/ does.                   *)
(***************************************************************************)
EXTENDS TaskStates, Naturals, FiniteSets

CONSTANTS Requests,     \* the requests this runtime sends
          MaxSends,     \* bound: how often a caller sends one request
          MaxTracked,   \* MAX_TRACKED_TASKS
          Settings      \* the limits of a router and of its world

\* One of Settings.  The last two are bounds: how often a caller sends one
\* request here, and how often the adapter is bound to a session of Pi.
Setting ==
    [maxPending  : Nat,     \* MAX_PENDING_OPERATIONS
     maxSends    : 0..MaxSends,
     maxSessions : Nat]

ASSUME BoundsAssumption ==
    /\ MaxSends \in Nat
    /\ MaxTracked \in Nat
    /\ Settings \subseteq Setting

VARIABLES
    task,        \* taskStore: the state of the task, Absent without a record
    due,         \* the clocks that have passed the request's deadline
    sends,       \* how often sendAndWait was called for the request
    pending,     \* the send that has the request's entry of `pending', else 0
    exchanges,   \* the sends that await the delivery of their envelope
    admission,   \* the response promise of each send
    completion,  \* the promise of outboundRequests: "none", "pending", an outcome
    closed,
    binds,       \* how often the adapter was bound
    session,     \* the adapter's active session, numbered by its bind, else 0
    sender,      \* the session that sent the request
    told,        \* the outcome that was injected, and into which session, 0 for none
    net,         \* the messages sent so far and not lost
    promised,    \* the peer: the admission it answered
    life,        \* the peer: the life of the request there
    overlapped,  \* history: requests of which a send took an earlier one's entry
    setting      \* the one of Settings that is in force; it never changes

vars == <<task, due, sends, pending, exchanges, admission, completion, closed, net,
          promised, life, overlapped, setting, binds, session, sender, told>>
adapterVars == <<binds, session, sender, told>>

Sends == 1..MaxSends

Clocks     == {"wall", "store"}
Admissions == {"accepted", "queued"}
Refusals   == {"busy", "refused"}      \* for now, and for good
Answers    == Admissions \cup Refusals
NoOutcome  == Absent

Peer == INSTANCE RequestLife WITH Outcomes <- TerminalOutcomes

Request(r, n)     == [type |-> "request", request |-> r, send |-> n]
Response(r, n, a) == [type |-> "response", request |-> r, send |-> n, answer |-> a]
Reply(r, o)       == [type |-> "reply", request |-> r, outcome |-> o]

Init ==
    /\ task = [r \in Requests |-> Absent]
    /\ due = [r \in Requests |-> {}]
    /\ sends = [r \in Requests |-> 0]
    /\ pending = [r \in Requests |-> 0]
    /\ exchanges = [r \in Requests |-> {}]
    /\ admission = [r \in Requests |-> [n \in Sends |-> "none"]]
    /\ overlapped = {}
    /\ completion = [r \in Requests |-> "none"]
    /\ closed = FALSE
    /\ binds = 0
    /\ session = 0
    /\ sender = [r \in Requests |-> 0]
    /\ told = [r \in Requests |-> [session |-> 0, outcome |-> NoOutcome]]
    /\ net = {}
    /\ promised = [r \in Requests |-> Absent]
    /\ life = [r \in Requests |-> Peer!Unborn]
    /\ setting \in Settings

-----------------------------------------------------------------------------
(* Sending. *)

Registered == {r \in Requests : completion[r] # "none"}
Waiting    == {r \in Requests : pending[r] # 0}

\* sendAndWait and sendEnvelope, up to the delivery.  Without room for another
\* pending operation the send fails at once; an expired envelope fails
\* validation, and then the entry goes, the one of an earlier send with it.
Send(r) ==
    LET n == sends[r] + 1
        busy == Cardinality(Waiting) >= setting.maxPending
        expired == "wall" \in due[r]
    IN /\ n <= setting.maxSends
       /\ sends' = [sends EXCEPT ![r] = n]
       /\ overlapped' = IF ~busy /\ pending[r] # 0 THEN overlapped \cup {r} ELSE overlapped
       /\ pending' = [pending EXCEPT ![r] =
                        IF busy THEN @ ELSE IF expired THEN 0 ELSE n]
       /\ IF busy \/ expired
          THEN /\ admission' = [admission EXCEPT ![r][n] = "failed"]
               /\ UNCHANGED <<exchanges, net>>
          ELSE /\ admission' = [admission EXCEPT ![r][n] = "open"]
               /\ exchanges' = [exchanges EXCEPT ![r] = @ \cup {n}]
               /\ net' = net \cup {Request(r, n)}

\* The adapter's send for a resolved target: createRequest with
\* registerOutboundRequest, whose completion is tracked for the active session.
CreateRequest(r) ==
    /\ ~closed
    /\ completion[r] = "none"
    /\ due[r] = {}
    /\ Cardinality(Registered) < MaxTracked
    /\ task' = [task EXCEPT ![r] = "created"]
    /\ completion' = [completion EXCEPT ![r] = "pending"]
    /\ sender' = [sender EXCEPT ![r] = session]
    /\ Send(r)
    /\ UNCHANGED <<due, closed, promised, life, binds, session, told>>

\* sendRequest with the envelope of a registered request: a caller's retry, which
\* need not wait for the earlier sends.
SendAgain(r) ==
    /\ ~closed
    /\ completion[r] # "none"
    /\ Send(r)
    /\ UNCHANGED <<task, due, completion, closed, promised, life>>

\* The transport fails the exchange: no peer, no connection, or a timeout, be
\* it before or after the peer got the request.  The entry is deleted by its
\* operation, so that a later send may lose it.
SendFails(r, n) ==
    /\ n \in exchanges[r]
    /\ exchanges' = [exchanges EXCEPT ![r] = @ \ {n}]
    /\ pending' = [pending EXCEPT ![r] = 0]
    /\ admission' = [admission EXCEPT ![r][n] = "failed"]
    /\ UNCHANGED <<task, due, sends, completion, closed, net, promised, life, overlapped>>

-----------------------------------------------------------------------------
(* Receiving. *)

\* expireIfDue finds something to do.
Late(r) == IsActive(task[r]) /\ "store" \in due[r]

\* The transitions of applyResponse, each made only where it is legal.
AdmittedAnew(s, a) == IF s = "created" THEN "accepted" ELSE a
Admitted(s, a) ==
    LET first == IF CanTransition(s, "accepted") THEN "accepted" ELSE s
    IN IF a = "queued" /\ CanTransition(first, "queued") THEN "queued" ELSE first

\* The promise of the send that has the entry resolves or is rejected, whatever
\* became of the task.
SettlesOpenTasks(r, a) ==
    admission' = [admission EXCEPT ![r][pending[r]] = IF task[r] = "created" THEN a ELSE @]
Settle(r, a) == admission' = [admission EXCEPT ![r][pending[r]] = a]

\* processResponse and applyResponse: the answer on an exchange settles the send
\* that has the entry and moves the task, unless a reply was faster.
ResponseArrives(r, n, a) ==
    /\ n \in exchanges[r]
    /\ Response(r, n, a) \in net
    /\ exchanges' = [exchanges EXCEPT ![r] = @ \ {n}]
    /\ pending' = [pending EXCEPT ![r] = 0]
    /\ IF pending[r] = 0
       THEN UNCHANGED <<admission, task>>
       ELSE /\ Settle(r, a)
            /\ task' = [task EXCEPT ![r] =
                          IF a \in Refusals THEN @
                          ELSE IF Late(r) THEN "expired" ELSE Admitted(@, a)]
    /\ UNCHANGED <<due, sends, completion, closed, net, promised, life, overlapped>>

\* The state in which processMessageReply puts a task before its outcome.
AtWork(s) == IF s \in {"created", "accepted", "queued"} THEN "working" ELSE s

\* The outcome of a reply can be committed; a cancelled one by way of cancelling.
Decides(s, o) ==
    \/ CanTransition(AtWork(s), o)
    \/ /\ o = "cancelled"
       /\ CanTransition(AtWork(s), "cancelling")

InTime(r) == IsActive(task[r]) /\ "store" \notin due[r]

\* finishOutboundRequest: the completion resolves once.
ResolvesAsCompleted(r, o) == completion' = [completion EXCEPT ![r] = "completed"]
Finish(r, o) ==
    completion' = [completion EXCEPT ![r] = IF @ = "pending" THEN o ELSE @]

\* processMessageReply for an undecided request.  A late one expires; a
\* decided one answers with an error, or as before, and changes nothing.
ReplyArrives(r, o) ==
    /\ ~closed
    /\ "wall" \notin due[r]
    /\ Reply(r, o) \in net
    /\ InTime(r)
    /\ Decides(task[r], o)
    /\ task' = [task EXCEPT ![r] = o]
    /\ Finish(r, o)
    /\ UNCHANGED <<due, sends, pending, exchanges, admission, closed, net, promised,
                   life, overlapped>>

\* The store's expiry timer, and every call that reads a late task: a late
\* reply, the status tool.  The completion is not resolved.
TaskExpires(r) ==
    /\ ~closed
    /\ Late(r)
    /\ task' = [task EXCEPT ![r] = "expired"]
    /\ UNCHANGED <<due, sends, pending, exchanges, admission, completion, closed, net,
                   promised, life, overlapped>>

\* close: the pending operations are rejected and the task store is disposed.
\* The completions are left alone.
Close ==
    /\ ~closed
    /\ closed' = TRUE
    /\ pending' = [r \in Requests |-> 0]
    /\ admission' = [r \in Requests |->
                       [n \in Sends |-> IF n = pending[r] THEN "failed" ELSE admission[r][n]]]
    /\ task' = [r \in Requests |-> Absent]
    /\ UNCHANGED <<due, sends, exchanges, completion, net, promised, life, overlapped>>

DeadlinePasses(r, c) ==
    /\ completion[r] # "none"
    /\ c \notin due[r]
    /\ due' = [due EXCEPT ![r] = @ \cup {c}]
    /\ UNCHANGED <<task, sends, pending, exchanges, admission, completion, closed, net,
                   promised, life, overlapped>>

-----------------------------------------------------------------------------
(* The adapter between the router and the sessions of Pi. *)

BindAdapter ==
    /\ binds < setting.maxSessions
    /\ binds' = binds + 1
    /\ session' = binds + 1
    /\ UNCHANGED <<sender, told>>

ClearAdapter ==
    /\ session # 0
    /\ session' = 0
    /\ UNCHANGED <<binds, sender, told>>

\* trackCompletion and injectTerminal: a resolved completion becomes a message to
\* the session that sent the request, or to nobody when that has gone.
InjectedIntoCurrent(r) == session
InjectedInto(r) == IF sender[r] = session THEN session ELSE 0

InjectTerminal(r) ==
    /\ completion[r] \in TerminalOutcomes
    /\ told[r].outcome = NoOutcome
    /\ told' = [told EXCEPT ![r] = [session |-> InjectedInto(r), outcome |-> completion[r]]]
    /\ UNCHANGED <<binds, session, sender>>

AdapterStep ==
    /\ BindAdapter \/ ClearAdapter \/ \E r \in Requests : InjectTerminal(r)
    /\ UNCHANGED <<task, due, sends, pending, exchanges, admission, completion, closed, net,
                   promised, life, overlapped>>

-----------------------------------------------------------------------------
(* The peer. *)

\* It admits the request, or replays how it admitted it, or refuses, or finds
\* it expired on arrival, which the sender's validation takes for a refusal.
PeerAnswers(r, n, a) ==
    /\ Request(r, n) \in net
    /\ net' = (net \ {Request(r, n)}) \cup {Response(r, n, a)}
    /\ \/ /\ a \in Refusals \/ promised[r] = a
          /\ UNCHANGED <<promised, life>>
       \/ /\ a \in Admissions
          /\ life[r].stage = "unknown"
          /\ promised' = [promised EXCEPT ![r] = a]
          /\ life' = [life EXCEPT ![r].stage =
                        IF a = "accepted" THEN "running" ELSE "waiting"]
       \/ /\ a \in Refusals
          /\ life[r].stage = "unknown"
          /\ life' = [life EXCEPT ![r].stage = "decided", ![r].outcome = "expired"]
          /\ UNCHANGED promised
    /\ UNCHANGED <<task, due, sends, pending, exchanges, admission, completion, closed,
                   overlapped>>

\* It starts, decides or forgets a request that it admitted.
PeerActs(r) ==
    /\ life[r].stage \in {"waiting", "running", "decided"}
    /\ \E next \in Peer!Life :
         /\ next.stage # life[r].stage
         /\ next.reply = life[r].reply
         /\ Peer!MayBecome(life[r], next)
         /\ life' = [life EXCEPT ![r] = next]
    /\ UNCHANGED <<task, due, sends, pending, exchanges, admission, completion, closed, net,
                   promised, overlapped>>

\* It sends its only terminal reply.
PeerReplies(r) ==
    /\ life[r].stage = "decided"
    /\ life[r].reply = NoOutcome
    /\ life' = [life EXCEPT ![r].reply = life[r].outcome]
    /\ net' = net \cup {Reply(r, life[r].outcome)}
    /\ UNCHANGED <<task, due, sends, pending, exchanges, admission, completion, closed,
                   promised, overlapped>>

Step(r) ==
    \/ SendAgain(r)
    \/ \E n \in Sends : SendFails(r, n)
    \/ \E n \in Sends, a \in Answers : ResponseArrives(r, n, a)
    \/ \E o \in TerminalOutcomes : ReplyArrives(r, o)
    \/ TaskExpires(r)
    \/ \E c \in Clocks : DeadlinePasses(r, c)
    \/ \E n \in Sends, a \in Answers : PeerAnswers(r, n, a)
    \/ PeerActs(r)
    \/ PeerReplies(r)

Next ==
    /\ \/ \E r \in Requests : CreateRequest(r)
       \/ (\E r \in Requests : Step(r)) /\ UNCHANGED adapterVars
       \/ Close /\ UNCHANGED adapterVars
       \/ AdapterStep
    /\ UNCHANGED setting

\* Deadlines pass, the store's timer fires, and the transport's overall
\* deadline ends every exchange.  Nothing is assumed of the peer or the network.
Fairness ==
    \A r \in Requests :
        /\ \A c \in Clocks : WF_vars(DeadlinePasses(r, c) /\ UNCHANGED <<setting, adapterVars>>)
        /\ WF_vars(TaskExpires(r) /\ UNCHANGED <<setting, adapterVars>>)
        /\ \A n \in Sends : WF_vars(SendFails(r, n) /\ UNCHANGED <<setting, adapterVars>>)

Spec == Init /\ [][Next]_vars
FairSpec == Spec /\ Fairness

-----------------------------------------------------------------------------
(* Properties. *)

Message ==
    [type : {"request"}, request : Requests, send : Sends]
    \cup [type : {"response"}, request : Requests, send : Sends, answer : Answers]
    \cup [type : {"reply"}, request : Requests, outcome : TerminalOutcomes]

\* The types of the variables: of the router, of the adapter, and of the world.
RouterTypeOK ==
    /\ task \in [Requests -> TaskState \cup {Absent}]
    /\ sends \in [Requests -> 0..MaxSends]
    /\ pending \in [Requests -> 0..MaxSends]
    /\ exchanges \in [Requests -> SUBSET Sends]
    /\ admission \in [Requests -> [Sends -> {"none", "open", "failed"} \cup Answers]]
    /\ completion \in [Requests -> {"none", "pending"} \cup TerminalOutcomes]
    /\ closed \in BOOLEAN
    /\ overlapped \subseteq Requests

AdapterTypeOK ==
    /\ binds \in 0..setting.maxSessions
    /\ session \in 0..binds
    /\ sender \in [Requests -> 0..binds]
    /\ told \in [Requests -> [session : 0..binds, outcome : TerminalOutcomes \cup {NoOutcome}]]

WorldTypeOK ==
    /\ due \in [Requests -> SUBSET Clocks]
    /\ net \subseteq Message
    /\ promised \in [Requests -> Admissions \cup {Absent}]
    /\ life \in [Requests -> Peer!Life]
    /\ setting \in Settings

TypeOK == RouterTypeOK /\ AdapterTypeOK /\ WorldTypeOK

\* What the requester is told is what the peer said, whatever was lost, delayed,
\* repeated or overtaken: an outcome is the one that the peer decided and
\* replied, an admission was granted by a peer that knows the request.
OutcomesAgree ==
    \A r \in Requests :
        /\ completion[r] \in TerminalOutcomes => completion[r] = life[r].reply
        /\ \A n \in Sends : admission[r][n] \in Admissions =>
              promised[r] = admission[r][n] /\ life[r].stage # "unknown"

\* The task record and the completion tell the same story: an undecided or
\* expired record goes with an undecided completion or the peer's `expired'.
RecordMatchesCompletion ==
    \A r \in Requests : ~closed =>
        /\ IsActive(task[r]) => completion[r] = "pending"
        /\ completion[r] \in TerminalOutcomes => task[r] = completion[r]

\* A session of Pi is told how a request of its own ended, as the peer decided it,
\* and nothing of the requests of a session that it replaced.
SendersAreTold ==
    \A r \in Requests : told[r].session # 0 =>
        told[r].session = sender[r] /\ told[r].outcome = life[r].reply

\* What the requester can learn, from the promises, the record and the messages to
\* its session, is true of the peer and of one story, in every state.
Truthful == TypeOK /\ OutcomesAgree /\ RecordMatchesCompletion /\ SendersAreTold

\* Nothing reopens a decided request: the answer to its admission may arrive
\* after the reply, and the reply after the expiry.
DecidedStays ==
    [][\A r \in Requests : IsTerminal(task[r]) => task'[r] \in {task[r], Absent}]_vars

\* No result is delivered to the requester after the deadline.
NoLateResult ==
    [][\A r \in Requests : completion'[r] \in TerminalOutcomes /\ completion[r] = "pending"
          => due[r] = {}]_vars

\* A message to a session that is gone, or a second one about a request, is never
\* sent.
ToldOnceWhileThere ==
    [][\A r \in Requests : told'[r] # told[r] =>
          told[r].session = 0 /\ told'[r].session \in {0, session}]_vars

\* A decision stands, none is reported late, and none to the wrong session.
ResultsStand == DecidedStays /\ NoLateResult /\ ToldOnceWhileThere

\* A caller waits for the result of a send while its envelope is on the way, and
\* then for the response promise.
Waits(r, n) == n \in exchanges[r] \/ admission[r][n] = "open"

\* Every send is answered or fails, also when the reply overtakes the answer and
\* when others fail, unless a later send took its entry or lost it to an earlier
\* one.  The entry of `pending' is given back in any case: no overlap uses up the
\* router's capacity for pending operations.
AdmissionSettles ==
    \A r \in Requests :
        /\ \A n \in Sends : Waits(r, n) ~> ~Waits(r, n) \/ r \in overlapped
        /\ pending[r] # 0 ~> pending[r] = 0

\* A request whose deadline has passed is reported to the requester.
CompletionSettles ==
    \A r \in Requests :
        IsTerminal(task[r]) ~> (completion[r] \in TerminalOutcomes \/ closed)
=============================================================================
