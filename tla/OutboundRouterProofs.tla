------------------------- MODULE OutboundRouterProofs -------------------------
(***************************************************************************)
(* What a requester may believe, for every set of requests, any number of  *)
(* sends and sessions, every limit of the router and every peer that keeps *)
(* the promise of RequestLife, on a network that loses, delays, reorders   *)
(* and repeats.                                                            *)
(***************************************************************************)
EXTENDS OutboundRouter, TLAPS

\* What the messages on the network and the records of the peer say agrees with the
\* peer: a reply is the only one it made, an admission the only one it gave.
Heard ==
    \A r \in Requests :
        /\ \A o \in TerminalOutcomes : Reply(r, o) \in net => life[r].reply = o
        /\ \A n \in Sends, a \in Admissions : Response(r, n, a) \in net => promised[r] = a
        /\ promised[r] # Absent => life[r].stage # "unknown"
        /\ life[r].stage = "decided" => life[r].outcome \in TerminalOutcomes

\* A session is told the outcome with which the completion has resolved, once.
Relayed ==
    \A r \in Requests :
        /\ told[r].session # 0 => told[r].outcome # NoOutcome /\ told[r].session = sender[r]
        /\ told[r].outcome # NoOutcome => told[r].outcome = completion[r]

\* The inductive invariant: what the requester is told follows from what it was
\* sent, and what it was sent from what the peer did.
IInv == TypeOK /\ OutcomesAgree /\ RecordMatchesCompletion /\ Heard /\ Relayed

-----------------------------------------------------------------------------
\* The states and the outcomes are what they are called.
LEMMA StateFacts ==
    /\ TaskState = ActiveStates \cup TerminalOutcomes
    /\ ActiveStates \cap TerminalOutcomes = {}
    /\ Absent \notin TaskState
    /\ {"none", "pending"} \cap TerminalOutcomes = {}
    /\ Absent \notin Admissions
    /\ Answers = Admissions \cup Refusals
    /\ Admissions \cap Refusals = {}
    /\ {"none", "open", "failed"} \cap Answers = {}
    /\ "expired" \in TerminalOutcomes
    /\ "created" \in ActiveStates
BY DEF TaskState, ActiveStates, TerminalOutcomes, Absent, Admissions, Refusals, Answers

\* An answer to the admission leaves decided, absent and undecided tasks what they
\* are (applyResponse).
LEMMA AdmittedKeepsKind ==
    ASSUME NEW s \in TaskState \cup {Absent}, NEW a \in Answers
    PROVE  /\ Admitted(s, a) \in TaskState \cup {Absent}
           /\ IsActive(s) <=> IsActive(Admitted(s, a))
           /\ ~IsActive(s) => Admitted(s, a) = s
BY DEF Admitted, CanTransition, LegalTransitions, IsActive, TaskState, ActiveStates,
       TerminalOutcomes, Absent

\* Messages of different types or about different things are different.
LEMMA MessagesDiffer ==
    ASSUME NEW r, NEW q, NEW m, NEW n, NEW a, NEW b, NEW o, NEW p
    PROVE  /\ Request(r, m) # Response(q, n, b)
           /\ Request(r, m) # Reply(q, p)
           /\ Response(r, m, a) # Reply(q, p)
           /\ Response(r, m, a) = Response(q, n, b) => r = q /\ m = n /\ a = b
           /\ Reply(r, o) = Reply(q, p) => r = q /\ o = p
<1>1. /\ Request(r, m).type = "request"
      /\ Response(r, m, a).type = "response" /\ Response(q, n, b).type = "response"
      /\ Reply(r, o).type = "reply" /\ Reply(q, p).type = "reply"
  BY DEF Request, Response, Reply
<1>2. Response(r, m, a) = Response(q, n, b) => r = q /\ m = n /\ a = b
  BY DEF Response
<1>3. Reply(r, o) = Reply(q, p) => r = q /\ o = p
  BY DEF Reply
<1> QED
  BY <1>1, <1>2, <1>3

\* The messages are those of the type.
LEMMA MessageTypes ==
    ASSUME NEW r \in Requests
    PROVE  /\ \A n \in Sends : Request(r, n) \in Message
           /\ \A n \in Sends, a \in Answers : Response(r, n, a) \in Message
           /\ \A o \in TerminalOutcomes : Reply(r, o) \in Message
BY DEF Message, Request, Response, Reply

\* Setting one entry of a table of tables keeps its type and the other entries.
LEMMA EntrySet ==
    ASSUME NEW S, NEW T, NEW V, NEW f \in [S -> [T -> V]], NEW x \in S, NEW y \in T,
           NEW v \in V, NEW g, g = [f EXCEPT ![x][y] = v]
    PROVE  /\ g \in [S -> [T -> V]]
           /\ \A q \in S, n \in T : g[q][n] = IF q = x /\ n = y THEN v ELSE f[q][n]
<1>1. [f[x] EXCEPT ![y] = v] \in [T -> V]
  OBVIOUS
<1>2. g \in [S -> [T -> V]]
  BY <1>1
<1>3. \A q \in S, n \in T : g[q][n] = IF q = x /\ n = y THEN v ELSE f[q][n]
  OBVIOUS
<1> QED
  BY <1>2, <1>3

\* A router that has done nothing satisfies the invariant.
LEMMA InitIInv == ASSUME Init PROVE IInv
<1> USE DEF Init
<1>1. RouterTypeOK
  <2>1. 0 \in 0..MaxSends
    BY BoundsAssumption
  <2> QED
    BY <2>1 DEF RouterTypeOK
<1>2. AdapterTypeOK
  <2>1. 0 \in 0..setting.maxSessions
    BY BoundsAssumption DEF Setting
  <2>2. told \in [Requests -> [session : 0..binds, outcome : TerminalOutcomes \cup {NoOutcome}]]
    OBVIOUS
  <2> QED
    BY <2>1, <2>2 DEF AdapterTypeOK
<1>3. WorldTypeOK
  <2>1. Peer!Unborn \in Peer!Life
    BY DEF Peer!Unborn, Peer!Life, Peer!Stages
  <2> QED
    BY <2>1 DEF WorldTypeOK
<1>4. OutcomesAgree
  BY StateFacts DEF OutcomesAgree
<1>5. RecordMatchesCompletion
  BY StateFacts DEF RecordMatchesCompletion, IsActive
<1>6. Heard
  BY DEF Heard, Peer!Unborn
<1>7. Relayed
  BY DEF Relayed
<1> QED
  BY <1>1, <1>2, <1>3, <1>4, <1>5, <1>6, <1>7 DEF IInv, TypeOK

-----------------------------------------------------------------------------
\* sendAndWait changes the sends, the entry, the exchanges and the promises of one
\* request; the only promises it settles fail.
LEMMA SendFacts ==
    ASSUME TypeOK, NEW r \in Requests, Send(r)
    PROVE  /\ sends' \in [Requests -> 0..MaxSends]
           /\ pending' \in [Requests -> 0..MaxSends]
           /\ exchanges' \in [Requests -> SUBSET Sends]
           /\ admission' \in [Requests -> [Sends -> {"none", "open", "failed"} \cup Answers]]
           /\ overlapped' \subseteq Requests
           /\ \E n \in Sends : net' \in {net, net \cup {Request(r, n)}}
           /\ \A q \in Requests, n \in Sends :
                 admission'[q][n] \in {admission[q][n], "open", "failed"}
<1> DEFINE m == sends[r] + 1
<1>1. m \in Sends /\ m \in 0..MaxSends
  BY BoundsAssumption DEF Send, Sends, TypeOK, RouterTypeOK, WorldTypeOK, Setting
<1>2. PICK v \in {"open", "failed"} : admission' = [admission EXCEPT ![r][m] = v]
  BY DEF Send
<1>3. admission' \in [Requests -> [Sends -> {"none", "open", "failed"} \cup Answers]]
  BY <1>1, <1>2, EntrySet DEF TypeOK, RouterTypeOK
<1>4. \A q \in Requests, n \in Sends :
         admission'[q][n] \in {admission[q][n], "open", "failed"}
  BY <1>1, <1>2, EntrySet DEF TypeOK, RouterTypeOK
<1>5. sends' \in [Requests -> 0..MaxSends]
  BY <1>1 DEF Send, TypeOK, RouterTypeOK
<1>9. pending' \in [Requests -> 0..MaxSends]
  <2>1. \/ pending' = [pending EXCEPT ![r] = pending[r]]
        \/ pending' = [pending EXCEPT ![r] = 0]
        \/ pending' = [pending EXCEPT ![r] = m]
    BY DEF Send
  <2> QED
    BY <1>1, <2>1, BoundsAssumption DEF TypeOK, RouterTypeOK
<1>6. exchanges' \in [Requests -> SUBSET Sends]
  BY <1>1 DEF Send, TypeOK, RouterTypeOK
<1>7. overlapped' \subseteq Requests
  BY DEF Send, TypeOK, RouterTypeOK
<1>8. net' = net \/ net' = net \cup {Request(r, m)}
  BY DEF Send
<1> QED
  BY <1>1, <1>3, <1>4, <1>5, <1>6, <1>7, <1>8, <1>9

\* A step that sends a request, and lets the tasks and completions be or registers a
\* request, keeps the invariant.
LEMMA SendKeepsIInv ==
    ASSUME IInv, NEW r \in Requests, Send(r), UNCHANGED setting,
           \/ SendAgain(r) /\ UNCHANGED adapterVars
           \/ CreateRequest(r)
    PROVE  IInv'
<1> USE DEF IInv
<1>0. UNCHANGED <<due, closed, promised, life, binds, session, told>>
  BY DEF SendAgain, CreateRequest, adapterVars
<1>1. \/ UNCHANGED <<task, completion, sender>>
      \/ /\ ~closed /\ completion[r] = "none"
         /\ task' = [task EXCEPT ![r] = "created"]
         /\ completion' = [completion EXCEPT ![r] = "pending"]
         /\ sender' = [sender EXCEPT ![r] = session]
  BY DEF SendAgain, CreateRequest, adapterVars
<1>2. RouterTypeOK'
  <2>1. TypeOK
    OBVIOUS
  <2>2. /\ task' \in [Requests -> TaskState \cup {Absent}]
        /\ completion' \in [Requests -> {"none", "pending"} \cup TerminalOutcomes]
        /\ closed' \in BOOLEAN
    BY <1>0, <1>1, StateFacts DEF TypeOK, RouterTypeOK
  <2> QED
    BY <2>1, <2>2, SendFacts DEF RouterTypeOK
<1>3. AdapterTypeOK'
  BY <1>0, <1>1 DEF TypeOK, AdapterTypeOK
<1>4. WorldTypeOK'
  BY <1>0, SendFacts, MessageTypes DEF TypeOK, WorldTypeOK
<1>5. OutcomesAgree'
  <2>1. \A q \in Requests, n \in Sends :
           admission'[q][n] \in Admissions => admission'[q][n] = admission[q][n]
    BY SendFacts DEF Admissions
  <2>2. \A q \in Requests :
           completion'[q] \in TerminalOutcomes => completion'[q] = completion[q]
    BY <1>1, StateFacts DEF TypeOK, RouterTypeOK
  <2> QED
    BY <1>0, <2>1, <2>2 DEF OutcomesAgree
<1>6. RecordMatchesCompletion'
  BY <1>0, <1>1, StateFacts DEF RecordMatchesCompletion, TypeOK, RouterTypeOK
<1>7. Heard'
  <2>1. /\ \A q \in Requests, o \in TerminalOutcomes : Reply(q, o) \in net' => Reply(q, o) \in net
        /\ \A q \in Requests, n \in Sends, a \in Admissions :
              Response(q, n, a) \in net' => Response(q, n, a) \in net
    <3>1. PICK n \in Sends : net' \in {net, net \cup {Request(r, n)}}
      BY SendFacts
    <3> QED
      BY <3>1, MessagesDiffer
  <2> QED
    BY <1>0, <2>1 DEF Heard
<1>8. Relayed'
  BY <1>0, <1>1, StateFacts DEF Relayed, TypeOK, RouterTypeOK, AdapterTypeOK
<1> QED
  BY <1>2, <1>3, <1>4, <1>5, <1>6, <1>7, <1>8 DEF TypeOK

\* A failed exchange rejects the promise of its own send.
LEMMA SendFailsKeepsIInv ==
    ASSUME IInv, NEW r \in Requests, NEW n \in Sends, SendFails(r, n),
           UNCHANGED <<setting, adapterVars>>
    PROVE  IInv'
<1> USE DEF IInv, SendFails, adapterVars
<1>1. admission' \in [Requests -> [Sends -> {"none", "open", "failed"} \cup Answers]]
  BY EntrySet DEF TypeOK, RouterTypeOK
<1>2. RouterTypeOK'
  BY <1>1, BoundsAssumption DEF TypeOK, RouterTypeOK
<1>3. AdapterTypeOK' /\ WorldTypeOK'
  BY DEF TypeOK, AdapterTypeOK, WorldTypeOK
<1>4. OutcomesAgree'
  BY DEF OutcomesAgree, TypeOK, RouterTypeOK, Admissions
<1>5. RecordMatchesCompletion' /\ Heard' /\ Relayed'
  BY DEF RecordMatchesCompletion, Heard, Relayed
<1> QED
  BY <1>2, <1>3, <1>4, <1>5 DEF TypeOK

\* The answer on an exchange settles the send that has the entry with what the peer
\* promised, and decides nothing but that a late task has expired.
LEMMA ResponseKeepsIInv ==
    ASSUME IInv, NEW r \in Requests, NEW n \in Sends, NEW a \in Answers,
           ResponseArrives(r, n, a), UNCHANGED <<setting, adapterVars>>
    PROVE  IInv'
<1> USE DEF IInv, adapterVars
<1>0. /\ exchanges' = [exchanges EXCEPT ![r] = @ \ {n}]
      /\ pending' = [pending EXCEPT ![r] = 0]
      /\ UNCHANGED <<due, sends, completion, closed, net, promised, life, overlapped>>
  BY DEF ResponseArrives
<1>1. PICK s \in TaskState \cup {Absent} :
         /\ task' = [task EXCEPT ![r] = s]
         /\ ~IsActive(task[r]) => s = task[r]
  <2>1. task[r] \in TaskState \cup {Absent}
    BY DEF TypeOK, RouterTypeOK
  <2>2. /\ Admitted(task[r], a) \in TaskState \cup {Absent}
        /\ ~IsActive(task[r]) => Admitted(task[r], a) = task[r]
    BY <2>1, AdmittedKeepsKind
  <2>3. CASE pending[r] = 0 \/ a \in Refusals
    BY <2>1, <2>3 DEF ResponseArrives, TypeOK, RouterTypeOK
  <2>4. CASE pending[r] # 0 /\ a \notin Refusals /\ Late(r)
    BY <2>4, StateFacts DEF ResponseArrives, Late
  <2>5. CASE pending[r] # 0 /\ a \notin Refusals /\ ~Late(r)
    BY <2>2, <2>5 DEF ResponseArrives
  <2> QED
    BY <2>3, <2>4, <2>5
<1>2. \/ UNCHANGED admission
      \/ /\ pending[r] \in Sends
         /\ admission' = [admission EXCEPT ![r][pending[r]] = a]
  BY DEF ResponseArrives, Settle, TypeOK, RouterTypeOK, Sends
<1>3. /\ admission' \in [Requests -> [Sends -> {"none", "open", "failed"} \cup Answers]]
      /\ \A q \in Requests, m \in Sends :
            admission'[q][m] = admission[q][m] \/ (q = r /\ admission'[q][m] = a)
  <2>1. admission \in [Requests -> [Sends -> {"none", "open", "failed"} \cup Answers]]
    BY DEF TypeOK, RouterTypeOK
  <2>2. CASE UNCHANGED admission
    BY <2>1, <2>2
  <2>3. CASE /\ pending[r] \in Sends
             /\ admission' = [admission EXCEPT ![r][pending[r]] = a]
    <3>1. a \in {"none", "open", "failed"} \cup Answers
      OBVIOUS
    <3> QED
      BY <2>1, <2>3, <3>1, EntrySet
  <2> QED
    BY <1>2, <2>2, <2>3
<1>4. RouterTypeOK'
  <2>1. pending' \in [Requests -> 0..MaxSends]
    BY <1>0, BoundsAssumption DEF TypeOK, RouterTypeOK
  <2>2. exchanges' \in [Requests -> SUBSET Sends]
    BY <1>0 DEF TypeOK, RouterTypeOK
  <2>3. task' \in [Requests -> TaskState \cup {Absent}]
    BY <1>1 DEF TypeOK, RouterTypeOK
  <2> QED
    BY <1>0, <1>3, <2>1, <2>2, <2>3 DEF TypeOK, RouterTypeOK
<1>5. AdapterTypeOK' /\ WorldTypeOK'
  BY <1>0 DEF TypeOK, AdapterTypeOK, WorldTypeOK
<1>6. OutcomesAgree'
  <2>1. a \in Admissions => promised[r] = a /\ life[r].stage # "unknown"
    BY StateFacts DEF ResponseArrives, Heard
  <2> QED
    BY <1>0, <1>3, <2>1 DEF OutcomesAgree
<1>7. RecordMatchesCompletion'
  BY <1>0, <1>1, StateFacts DEF RecordMatchesCompletion, TypeOK, RouterTypeOK, IsActive
<1>8. Heard' /\ Relayed'
  BY <1>0 DEF Heard, Relayed
<1> QED
  BY <1>4, <1>5, <1>6, <1>7, <1>8 DEF TypeOK

\* A reply that is accepted is the peer's, and decides an undecided request.
LEMMA ReplyKeepsIInv ==
    ASSUME IInv, NEW r \in Requests, NEW o \in TerminalOutcomes, ReplyArrives(r, o),
           UNCHANGED <<setting, adapterVars>>
    PROVE  IInv'
<1> USE DEF IInv, ReplyArrives, adapterVars
<1>1. completion[r] = "pending" /\ life[r].reply = o
  BY DEF RecordMatchesCompletion, InTime, Heard
<1>2. completion' = [completion EXCEPT ![r] = o]
  BY <1>1 DEF Finish
<1>3. RouterTypeOK'
  BY <1>2, StateFacts DEF TypeOK, RouterTypeOK
<1>4. AdapterTypeOK' /\ WorldTypeOK'
  BY DEF TypeOK, AdapterTypeOK, WorldTypeOK
<1>5. OutcomesAgree'
  BY <1>1, <1>2 DEF OutcomesAgree, TypeOK, RouterTypeOK
<1>6. RecordMatchesCompletion'
  BY <1>2, StateFacts DEF RecordMatchesCompletion, TypeOK, RouterTypeOK, IsActive
<1>7. Heard'
  BY DEF Heard
<1>8. Relayed'
  BY <1>1, <1>2, StateFacts DEF Relayed, TypeOK, RouterTypeOK, AdapterTypeOK, NoOutcome
<1> QED
  BY <1>3, <1>4, <1>5, <1>6, <1>7, <1>8 DEF TypeOK

\* Expiry, the passing of a deadline and close tell the requester nothing that the
\* peer has not said.
LEMMA EndingKeepsIInv ==
    ASSUME IInv, UNCHANGED <<setting, adapterVars>>,
           \/ \E r \in Requests : TaskExpires(r)
           \/ \E r \in Requests, c \in Clocks : DeadlinePasses(r, c)
           \/ Close
    PROVE  IInv'
<1> USE DEF IInv, adapterVars
<1>1. CASE \E r \in Requests : TaskExpires(r)
  <2> USE DEF TaskExpires, Late
  <2>1. RouterTypeOK'
    BY <1>1, StateFacts DEF TypeOK, RouterTypeOK
  <2>2. AdapterTypeOK' /\ WorldTypeOK'
    BY <1>1 DEF TypeOK, AdapterTypeOK, WorldTypeOK
  <2>3. OutcomesAgree' /\ Heard' /\ Relayed'
    BY <1>1 DEF OutcomesAgree, Heard, Relayed
  <2>4. RecordMatchesCompletion'
    BY <1>1, StateFacts DEF RecordMatchesCompletion, TypeOK, RouterTypeOK, IsActive
  <2> QED
    BY <2>1, <2>2, <2>3, <2>4 DEF TypeOK
<1>2. CASE \E r \in Requests, c \in Clocks : DeadlinePasses(r, c)
  <2> USE DEF DeadlinePasses
  <2>1. RouterTypeOK' /\ AdapterTypeOK'
    BY <1>2 DEF TypeOK, RouterTypeOK, AdapterTypeOK
  <2>2. WorldTypeOK'
    BY <1>2 DEF TypeOK, WorldTypeOK
  <2>3. OutcomesAgree' /\ Heard' /\ Relayed' /\ RecordMatchesCompletion'
    BY <1>2 DEF OutcomesAgree, Heard, Relayed, RecordMatchesCompletion
  <2> QED
    BY <2>1, <2>2, <2>3 DEF TypeOK
<1>3. CASE Close
  <2> USE DEF Close
  <2>1. RouterTypeOK'
    BY <1>3, BoundsAssumption DEF TypeOK, RouterTypeOK
  <2>2. AdapterTypeOK' /\ WorldTypeOK'
    BY <1>3 DEF TypeOK, AdapterTypeOK, WorldTypeOK
  <2>3. OutcomesAgree'
    BY <1>3 DEF OutcomesAgree, Admissions
  <2>4. RecordMatchesCompletion' /\ Heard' /\ Relayed'
    BY <1>3 DEF RecordMatchesCompletion, Heard, Relayed
  <2> QED
    BY <2>1, <2>2, <2>3, <2>4 DEF TypeOK
<1> QED
  BY <1>1, <1>2, <1>3

\* A bound adapter tells a session only how its own requests ended.
LEMMA AdapterKeepsIInv ==
    ASSUME IInv, AdapterStep, UNCHANGED setting
    PROVE  IInv'
<1> USE DEF IInv
<1>0. UNCHANGED <<task, due, sends, pending, exchanges, admission, completion, closed, net,
                  promised, life, overlapped>>
  BY DEF AdapterStep
<1>1. setting.maxSessions \in Nat /\ binds \in Nat /\ binds <= setting.maxSessions
  BY BoundsAssumption DEF TypeOK, AdapterTypeOK, WorldTypeOK, Setting
<1>2. RouterTypeOK'
  BY <1>0 DEF TypeOK, RouterTypeOK
<1>3. WorldTypeOK'
  BY <1>0 DEF TypeOK, WorldTypeOK
<1>4. OutcomesAgree' /\ RecordMatchesCompletion' /\ Heard'
  BY <1>0 DEF OutcomesAgree, RecordMatchesCompletion, Heard
<1>5. CASE BindAdapter \/ ClearAdapter
  <2>1. AdapterTypeOK'
    <3>1. /\ binds' \in 0..setting.maxSessions
          /\ session' \in 0..binds'
          /\ \A k \in 0..binds : k \in 0..binds'
      BY <1>1, <1>5 DEF BindAdapter, ClearAdapter, TypeOK, AdapterTypeOK
    <3>2. UNCHANGED <<sender, told>>
      BY <1>5 DEF BindAdapter, ClearAdapter
    <3>3. sender' \in [Requests -> 0..binds']
      BY <3>1, <3>2 DEF TypeOK, AdapterTypeOK
    <3>4. told' \in [Requests -> [session : 0..binds', outcome : TerminalOutcomes \cup {NoOutcome}]]
      BY <3>1, <3>2 DEF TypeOK, AdapterTypeOK
    <3> QED
      BY <3>1, <3>3, <3>4 DEF AdapterTypeOK
  <2>2. Relayed'
    BY <1>0, <1>5 DEF BindAdapter, ClearAdapter, Relayed
  <2> QED
    BY <1>2, <1>3, <1>4, <2>1, <2>2 DEF TypeOK
<1>6. ASSUME NEW r \in Requests, InjectTerminal(r) PROVE IInv'
  <2>1. /\ completion[r] \in TerminalOutcomes
        /\ told' = [told EXCEPT ![r] = [session |-> InjectedInto(r), outcome |-> completion[r]]]
        /\ UNCHANGED <<binds, session, sender>>
    BY <1>6 DEF InjectTerminal
  <2>2. InjectedInto(r) \in 0..binds /\ (InjectedInto(r) # 0 => InjectedInto(r) = sender[r])
    BY <1>1 DEF InjectedInto, TypeOK, AdapterTypeOK
  <2>3. AdapterTypeOK'
    BY <2>1, <2>2 DEF TypeOK, AdapterTypeOK
  <2>4. Relayed'
    BY <1>0, <2>1, <2>2, StateFacts DEF Relayed, TypeOK, AdapterTypeOK, NoOutcome
  <2> QED
    BY <1>2, <1>3, <1>4, <2>3, <2>4 DEF TypeOK
<1> QED
  BY <1>5, <1>6 DEF AdapterStep

\* What the peer does is the router's to hear of, and changes nothing that it knows.
LEMMA PeerKeepsIInv ==
    ASSUME IInv, NEW r \in Requests, UNCHANGED <<setting, adapterVars>>,
           \/ \E n \in Sends, a \in Answers : PeerAnswers(r, n, a)
           \/ PeerActs(r)
           \/ PeerReplies(r)
    PROVE  IInv'
<1> USE DEF IInv, adapterVars
<1>0. UNCHANGED <<task, due, sends, pending, exchanges, admission, completion, closed, overlapped>>
  BY DEF PeerAnswers, PeerActs, PeerReplies
<1>1. RouterTypeOK' /\ AdapterTypeOK' /\ RecordMatchesCompletion' /\ Relayed'
  BY <1>0 DEF TypeOK, RouterTypeOK, AdapterTypeOK, RecordMatchesCompletion, Relayed
<1>l. life[r] \in Peer!Life /\ life \in [Requests -> Peer!Life] /\ NoOutcome = Absent
  BY DEF TypeOK, WorldTypeOK, NoOutcome
<1>f. ASSUME NEW next \in Peer!Life, life' = [life EXCEPT ![r] = next],
             next.stage = "unknown" => life[r].stage = "unknown",
             life[r].reply # NoOutcome => next.reply = life[r].reply,
             next.stage = "decided" => next.outcome \in TerminalOutcomes,
             \/ UNCHANGED promised
             \/ /\ life[r].stage = "unknown" /\ next.stage # "unknown"
                /\ \E a \in Admissions : promised' = [promised EXCEPT ![r] = a],
             net' \subseteq Message,
             \A q \in Requests, o \in TerminalOutcomes :
                Reply(q, o) \in net' => Reply(q, o) \in net \/ (q = r /\ next.reply = o),
             \A q \in Requests, n \in Sends, a \in Admissions :
                Response(q, n, a) \in net' =>
                    Response(q, n, a) \in net \/ (q = r /\ promised'[q] = a)
      PROVE  IInv'
  <2>1. /\ \A q \in Requests : q # r => life'[q] = life[q] /\ promised'[q] = promised[q]
        /\ life'[r] = next
        /\ promised[r] # Absent => promised'[r] = promised[r]
        /\ promised'[r] # Absent => next.stage # "unknown"
    BY <1>l, <1>f, StateFacts DEF Heard, TypeOK, WorldTypeOK
  <2>2. WorldTypeOK'
    <3>1. life' \in [Requests -> Peer!Life]
      BY <1>l, <1>f
    <3>2. promised' \in [Requests -> Admissions \cup {Absent}]
      BY <1>f DEF TypeOK, WorldTypeOK
    <3> QED
      BY <1>0, <1>f, <3>1, <3>2 DEF TypeOK, WorldTypeOK
  <2>3. Heard'
    <3>1. ASSUME NEW q \in Requests, NEW o \in TerminalOutcomes, Reply(q, o) \in net'
          PROVE  life'[q].reply = o
      BY <1>f, <1>l, <2>1, <3>1, StateFacts DEF Heard
    <3>2. ASSUME NEW q \in Requests, NEW n \in Sends, NEW a \in Admissions,
                 Response(q, n, a) \in net'
          PROVE  promised'[q] = a
      BY <1>f, <2>1, <3>2, StateFacts DEF Heard
    <3>3. \A q \in Requests : promised'[q] # Absent => life'[q].stage # "unknown"
      BY <2>1 DEF Heard
    <3>4. \A q \in Requests : life'[q].stage = "decided" => life'[q].outcome \in TerminalOutcomes
      BY <1>f, <2>1 DEF Heard
    <3> QED
      BY <3>1, <3>2, <3>3, <3>4 DEF Heard
  <2>4. OutcomesAgree'
    <3>1. \A q \in Requests : completion[q] \in TerminalOutcomes => completion[q] = life'[q].reply
      BY <1>f, <1>l, <2>1, StateFacts DEF OutcomesAgree
    <3>2. \A q \in Requests, n \in Sends : admission[q][n] \in Admissions =>
             promised'[q] = admission[q][n] /\ life'[q].stage # "unknown"
      BY <1>f, <2>1, StateFacts DEF OutcomesAgree
    <3> QED
      BY <1>0, <3>1, <3>2 DEF OutcomesAgree
  <2> QED
    BY <1>1, <2>2, <2>3, <2>4 DEF TypeOK
<1>2. ASSUME NEW n \in Sends, NEW a \in Answers, PeerAnswers(r, n, a) PROVE IInv'
  <2>1. /\ net' = (net \ {Request(r, n)}) \cup {Response(r, n, a)}
        /\ net' \subseteq Message
    BY <1>2, MessageTypes DEF PeerAnswers, TypeOK, WorldTypeOK
  <2>2. /\ \A q \in Requests, o \in TerminalOutcomes : Reply(q, o) \in net' => Reply(q, o) \in net
        /\ \A q \in Requests, m \in Sends, b \in Admissions :
              Response(q, m, b) \in net' => Response(q, m, b) \in net \/ (q = r /\ b = a)
    BY <2>1, MessagesDiffer
  <2>3. CASE /\ a \in Refusals \/ promised[r] = a
             /\ UNCHANGED <<promised, life>>
    <3>1. life' = [life EXCEPT ![r] = life[r]]
      BY <1>l, <2>3
    <3>2. life[r].stage = "decided" => life[r].outcome \in TerminalOutcomes
      BY DEF Heard
    <3>3. \A q \in Requests, m \in Sends, b \in Admissions :
             Response(q, m, b) \in net' => Response(q, m, b) \in net \/ (q = r /\ promised'[q] = b)
      BY <2>2, <2>3, StateFacts
    <3> QED
      BY <1>l, <1>f, <2>1, <2>2, <2>3, <3>1, <3>2, <3>3
  <2>4. CASE /\ a \in Admissions
             /\ life[r].stage = "unknown"
             /\ promised' = [promised EXCEPT ![r] = a]
             /\ life' = [life EXCEPT ![r].stage = IF a = "accepted" THEN "running" ELSE "waiting"]
    <3> DEFINE next == [life[r] EXCEPT !.stage = IF a = "accepted" THEN "running" ELSE "waiting"]
    <3>1. /\ next \in Peer!Life /\ next.stage \in {"running", "waiting"}
          /\ next.reply = life[r].reply
          /\ life' = [life EXCEPT ![r] = next]
      BY <1>l, <2>4 DEF Peer!Life, Peer!Stages
    <3>2. promised'[r] = a
      BY <2>4 DEF TypeOK, WorldTypeOK
    <3>3. /\ life[r].stage = "unknown"
          /\ \E b \in Admissions : promised' = [promised EXCEPT ![r] = b]
      BY <2>4
    <3> HIDE DEF next
    <3>4. \A q \in Requests, m \in Sends, b \in Admissions :
             Response(q, m, b) \in net' => Response(q, m, b) \in net \/ (q = r /\ promised'[q] = b)
      BY <2>2, <3>2
    <3> QED
      BY <1>f, <2>1, <2>2, <3>1, <3>3, <3>4
  <2>5. CASE /\ a \in Refusals
             /\ life[r].stage = "unknown"
             /\ life' = [life EXCEPT ![r].stage = "decided", ![r].outcome = "expired"]
             /\ UNCHANGED promised
    <3> DEFINE next == [life[r] EXCEPT !.stage = "decided", !.outcome = "expired"]
    <3>1. /\ next \in Peer!Life /\ next.stage = "decided" /\ next.outcome = "expired"
          /\ next.reply = life[r].reply
          /\ life' = [life EXCEPT ![r] = next]
      BY <1>l, <2>5, StateFacts DEF Peer!Life, Peer!Stages
    <3> HIDE DEF next
    <3> QED
      BY <1>f, <2>1, <2>2, <2>5, <3>1, StateFacts
  <2> QED
    BY <1>2, <2>3, <2>4, <2>5 DEF PeerAnswers
<1>3. CASE PeerActs(r)
  <2>1. PICK next \in Peer!Life :
           /\ next.stage # life[r].stage
           /\ next.reply = life[r].reply
           /\ Peer!MayBecome(life[r], next)
           /\ life' = [life EXCEPT ![r] = next]
    BY <1>3 DEF PeerActs
  <2>2. /\ next.stage # "unknown"
        /\ next.stage = "decided" => next.outcome \in TerminalOutcomes
    BY <2>1, <1>l DEF Peer!MayBecome, Peer!Onwards, Peer!Life, Peer!Stages
  <2>3. UNCHANGED <<net, promised>> /\ net \subseteq Message
    BY <1>3 DEF PeerActs, TypeOK, WorldTypeOK
  <2> QED
    BY <1>f, <2>1, <2>2, <2>3
<1>4. CASE PeerReplies(r)
  <2> DEFINE outcome == life[r].outcome
             next == [life[r] EXCEPT !.reply = outcome]
  <2>1. /\ outcome \in TerminalOutcomes /\ life[r].reply = NoOutcome
        /\ life' = [life EXCEPT ![r] = next]
        /\ net' = net \cup {Reply(r, outcome)}
        /\ UNCHANGED promised
    BY <1>4 DEF PeerReplies, Heard
  <2>2. /\ next \in Peer!Life /\ next.stage = life[r].stage
        /\ next.reply = outcome /\ next.outcome = outcome
    BY <1>l, <2>1 DEF Peer!Life
  <2> HIDE DEF next, outcome
  <2>3. net' \subseteq Message
    BY <2>1, MessageTypes DEF TypeOK, WorldTypeOK
  <2>4. /\ \A q \in Requests, o \in TerminalOutcomes :
              Reply(q, o) \in net' => Reply(q, o) \in net \/ (q = r /\ next.reply = o)
        /\ \A q \in Requests, m \in Sends, b \in Admissions :
              Response(q, m, b) \in net' => Response(q, m, b) \in net
    BY <2>1, <2>2, MessagesDiffer
  <2> QED
    BY <1>f, <2>1, <2>2, <2>3, <2>4
<1> QED
  BY <1>2, <1>3, <1>4

\* No step of the router, the adapter, the network or the peer breaks the invariant.
LEMMA NextKeepsIInv == ASSUME IInv, [Next]_vars PROVE IInv'
<1>1. ASSUME NEW r \in Requests, CreateRequest(r), UNCHANGED setting PROVE IInv'
  BY <1>1, SendKeepsIInv DEF CreateRequest
<1>2. ASSUME NEW r \in Requests, Step(r), UNCHANGED <<setting, adapterVars>> PROVE IInv'
  <2>1. CASE SendAgain(r)
    BY <1>2, <2>1, SendKeepsIInv DEF SendAgain
  <2>2. CASE \E n \in Sends : SendFails(r, n)
    BY <1>2, <2>2, SendFailsKeepsIInv
  <2>3. CASE \E n \in Sends, a \in Answers : ResponseArrives(r, n, a)
    BY <1>2, <2>3, ResponseKeepsIInv
  <2>4. CASE \E o \in TerminalOutcomes : ReplyArrives(r, o)
    BY <1>2, <2>4, ReplyKeepsIInv
  <2>5. CASE TaskExpires(r) \/ \E c \in Clocks : DeadlinePasses(r, c)
    BY <1>2, <2>5, EndingKeepsIInv
  <2>6. CASE \/ \E n \in Sends, a \in Answers : PeerAnswers(r, n, a)
             \/ PeerActs(r)
             \/ PeerReplies(r)
    BY <1>2, <2>6, PeerKeepsIInv
  <2> QED
    BY <1>2, <2>1, <2>2, <2>3, <2>4, <2>5, <2>6 DEF Step
<1>3. CASE Close /\ UNCHANGED <<setting, adapterVars>>
  BY <1>3, EndingKeepsIInv
<1>4. CASE AdapterStep /\ UNCHANGED setting
  BY <1>4, AdapterKeepsIInv
<1>5. CASE UNCHANGED vars
  BY <1>5 DEF vars, IInv, TypeOK, RouterTypeOK, AdapterTypeOK, WorldTypeOK, OutcomesAgree,
     RecordMatchesCompletion, Heard, Relayed
<1> QED
  BY <1>1, <1>2, <1>3, <1>4, <1>5 DEF Next

\* The promises, the record, the network and the peer tell one story at all times.
THEOREM Invariance == Spec => []IInv
<1>1. Init => IInv
  BY InitIInv
<1>2. IInv /\ [Next]_vars => IInv'
  BY NextKeepsIInv
<1> QED
  BY <1>1, <1>2, PTL DEF Spec

\* Whatever the network does and however often a request is sent, the requester and
\* its session are told what the peer decided and nothing else.
THEOREM TruthfulAlways == Spec => []Truthful
<1>1. IInv => Truthful
  <2>1. ASSUME IInv PROVE SendersAreTold
    BY <2>1, StateFacts DEF IInv, Relayed, OutcomesAgree, SendersAreTold, TypeOK, AdapterTypeOK
  <2> QED
    BY <2>1 DEF IInv, Truthful
<1> QED
  BY <1>1, Invariance, PTL

-----------------------------------------------------------------------------
\* A request that was not registered has no record.
Unsent == \A r \in Requests : completion[r] = "none" => task[r] = Absent

\* What a step may do to the record and the completion of a request: nothing, create
\* them, move an undecided record, decide it with a reply in time, or remove it.
Kept(q)     == task'[q] = task[q] /\ completion'[q] = completion[q]
Created(q)  == completion[q] = "none" /\ completion'[q] = "pending"
Moved(q)    == IsActive(task[q]) /\ completion'[q] = completion[q]
Resolved(q) == IsActive(task[q]) /\ due[q] = {} /\ completion'[q] # "none"
Removed(q)  == task'[q] = Absent /\ completion'[q] = completion[q]

LEMMA RecordStep ==
    ASSUME IInv, [Next]_vars, NEW q \in Requests
    PROVE  Kept(q) \/ Created(q) \/ Moved(q) \/ Resolved(q) \/ Removed(q)
<1> USE DEF IInv, TypeOK, RouterTypeOK, WorldTypeOK, Kept
<1>1. ASSUME NEW r \in Requests, CreateRequest(r) PROVE Kept(q) \/ Created(q)
  BY <1>1 DEF CreateRequest, Created
<1>2. ASSUME NEW r \in Requests, Step(r) PROVE Kept(q) \/ Moved(q) \/ Resolved(q)
  <2>1. CASE \E n \in Sends, a \in Answers : ResponseArrives(r, n, a)
    <3>1. PICK n \in Sends, a \in Answers : ResponseArrives(r, n, a)
      BY <2>1
    <3>2. completion' = completion /\ (q # r => task'[q] = task[q])
      BY <3>1 DEF ResponseArrives
    <3>3. q = r => IsActive(task[q]) \/ task'[q] = task[q]
      BY <3>1, AdmittedKeepsKind DEF ResponseArrives, Late
    <3> QED
      BY <3>2, <3>3 DEF Moved
  <2>2. CASE \E o \in TerminalOutcomes : ReplyArrives(r, o)
    <3>1. PICK o \in TerminalOutcomes : ReplyArrives(r, o)
      BY <2>2
    <3>2. q # r => Kept(q)
      BY <3>1 DEF ReplyArrives, Finish
    <3>3. IsActive(task[r]) /\ due[r] = {}
      BY <3>1 DEF ReplyArrives, InTime, Clocks
    <3>4. completion'[r] # "none"
      <4>1. completion[r] = "pending"
        BY <3>1, <3>3 DEF ReplyArrives, RecordMatchesCompletion
      <4> QED
        BY <3>1, <4>1, StateFacts DEF ReplyArrives, Finish
    <3> QED
      BY <3>2, <3>3, <3>4 DEF Resolved
  <2>3. CASE TaskExpires(r)
    BY <2>3 DEF TaskExpires, Late, Moved
  <2>4. CASE SendAgain(r) \/ (\E n \in Sends : SendFails(r, n)) \/ \E c \in Clocks : DeadlinePasses(r, c)
    BY <2>4 DEF SendAgain, SendFails, DeadlinePasses
  <2>5. CASE \/ \E n \in Sends, a \in Answers : PeerAnswers(r, n, a)
             \/ PeerActs(r)
             \/ PeerReplies(r)
    BY <2>5 DEF PeerAnswers, PeerActs, PeerReplies
  <2> QED
    BY <1>2, <2>1, <2>2, <2>3, <2>4, <2>5 DEF Step
<1>3. Close => Removed(q)
  BY DEF Close, Removed
<1>4. AdapterStep \/ UNCHANGED vars => Kept(q)
  BY DEF AdapterStep, vars
<1> QED
  BY <1>1, <1>2, <1>3, <1>4 DEF Next

\* A record is not there before its request is registered.
LEMMA UnsentStep == ASSUME IInv, Unsent, [Next]_vars PROVE Unsent'
<1>1. ASSUME NEW q \in Requests, completion'[q] = "none" PROVE task'[q] = Absent
  <2>1. IsActive(task[q]) => completion[q] # "none"
    <3>1. CASE ~closed
      BY <3>1 DEF IInv, RecordMatchesCompletion
    <3>2. Absent \notin ActiveStates
      BY StateFacts
    <3> QED
      BY <3>2 DEF Unsent, IsActive
  <2> QED
    BY <1>1, <2>1, RecordStep DEF Unsent, Kept, Created, Moved, Resolved, Removed
<1> QED
  BY <1>1 DEF Unsent

\* sendRequest registers the request before it creates the record: what was never sent is
\* not on record.
THEOREM UnsentAlways == Spec => []Unsent
<1>1. Init => Unsent
  BY DEF Init, Unsent
<1>2. IInv /\ Unsent /\ [Next]_vars => Unsent'
  BY UnsentStep
<1> QED
  BY <1>1, <1>2, Invariance, PTL DEF Spec

\* A told request was told by one step of the adapter, to the session of that moment.
LEMMA ToldStep ==
    ASSUME IInv, [Next]_vars, NEW q \in Requests, told'[q] # told[q]
    PROVE  told[q].session = 0 /\ told'[q].session \in {0, session}
<1> USE DEF IInv, TypeOK, AdapterTypeOK
<1>1. PICK r \in Requests : InjectTerminal(r)
  <2>1. told' # told
    OBVIOUS
  <2>2. ASSUME NEW r \in Requests, CreateRequest(r) PROVE told' = told
    BY <2>2 DEF CreateRequest
  <2>3. AdapterStep
    BY <2>1, <2>2 DEF Next, adapterVars, vars
  <2> QED
    BY <2>1, <2>3 DEF AdapterStep, BindAdapter, ClearAdapter
<1>2. q = r /\ told[q].outcome = NoOutcome
  BY <1>1 DEF InjectTerminal
<1>3. told'[q].session = InjectedInto(q)
  BY <1>1, <1>2 DEF InjectTerminal
<1> QED
  BY <1>2, <1>3 DEF Relayed, InjectedInto

\* A decided record of a request stands until the store is disposed, whatever answer,
\* reply or timer comes after it; no result reaches the requester after its deadline;
\* and a session is told once, while it is there.
THEOREM ResultsStandAlways == Spec => ResultsStand
<1>1. IInv /\ Unsent /\ [Next]_vars =>
         [\A r \in Requests : IsTerminal(task[r]) => task'[r] \in {task[r], Absent}]_vars
  <2>1. ASSUME IInv, Unsent, [Next]_vars, NEW q \in Requests, IsTerminal(task[q])
        PROVE  task'[q] \in {task[q], Absent}
    <3>1. ~IsActive(task[q]) /\ task[q] # Absent
      BY <2>1, StateFacts DEF IsTerminal, IsActive
    <3> QED
      BY <2>1, <3>1, RecordStep DEF Unsent, Kept, Created, Moved, Resolved, Removed
  <2> QED
    BY <2>1
<1>2. IInv /\ [Next]_vars =>
         [\A r \in Requests : completion'[r] \in TerminalOutcomes /\ completion[r] = "pending"
             => due[r] = {}]_vars
  <2>1. ASSUME IInv, [Next]_vars, NEW q \in Requests,
               completion'[q] \in TerminalOutcomes, completion[q] = "pending"
        PROVE  due[q] = {}
    BY <2>1, RecordStep, StateFacts DEF Kept, Created, Moved, Resolved, Removed
  <2> QED
    BY <2>1
<1>3. IInv /\ [Next]_vars =>
         [\A r \in Requests : told'[r] # told[r] =>
             told[r].session = 0 /\ told'[r].session \in {0, session}]_vars
  BY ToldStep
<1> QED
  BY <1>1, <1>2, <1>3, Invariance, UnsentAlways, PTL
  DEF Spec, ResultsStand, DecidedStays, NoLateResult, ToldOnceWhileThere
=============================================================================
