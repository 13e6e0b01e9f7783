------------------------------ MODULE Envelopes ------------------------------
(***************************************************************************)
(* The operations of the wire protocol: the envelopes that router/router.ts*)
(* builds, and what protocol/validation.ts and authorizeInbound accept.    *)
(* Constant definitions only.                                              *)
(*                                                                         *)
(* An envelope is a record with all the fields there are.  A field that is *)
(* absent is Missing, one whose value no check accepts is Malformed.  What *)
(* is left out: the sizes of envelopes, the format of identifiers and of   *)
(* timestamps, and the agent card that peer.describe returns.              *)
(***************************************************************************)
EXTENDS TaskStates, Integers

CONSTANTS Missing, Malformed,
          Ids,              \* UUIDs
          Runtimes,
          Room,             \* the room of the runtimes
          MaxRequestTtl,    \* limits.maxRequestTtlMs
          MaxControlTtl,    \* limits.maxControlTtlMs
          MaxSkew           \* MAX_CLOCK_SKEW_MS

ASSUME LimitsAssumption ==
    /\ MaxRequestTtl \in Nat \ {0}
    /\ MaxControlTtl \in Nat \ {0}
    /\ MaxSkew \in Nat

Control == {"peer.describe", "task.status", "task.cancel"}
OperationNames == Control \cup {"message.request", "message.reply", "message.notify"}

MaxTtl(operation) == IF operation \in Control THEN MaxControlTtl ELSE MaxRequestTtl

-----------------------------------------------------------------------------
(* Errors, content and payloads. *)

ErrorCodes ==
    {"malformed", "incompatible", "expired", "cross_room", "ambiguous", "busy", "unauthorized",
     "oversized", "duplicate", "cancelled", "unreachable", "not_found", "not_cancelable",
     "invalid_content", "invalid_reply", "internal"}

Retryable(code) == code \in {"busy", "unreachable"}

\* createProtocolError.
ProtocolError(code) == [code |-> code, retryable |-> Retryable(code), retryAfterMs |-> Missing]

\* validateProtocolErrorValue: the delay of a retry must be a positive number.
IsError(error) ==
    /\ error \notin {Missing, Malformed}
    /\ error.code \in ErrorCodes
    /\ error.retryable = Retryable(error.code)
    /\ error.retryAfterMs = Missing \/ (error.retryAfterMs \in Nat \ {0} /\ error.retryable)

\* Content is a text, or a JSON value, which satisfies the schema or does not.
Contents == {"text", "json", "other json"}

\* Missing and Malformed are not among the values that a field may have.
ASSUME MarksAssumption ==
    /\ Missing # Malformed
    /\ \A mark \in {Missing, Malformed} :
          /\ mark \notin Int
          /\ mark \notin Ids \cup Runtimes \cup {Room}
          /\ mark \notin OperationNames \cup Contents \cup {"1.0", "schema"}

\* validateTypedContentInternal: content without a type is malformed.
ContentIssue(content) ==
    IF content = Malformed THEN "malformed"
    ELSE IF content \in Contents THEN "none" ELSE "invalid_content"

\* validateReplyContent against the expectedResponse of the request.
Fits(content, contract) == contract = Missing \/ content = "json"

\* A payload in which nothing is given.
EmptyPayload ==
    [content |-> Missing, contract |-> Missing, outcome |-> Missing, error |-> Missing,
     option |-> Missing]

\* A reply that is not `completed' has no content, and an error it can do without
\* only when the outcome says it all.
IsRefusal(payload) ==
    /\ payload.outcome \in TerminalOutcomes
    /\ payload.content = Missing
    /\ \/ payload.error = Missing /\ payload.outcome \in {"cancelled", "expired"}
       \/ payload.error # Missing /\ IsError(payload.error)

\* validatePayloadInternal: what is wrong with a payload, or "none".  `option' stands
\* for requestedProtocolVersion, metadata, includeTerminalResponse or reason.
PayloadIssue(operation, payload) ==
    LET content == ContentIssue(payload.content)
        unless(sound, code) == IF sound THEN "none" ELSE code
        options(code) == unless(payload.option # Malformed, code)
    IN CASE operation = "message.request" ->
              IF content # "none" THEN content
              ELSE IF payload.contract = "text" THEN "incompatible"
              ELSE IF payload.contract = Malformed THEN "malformed" ELSE options("invalid_content")
         [] operation = "message.notify" ->
              IF content # "none" THEN content ELSE options("invalid_content")
         [] operation = "message.reply" ->
              IF payload.outcome # "completed" THEN unless(IsRefusal(payload), "malformed")
              ELSE IF content # "none" THEN content ELSE unless(payload.error = Missing, "malformed")
         [] operation = "peer.describe" ->
              IF payload.option \in {Missing, "1.0", Malformed} THEN options("malformed")
              ELSE "incompatible"
         [] operation \in {"task.status", "task.cancel"} -> options("malformed")

-----------------------------------------------------------------------------
(* validateEnvelope. *)

\* validateEnvelopeOperationIds: a request names itself, and what targets a
\* request is an operation of its own.
IdsMatch(e) ==
    /\ e.operationId \in Ids
    /\ \/ e.operation = "message.request" /\ e.requestId = e.operationId
       \/ /\ e.operation \in {"message.reply", "task.status", "task.cancel"}
          /\ e.requestId \in Ids \ {e.operationId}
       \/ e.operation \in {"peer.describe", "message.notify"} /\ e.requestId = Missing

\* The timestamps, as seen at `now'.
SkewIgnored(e, now) ==
    /\ e.createdAt \in Int /\ e.expiresAt \in Int
    /\ e.createdAt < e.expiresAt
    /\ e.expiresAt - e.createdAt <= MaxTtl(e.operation)
    /\ e.createdAt <= now
Dated(e, now) ==
    /\ e.createdAt \in Int /\ e.expiresAt \in Int
    /\ e.createdAt < e.expiresAt
    /\ e.expiresAt - e.createdAt <= MaxTtl(e.operation)
    /\ e.createdAt <= now + MaxSkew

WellFormed(e, now) ==
    /\ IdsMatch(e)
    /\ e.parentOperationId \in Ids \cup {Missing}
    /\ e.sender \in Runtimes
    /\ e.recipientRuntimeId \in Runtimes
    /\ e.roomId # Malformed
    /\ Dated(e, now)

Required == {"protocolVersion", "operation", "operationId", "sender", "recipientRuntimeId",
             "roomId", "createdAt", "expiresAt", "payload"}

\* The first check that fails, or "none".
Issue(e, now) ==
    IF \E field \in Required : e[field] = Missing THEN "malformed"
    ELSE IF e.protocolVersion = Malformed THEN "malformed"
    ELSE IF e.protocolVersion # "1.0" THEN "incompatible"
    ELSE IF e.operation = Malformed THEN "malformed"
    ELSE IF e.operation \notin OperationNames THEN "incompatible"
    ELSE IF ~WellFormed(e, now) THEN "malformed"
    ELSE IF e.expiresAt <= now THEN "expired"
    ELSE IF e.payload = Malformed THEN "malformed"
    ELSE PayloadIssue(e.operation, e.payload)

\* authorizeInbound of a runtime, for a binding that claims to be `peer': what
\* is wrong, or "none".  It comes before validation.
AuthorizationIssue(e, runtime, peer) ==
    IF e.sender # Missing /\ e.sender # peer THEN "unauthorized"
    ELSE IF e.roomId # Missing /\ e.roomId # Room THEN "cross_room"
    ELSE IF e.recipientRuntimeId # Missing /\ e.recipientRuntimeId # runtime
    THEN "unauthorized" ELSE "none"

-----------------------------------------------------------------------------
(* validateOperationResponse. *)

\* validateTaskSnapshotInternal: the snapshot of a task, seen at `now'.  A task that
\* was not asked to stop has no `requestedAt'.
SnapshotIssue(s, now, expected) ==
    IF \/ s.requestId \notin Ids \/ s.requestId # expected
       \/ s.state \notin TaskState
       \/ s.updatedAt < s.createdAt
       \/ s.expiresAt <= s.createdAt
       \/ s.expiresAt - s.createdAt > MaxRequestTtl
       \/ s.createdAt > now + MaxSkew \/ s.updatedAt > now + MaxSkew
    THEN "malformed"
    ELSE IF s.expiresAt <= now THEN "expired"
    ELSE IF \/ s.updatedAt > s.expiresAt /\ s.state # "expired"
            \/ /\ s.requestedAt # Missing
               /\ ~(s.requestedAt >= s.createdAt /\ s.requestedAt <= now + MaxSkew
                       /\ s.requestedAt <= s.expiresAt)
            \/ s.terminalOutcome # (IF IsTerminal(s.state) THEN s.state ELSE Missing)
            \/ s.error # Missing /\ (~IsError(s.error) \/ s.content # Missing)
    THEN "malformed"
    ELSE IF s.content = Missing THEN "none" ELSE ContentIssue(s.content)

\* validateResultForOperation.  A result carries what its operation needs.
ResultIssue(operation, operationId, result, now, expected) ==
    LET wants(problem) == IF problem THEN "malformed" ELSE "none"
    IN CASE operation = "message.request" ->
              wants(\/ result.requestId # operationId \/ result.requestId # expected
                    \/ result.state \notin {"accepted", "queued"})
         [] operation \in {"task.status", "task.cancel"} -> SnapshotIssue(result, now, expected)
         [] operation = "message.reply" ->
              wants(\/ result.requestId # expected \/ result.outcome \notin TerminalOutcomes
                    \/ ~result.delivered)
         [] operation = "message.notify" -> wants(~result.delivered)
         [] operation = "peer.describe" -> "none"

\* A response has a result or an error, and belongs to a pending operation.
ResponseIssue(r, now, expected) ==
    IF (r.result = Missing) = (r.error = Missing) THEN "malformed"
    ELSE IF r.error # Missing THEN IF IsError(r.error) THEN "none" ELSE "malformed"
    ELSE ResultIssue(r.operation, r.operationId, r.result, now, expected)

\* responseFor: the answer to an envelope, and that of a refusal.
Response(e, result) ==
    [operation |-> e.operation, operationId |-> e.operationId, result |-> result, error |-> Missing]
ErrorResponse(e, code) ==
    [operation |-> e.operation, operationId |-> e.operationId, result |-> Missing,
     error |-> ProtocolError(code)]

-----------------------------------------------------------------------------
(* The envelopes that a router builds. *)

\* deadlineValue: a deadline may be left to the router.
Deadline(operation, wish, now) == IF wish = Missing THEN now + MaxTtl(operation) ELSE wish
DeadlineAllowed(operation, wish, now) ==
    wish = Missing \/ (now < wish /\ wish - now <= MaxTtl(operation))

\* What buildRequestEnvelope, buildNotifyEnvelope, buildControlEnvelope and
\* buildDescribeEnvelope have in common.
Envelope(operation, id, target, from, to, wish, payload, now) ==
    [protocolVersion |-> "1.0", operation |-> operation, operationId |-> id,
     requestId |-> target, sender |-> from, recipientRuntimeId |-> to, roomId |-> Room,
     createdAt |-> now, expiresAt |-> Deadline(operation, wish, now),
     parentOperationId |-> Missing, payload |-> payload]

RequestEnvelope(id, from, to, wish, payload, now) ==
    Envelope("message.request", id, id, from, to, wish, payload, now)
NotifyEnvelope(id, from, to, wish, payload, now) ==
    Envelope("message.notify", id, Missing, from, to, wish, payload, now)
ControlEnvelope(operation, id, target, from, to, wish, now) ==
    Envelope(operation, id, target, from, to, wish, EmptyPayload, now)
DescribeEnvelope(id, from, to, now) ==
    Envelope("peer.describe", id, Missing, from, to, Missing, EmptyPayload, now)

SmallerOf(a, b) == IF a < b THEN a ELSE b

\* The error of an outcome that comes without one.
OwnCode(outcome) ==
    CASE outcome = "failed" -> "internal"
      [] outcome = "rejected" -> "malformed"
      [] outcome \in {"cancelled", "expired"} -> outcome

\* sendTerminalReply, for a request and a snapshot that is terminal: its payload
\* and its envelope, which ends with the request.
ReplyPayload(s) ==
    IF s.state = "completed"
    THEN [EmptyPayload EXCEPT !.outcome = s.state,
                              !.content = IF s.content = Missing THEN "text" ELSE s.content]
    ELSE [EmptyPayload EXCEPT !.outcome = s.state,
                              !.error = IF s.error = Missing THEN ProtocolError(OwnCode(s.state))
                                        ELSE s.error]

ReplyEnvelope(id, request, s, now) ==
    [protocolVersion |-> "1.0", operation |-> "message.reply", operationId |-> id,
     requestId |-> request.operationId, sender |-> request.recipientRuntimeId,
     recipientRuntimeId |-> request.sender, roomId |-> Room,
     createdAt |-> SmallerOf(now, request.expiresAt - 1), expiresAt |-> request.expiresAt,
     parentOperationId |-> request.operationId, payload |-> ReplyPayload(s)]
=============================================================================
