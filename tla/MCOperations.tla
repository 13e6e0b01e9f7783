---------------------------- MODULE MCOperations ----------------------------
(***************************************************************************)
(* An asker with two ids, of which two envelopes may share one.            *)
(***************************************************************************)
EXTENDS Operations

Lifetime == -1..(LastBuild + 1 + MaxRequestTtl)
Keys2    == {Asker, Stranger} \X AskerIds
Prints2  ==
    [operation : OperationNames, requestId : AskerIds \cup {Missing}, createdAt : -1..(LastBuild + 1),
     expiresAt : 0..(LastBuild + 1 + MaxRequestTtl), content : {"text", "json", Missing},
     contract : {"schema", Missing}]
Expiry2  == [p \in Prints2 |-> p.expiresAt]
Results2 ==
    {Delivered, Failed}
    \cup [requestId : AskerIds, state : AdmissionStates]
    \cup [requestId : AskerIds, state : {"cancelling", "cancelled"}, createdAt : Lifetime,
          updatedAt : -1..MaxNow, expiresAt : 0..MaxNow, requestedAt : 0..MaxNow \cup {Missing},
          terminalOutcome : {"cancelled", Missing}, content : {Missing},
          error : {Missing, ProtocolError("cancelled")}]
AllIds   == AskerIds \cup {ReplyId}
Everyone == {Asker, Answerer, Stranger}

Questions   == {"message.request", "task.status", "task.cancel"}
Lifetimes   == {"longest", "brief"}
Settings3 ==
    \* Clocks that differ by the tolerance.
    [offset : {-MaxSkew, MaxSkew}, operations : {Questions}, senders : {{Asker}},
     lifetimes : {Lifetimes}, contracts : {{"schema"}}]
    \* A stranger sends the same.
    \cup [offset : {0}, operations : {{"message.request", "task.cancel"}},
          senders : {{Asker, Stranger}}, lifetimes : {{"longest"}}, contracts : {{Missing}}]
    \* Notifications, which two handlers await.
    \cup [offset : {0}, operations : {{"message.notify", "peer.describe"}},
          senders : {{Asker}}, lifetimes : {Lifetimes}, contracts : {{Missing}}]
=============================================================================
