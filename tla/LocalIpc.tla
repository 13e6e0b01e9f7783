------------------------------ MODULE LocalIpc -------------------------------
(***************************************************************************)
(* transport/local-ipc.ts: transports that bind an endpoint, exchange one  *)
(* request and one response on each connection, and close, on POSIX.       *)
(*                                                                         *)
(* A connection has two ends, each with a socket of its own and a decoder; *)
(* between them are two streams of bytes, which arrive in chunks of any    *)
(* size.  Ends that are not a transport of this code are strangers: they   *)
(* write any of a few streams.  The deadlines, the signal of the caller    *)
(* and the errors of a socket have one effect, the failure of that end, so *)
(* they are one action, which is possible at any time.                     *)
(*                                                                         *)
(* bind and close of one transport wait for each other in `lifecycle', the *)
(* chain of promises lifecycleTail.  Other owners of the endpoint's path   *)
(* are left to SocketPath: here the path is free or not.  Left out: the    *)
(* retries of requests on Windows.                                         *)
(***************************************************************************)
EXTENDS FrameCodec, FiniteSets

CONSTANTS Nodes,          \* the transports
          Conns,          \* the connections
          Stranger,       \* whoever is not a transport of this code
          Routes,         \* who may open and who may accept each connection
          Streams,        \* what strangers write
          Request,        \* the payload that is requested on each connection
          Responses,      \* the payloads that handlers return, of any size
          MaxBinds        \* bound: the binds of each transport

ASSUME NodesAssumption == IsFiniteSet(Nodes) /\ Stranger \notin Nodes
ASSUME ConnsAssumption ==
    /\ IsFiniteSet(Conns)
    /\ Routes \subseteq [Conns -> [client : Nodes \cup {Stranger}, server : Nodes \cup {Stranger}]]
ASSUME PayloadAssumption ==
    /\ Streams \subseteq Seq(Byte)
    /\ Request \in [Conns -> Seq(Byte)]
    /\ \A c \in Conns : Encodable(Request[c])
    /\ Responses \subseteq Seq(Byte)
ASSUME BindsAssumption == MaxBinds \in [Nodes -> Nat]

NoPayload == <<>>

VARIABLES
    \* the transports
    closing,      \* close was called: closing and closed
    lifecycle,    \* the binds and the close that have not settled, oldest first
    step,         \* what the oldest of them waits for
    server,       \* its listener: "none", "listening" or "closing"
    handler,      \* whether there is a handler
    path,         \* the endpoint in the file system: "free", "ours" or "taken"
    owned,        \* ownedEndpoint is known
    binds,        \* how often bind was called
    closed,       \* what close came to: "none", "pending", "done" or "failed"
    \* the connections
    route,        \* who opens and who accepts it; it never changes
    client,       \* how far the requester is
    serving,      \* how far the server is
    clientSocket, \* "none", "open", "destroyed", or "closed" after its close event
    serverSocket,
    up, down,     \* the bytes under way in each direction
    clientDecoder,
    serverDecoder,
    calls,        \* history: how often the handler was called
    answered      \* history: what the handler returned

nodeVars == <<closing, lifecycle, step, server, handler, path, owned, binds, closed>>
clientVars == <<client, clientSocket, clientDecoder>>
servingVars == <<serving, serverSocket, serverDecoder, calls, answered>>
vars == <<nodeVars, clientVars, servingVars, up, down, route>>

Init ==
    /\ closing = [n \in Nodes |-> FALSE]
    /\ lifecycle = [n \in Nodes |-> <<>>]
    /\ step = [n \in Nodes |-> "idle"]
    /\ server = [n \in Nodes |-> "none"]
    /\ handler = [n \in Nodes |-> FALSE]
    /\ path \in [Nodes -> {"free", "taken"}]
    /\ owned = [n \in Nodes |-> FALSE]
    /\ binds = [n \in Nodes |-> 0]
    /\ closed = [n \in Nodes |-> "none"]
    /\ route \in Routes
    /\ client = [c \in Conns |-> "idle"]
    /\ serving = [c \in Conns |-> "none"]
    /\ clientSocket = [c \in Conns |-> "none"]
    /\ serverSocket = [c \in Conns |-> "none"]
    /\ up = [c \in Conns |-> <<>>]
    /\ down = [c \in Conns |-> <<>>]
    /\ clientDecoder = [c \in Conns |-> NewDecoder]
    /\ serverDecoder = [c \in Conns |-> NewDecoder]
    /\ calls = [c \in Conns |-> 0]
    /\ answered = [c \in Conns |-> NoPayload]

-----------------------------------------------------------------------------
(* Sockets. *)

ClientOf(c) == route[c].client
ServerOf(c) == route[c].server

Destroyed(socket) == IF socket = "open" THEN "destroyed" ELSE socket

\* serverSockets and clientSockets: a socket leaves them with its close event.
Tracked(socket) == socket \in {"open", "destroyed"}

ServerConns(n) == {c \in Conns : ServerOf(c) = n}
ClientConns(n) == {c \in Conns : ClientOf(c) = n}

SocketsOf(n) == {c \in ServerConns(n) : Tracked(serverSocket[c])}
                    \cup {c \in ClientConns(n) : Tracked(clientSocket[c])}

\* The close event of a socket that was destroyed.
ClientSocketCloses(c) ==
    /\ clientSocket[c] = "destroyed"
    /\ clientSocket' = [clientSocket EXCEPT ![c] = "closed"]
    /\ UNCHANGED <<nodeVars, client, clientDecoder, servingVars, up, down>>

ServerSocketCloses(c) ==
    /\ serverSocket[c] = "destroyed"
    /\ serverSocket' = [serverSocket EXCEPT ![c] = "closed"]
    /\ UNCHANGED <<nodeVars, clientVars, serving, serverDecoder, calls, answered, up, down>>

-----------------------------------------------------------------------------
(* The requester: request and requestOnSocket. *)

Listens(n) == n \in Nodes /\ server[n] = "listening"

\* request, up to the wait for the connection.  A transport that closes refuses.
RequestStarts(c) ==
    /\ ClientOf(c) \in Nodes
    /\ client[c] = "idle"
    /\ IF closing[ClientOf(c)]
       THEN /\ client' = [client EXCEPT ![c] = "rejected"]
            /\ UNCHANGED clientSocket
       ELSE /\ client' = [client EXCEPT ![c] = "connecting"]
            /\ clientSocket' = [clientSocket EXCEPT ![c] = "open"]
    /\ UNCHANGED <<nodeVars, clientDecoder, servingVars, up, down>>

\* The connect event: the frame is written, and the server will see the connection.
Connects(c) ==
    /\ client[c] = "connecting"
    /\ clientSocket[c] = "open"
    /\ ServerOf(c) = Stranger \/ Listens(ServerOf(c))
    /\ client' = [client EXCEPT ![c] = "writing"]
    /\ up' = [up EXCEPT ![c] = Frame(Request[c])]
    /\ serving' = [serving EXCEPT ![c] = IF ServerOf(c) = Stranger THEN "strange" ELSE "arriving"]
    /\ UNCHANGED <<nodeVars, clientSocket, clientDecoder, serverSocket, serverDecoder,
                   calls, answered, down>>

\* writeFrameAndEnd has written the request.
RequestWritten(c) ==
    /\ client[c] = "writing"
    /\ clientSocket[c] = "open"
    /\ client' = [client EXCEPT ![c] = "reading"]
    /\ UNCHANGED <<nodeVars, clientSocket, clientDecoder, servingVars, up, down>>

\* readResponse gets a chunk.  A complete frame waits for two turns of the
\* event loop, in which a byte more still fails it.
ResponseChunk(c) ==
    /\ client[c] \in {"reading", "settling"}
    /\ clientSocket[c] = "open"
    /\ \E k \in 1 .. Len(down[c]) :
       LET d == Push(clientDecoder[c], SubSeq(down[c], 1, k))
       IN /\ down' = [down EXCEPT ![c] = SubSeq(@, k + 1, Len(@))]
          /\ clientDecoder' = [clientDecoder EXCEPT ![c] = d]
          /\ client' = [client EXCEPT ![c] =
                IF Failed(d) THEN "rejected"
                ELSE IF d.status = "complete" THEN "settling" ELSE @]
          /\ clientSocket' = [clientSocket EXCEPT ![c] = IF Failed(d) THEN Destroyed(@) ELSE @]
    /\ UNCHANGED <<nodeVars, servingVars, up>>

\* The request resolves with the payload; its socket is destroyed.
ResponseSettles(c) ==
    /\ client[c] = "settling"
    /\ client' = [client EXCEPT ![c] = "resolved"]
    /\ clientSocket' = [clientSocket EXCEPT ![c] = Destroyed(@)]
    /\ UNCHANGED <<nodeVars, clientDecoder, servingVars, up, down>>

FailsWithItsSocketOpen(c) ==
    /\ client[c] \in {"connecting", "writing", "reading", "settling"}
    /\ client' = [client EXCEPT ![c] = "rejected"]
    /\ UNCHANGED <<nodeVars, clientSocket, clientDecoder, servingVars, up, down>>

\* A deadline, the caller's signal, an error or the end of the socket.
RequestFails(c) ==
    /\ client[c] \in {"connecting", "writing", "reading", "settling"}
    /\ client' = [client EXCEPT ![c] = "rejected"]
    /\ clientSocket' = [clientSocket EXCEPT ![c] = Destroyed(@)]
    /\ UNCHANGED <<nodeVars, clientDecoder, servingVars, up, down>>

-----------------------------------------------------------------------------
(* The server: handleConnection and handleServerConnection. *)

\* A stranger connects and has written a stream.
StrangerConnects(c) ==
    /\ ClientOf(c) = Stranger
    /\ serving[c] = "none"
    /\ Listens(ServerOf(c))
    /\ serving' = [serving EXCEPT ![c] = "arriving"]
    /\ \E s \in Streams : up' = [up EXCEPT ![c] = s]
    /\ UNCHANGED <<nodeVars, clientVars, serverSocket, serverDecoder, calls, answered, down>>

\* The connection event: while the transport closes, or without a handler, the
\* socket is destroyed at once.
Accept(c) ==
    /\ serving[c] = "arriving"
    /\ Listens(ServerOf(c))
    /\ IF closing[ServerOf(c)] \/ ~handler[ServerOf(c)]
       THEN /\ serving' = [serving EXCEPT ![c] = "over"]
            /\ serverSocket' = [serverSocket EXCEPT ![c] = "destroyed"]
       ELSE /\ serving' = [serving EXCEPT ![c] = "reading"]
            /\ serverSocket' = [serverSocket EXCEPT ![c] = "open"]
    /\ UNCHANGED <<nodeVars, clientVars, serverDecoder, calls, answered, up, down>>

HandlesWhateverCompletes(c, d) == d.status \in {"complete", "trailing-data"}
HandlesAfterClose(c, d) == d.status = "complete"

\* readFrame has a whole request, and the transport is still open.
Handles(c, d) == d.status = "complete" /\ ~closing[ServerOf(c)]

\* readFrame gets a chunk: the handler is called with a whole frame; a frame that
\* fails, or one that completes while the transport closes, destroys the socket.
RequestChunk(c) ==
    /\ serving[c] = "reading"
    /\ serverSocket[c] = "open"
    /\ \E k \in 1 .. Len(up[c]) :
       LET d == Push(serverDecoder[c], SubSeq(up[c], 1, k))
       IN /\ up' = [up EXCEPT ![c] = SubSeq(@, k + 1, Len(@))]
          /\ serverDecoder' = [serverDecoder EXCEPT ![c] = d]
          /\ \/ /\ Handles(c, d)
                /\ serving' = [serving EXCEPT ![c] = "handling"]
                /\ calls' = [calls EXCEPT ![c] = @ + 1]
                /\ UNCHANGED serverSocket
             \/ /\ ~Handles(c, d)
                /\ d.status = "open"
                /\ UNCHANGED <<serving, calls, serverSocket>>
             \/ /\ ~Handles(c, d)
                /\ d.status # "open"
                /\ serving' = [serving EXCEPT ![c] = "over"]
                /\ serverSocket' = [serverSocket EXCEPT ![c] = Destroyed(@)]
                /\ UNCHANGED calls
    /\ UNCHANGED <<nodeVars, clientVars, answered, down>>

\* rejectTrailingData: bytes after the request destroy the socket, while the
\* handler goes on.
TrailingRequestData(c) ==
    /\ serving[c] \in {"handling", "writing"}
    /\ serverSocket[c] = "open"
    /\ up[c] # <<>>
    /\ up' = [up EXCEPT ![c] = <<>>]
    /\ serverSocket' = [serverSocket EXCEPT ![c] = Destroyed(@)]
    /\ UNCHANGED <<nodeVars, clientVars, serving, serverDecoder, calls, answered, down>>

\* The handler returns: its response is written if it fits and the socket is there.
HandlerReturns(c, response) ==
    /\ serving[c] = "handling"
    /\ answered' = [answered EXCEPT ![c] = response]
    /\ IF Encodable(response) /\ serverSocket[c] = "open"
       THEN /\ serving' = [serving EXCEPT ![c] = "writing"]
            /\ down' = [down EXCEPT ![c] = Frame(response)]
            /\ UNCHANGED serverSocket
       ELSE /\ serving' = [serving EXCEPT ![c] = "over"]
            /\ serverSocket' = [serverSocket EXCEPT ![c] = Destroyed(@)]
            /\ UNCHANGED down
    /\ UNCHANGED <<nodeVars, clientVars, serverDecoder, calls, up>>

\* writeFrameAndEnd has written and ended, and destroys the socket.
ResponseWritten(c) ==
    /\ serving[c] = "writing"
    /\ serverSocket[c] = "open"
    /\ serving' = [serving EXCEPT ![c] = "over"]
    /\ serverSocket' = [serverSocket EXCEPT ![c] = Destroyed(@)]
    /\ UNCHANGED <<nodeVars, clientVars, serverDecoder, calls, answered, up, down>>

\* A deadline, an error or the end of the socket, or a handler that throws.
\* What was written may be lost.
ServingFails(c) ==
    /\ serving[c] \in {"reading", "handling", "writing"}
    /\ serving' = [serving EXCEPT ![c] = "over"]
    /\ serverSocket' = [serverSocket EXCEPT ![c] = Destroyed(@)]
    /\ \E kept \in 0 .. Len(down[c]) : down' = [down EXCEPT ![c] = SubSeq(@, 1, kept)]
    /\ UNCHANGED <<nodeVars, clientVars, serverDecoder, calls, answered, up>>

\* A stranger that was connected to answers with a stream.
StrangerAnswers(c) ==
    /\ serving[c] = "strange"
    /\ serving' = [serving EXCEPT ![c] = "over"]
    /\ \E s \in Streams : down' = [down EXCEPT ![c] = s]
    /\ UNCHANGED <<nodeVars, clientVars, serverSocket, serverDecoder, calls, answered, up>>

-----------------------------------------------------------------------------
(* bind: enqueueLifecycle and bindInternal. *)

Oldest(n, operation, s) ==
    /\ lifecycle[n] # <<>>
    /\ Head(lifecycle[n]) = operation
    /\ step[n] = s

\* The oldest operation settles, and the next one may start.
Settles(n) ==
    /\ lifecycle' = [lifecycle EXCEPT ![n] = Tail(@)]
    /\ step' = [step EXCEPT ![n] = "idle"]

WaitsFor(n, s) ==
    /\ step' = [step EXCEPT ![n] = s]
    /\ UNCHANGED lifecycle

Bind(n) ==
    /\ binds[n] < MaxBinds[n]
    /\ binds' = [binds EXCEPT ![n] = @ + 1]
    /\ lifecycle' = [lifecycle EXCEPT ![n] = Append(@, "bind")]
    /\ UNCHANGED <<closing, step, server, handler, path, owned, closed, clientVars,
                   servingVars, up, down>>

Listening(n) ==
    /\ server' = [server EXCEPT ![n] = "listening"]
    /\ path' = [path EXCEPT ![n] = "ours"]
    /\ WaitsFor(n, "listening")

\* The listener's handle is closed: its socket file is unlinked by node, and the
\* connections that it has not accepted are gone.
StopListening(n) ==
    /\ server' = [server EXCEPT ![n] = IF @ = "listening" THEN "closing" ELSE @]
    /\ path' = [path EXCEPT ![n] = IF @ = "ours" THEN "free" ELSE @]

ArrivalsDropped(n) ==
    [c \in Conns |-> IF ServerOf(c) = n /\ serving[c] = "arriving" THEN "over" ELSE serving[c]]

\* A bind whose turn has come: refused by a transport that closes or is bound,
\* else it listens, unless the path is in use or listening fails.
BindStarts(n) ==
    /\ Oldest(n, "bind", "idle")
    /\ \/ /\ closing[n] \/ server[n] # "none"
          /\ Settles(n)
          /\ UNCHANGED <<server, handler, path>>
       \/ /\ ~closing[n]
          /\ server[n] = "none"
          /\ handler' = [handler EXCEPT ![n] = TRUE]
          /\ \/ path[n] = "free" /\ Listening(n)
             \/ path[n] = "taken" /\ WaitsFor(n, "refused") /\ UNCHANGED <<server, path>>
    /\ UNCHANGED <<closing, owned, binds, closed, clientVars, servingVars, up, down>>

\* The error event of a listener: the bind fails, or tries to reclaim the path,
\* with its handler in place.
ListenRefused(n) ==
    /\ Oldest(n, "bind", "refused")
    /\ IF closing[n]
       THEN Settles(n) /\ handler' = [handler EXCEPT ![n] = FALSE]
       ELSE WaitsFor(n, "reclaiming") /\ UNCHANGED handler
    /\ UNCHANGED <<closing, server, path, owned, binds, closed, clientVars, servingVars,
                   up, down>>

\* removeStalePosixEndpoint has removed the path, and the bind listens again,
\* whether or not the transport closes meanwhile; or it has not, and the bind
\* fails but leaves its handler.
Reclaims(n) ==
    /\ Oldest(n, "bind", "reclaiming")
    /\ \/ Listening(n)
       \/ Settles(n) /\ UNCHANGED <<server, path>>
    /\ UNCHANGED <<closing, handler, owned, binds, closed, clientVars, servingVars, up, down>>

\* The bind fails after it has listened, and waits for its connections to end.
Discards(n) ==
    /\ StopListening(n)
    /\ handler' = [handler EXCEPT ![n] = FALSE]
    /\ serving' = ArrivalsDropped(n)
    /\ WaitsFor(n, "discarding")

\* The listening event: publish looks at the path, unless the transport closes.
Publish(n) ==
    /\ Oldest(n, "bind", "listening")
    /\ IF closing[n]
       THEN Discards(n)
       ELSE WaitsFor(n, "stat") /\ UNCHANGED <<server, path, handler, serving>>
    /\ UNCHANGED <<closing, owned, binds, closed, clientVars, serverSocket, serverDecoder,
                   calls, answered, up, down>>

\* The bind resolves, now that it knows the identity of its path; or the path
\* has disappeared.
BindSucceeds(n) ==
    /\ Oldest(n, "bind", "stat")
    /\ owned' = [owned EXCEPT ![n] = TRUE]
    /\ Settles(n)
    /\ UNCHANGED <<closing, server, handler, path, binds, closed, clientVars, servingVars,
                   up, down>>

PathDisappeared(n) ==
    /\ Oldest(n, "bind", "stat")
    /\ Discards(n)
    /\ UNCHANGED <<closing, owned, binds, closed, clientVars, serverSocket, serverDecoder,
                   calls, answered, up, down>>

\* The discarded listener has closed, with the last of its connections.
Discarded(n) ==
    /\ Oldest(n, "bind", "discarding")
    /\ \A c \in ServerConns(n) : ~Tracked(serverSocket[c])
    /\ server' = [server EXCEPT ![n] = "none"]
    /\ Settles(n)
    /\ UNCHANGED <<closing, handler, path, owned, binds, closed, clientVars, servingVars,
                   up, down>>

-----------------------------------------------------------------------------
(* close and closeInternal. *)

Close(n) ==
    /\ closed[n] = "none"
    /\ closing' = [closing EXCEPT ![n] = TRUE]
    /\ closed' = [closed EXCEPT ![n] = "pending"]
    /\ lifecycle' = [lifecycle EXCEPT ![n] = Append(@, "close")]
    /\ UNCHANGED <<step, server, handler, path, owned, binds, clientVars, servingVars,
                   up, down>>

\* Every socket of n is destroyed.
DestroySockets(n) ==
    /\ clientSocket' = [c \in Conns |->
          IF ClientOf(c) = n THEN Destroyed(clientSocket[c]) ELSE clientSocket[c]]
    /\ serverSocket' = [c \in Conns |->
          IF ServerOf(c) = n THEN Destroyed(serverSocket[c]) ELSE serverSocket[c]]

\* closeInternal up to its first wait.  It keeps the owned endpoint to itself.
CloseStarts(n) ==
    /\ Oldest(n, "close", "idle")
    /\ StopListening(n)
    /\ handler' = [handler EXCEPT ![n] = FALSE]
    /\ serving' = ArrivalsDropped(n)
    /\ DestroySockets(n)
    /\ WaitsFor(n, "draining")
    /\ UNCHANGED <<closing, owned, binds, closed, client, clientDecoder, serverDecoder,
                   calls, answered, up, down>>

CloseSettles(n, outcome) ==
    /\ Settles(n)
    /\ closed' = [closed EXCEPT ![n] = outcome]

DrainedEarly(n) ==
    /\ \E s \in {"draining", "forcing"} : Oldest(n, "close", s)
    /\ \A c \in ServerConns(n) : ~Tracked(serverSocket[c])
    /\ server' = [server EXCEPT ![n] = "none"]
    /\ IF owned[n]
       THEN WaitsFor(n, "unlinking") /\ UNCHANGED closed
       ELSE CloseSettles(n, "done")
    /\ UNCHANGED <<closing, handler, path, owned, binds, clientVars, servingVars, up, down>>

\* drainResources: all sockets and the listener have closed.
Drained(n) ==
    /\ \E s \in {"draining", "forcing"} : Oldest(n, "close", s)
    /\ SocketsOf(n) = {}
    /\ server' = [server EXCEPT ![n] = "none"]
    /\ IF owned[n]
       THEN WaitsFor(n, "unlinking") /\ UNCHANGED closed
       ELSE CloseSettles(n, "done")
    /\ UNCHANGED <<closing, handler, path, owned, binds, clientVars, servingVars, up, down>>

\* The shutdown deadline: sockets are destroyed once more.
ShutdownLate(n) ==
    /\ Oldest(n, "close", "draining")
    /\ DestroySockets(n)
    /\ WaitsFor(n, "forcing")
    /\ UNCHANGED <<closing, server, handler, path, owned, binds, closed, client,
                   clientDecoder, serving, serverDecoder, calls, answered, up, down>>

\* The second deadline: close fails.
ForceLate(n) ==
    /\ Oldest(n, "close", "forcing")
    /\ CloseSettles(n, "failed")
    /\ UNCHANGED <<closing, server, handler, path, owned, binds, clientVars, servingVars,
                   up, down>>

\* unlinkOwnedSocket has found its path gone, or has failed.
EndpointReleased(n) ==
    /\ Oldest(n, "close", "unlinking")
    /\ owned' = [owned EXCEPT ![n] = FALSE]
    /\ \E outcome \in {"done", "failed"} : CloseSettles(n, outcome)
    /\ UNCHANGED <<closing, server, handler, path, binds, clientVars, servingVars, up, down>>

-----------------------------------------------------------------------------

\* What settles by itself: socket events, deadlines, file system calls.
ConnStep(c) ==
    \/ ClientSocketCloses(c)
    \/ ServerSocketCloses(c)
    \/ ResponseSettles(c)
    \/ RequestFails(c)
    \/ ServingFails(c)
    \/ ServerOf(c) \in Nodes /\ Accept(c)

LifecycleStep(n) ==
    \/ BindStarts(n)
    \/ ListenRefused(n)
    \/ Reclaims(n)
    \/ Publish(n)
    \/ BindSucceeds(n)
    \/ PathDisappeared(n)
    \/ Discarded(n)
    \/ CloseStarts(n)
    \/ Drained(n)
    \/ ShutdownLate(n)
    \/ ForceLate(n)
    \/ EndpointReleased(n)

\* What callers, peers and the network do.
Exchange(c) ==
    \/ RequestStarts(c)
    \/ Connects(c)
    \/ RequestWritten(c)
    \/ ResponseChunk(c)
    \/ StrangerConnects(c)
    \/ RequestChunk(c)
    \/ TrailingRequestData(c)
    \/ \E response \in Responses : HandlerReturns(c, response)
    \/ ResponseWritten(c)
    \/ StrangerAnswers(c)

Next ==
    /\ \/ \E c \in Conns : ConnStep(c) \/ Exchange(c)
       \/ \E n \in Nodes : LifecycleStep(n) \/ Bind(n) \/ Close(n)
    /\ UNCHANGED route

\* Sockets that are destroyed close, deadlines pass, file system calls return.
Fairness ==
    /\ \A c \in Conns :
          /\ WF_vars(ClientSocketCloses(c) /\ UNCHANGED route)
          /\ WF_vars(ServerSocketCloses(c) /\ UNCHANGED route)
          /\ WF_vars(RequestFails(c) /\ UNCHANGED route)
          /\ WF_vars(ServingFails(c) /\ UNCHANGED route)
    /\ \A n \in Nodes : WF_vars(LifecycleStep(n) /\ UNCHANGED route)

Spec == Init /\ [][Next]_vars /\ Fairness

-----------------------------------------------------------------------------
(* Safety. *)

\* The types of the variables.
TypeOK ==
    /\ closing \in [Nodes -> BOOLEAN]
    /\ lifecycle \in [Nodes -> Seq({"bind", "close"})]
    /\ step \in [Nodes -> {"idle", "listening", "refused", "reclaiming", "stat", "discarding",
                           "draining", "forcing", "unlinking"}]
    /\ server \in [Nodes -> {"none", "listening", "closing"}]
    /\ handler \in [Nodes -> BOOLEAN]
    /\ path \in [Nodes -> {"free", "ours", "taken"}]
    /\ owned \in [Nodes -> BOOLEAN]
    /\ binds \in [Nodes -> Nat]
    /\ closed \in [Nodes -> {"none", "pending", "done", "failed"}]
    /\ client \in [Conns -> {"idle", "connecting", "writing", "reading", "settling",
                             "resolved", "rejected"}]
    /\ serving \in [Conns -> {"none", "strange", "arriving", "reading", "handling", "writing",
                              "over"}]
    /\ clientSocket \in [Conns -> {"none", "open", "destroyed", "closed"}]
    /\ serverSocket \in [Conns -> {"none", "open", "destroyed", "closed"}]
    /\ up \in [Conns -> Seq(Byte)]
    /\ down \in [Conns -> Seq(Byte)]
    /\ \A c \in Conns : {clientDecoder[c].status, serverDecoder[c].status}
                            \subseteq DecoderFailures \cup {"open", "complete"}
    /\ calls \in [Conns -> Nat]

\* d holds a whole frame of a stream that a stranger wrote.
OfAStranger(d) ==
    \E s \in Streams : Len(d.bytes) <= Len(s) /\ d.bytes = SubSeq(s, 1, Len(d.bytes))

\* A request that resolves has been handled once, with the payload that was
\* asked, and resolves with the whole of what the handler returned; a handler is
\* called at most once, with a whole payload, whatever the chunks and whatever
\* strangers write.
WholeExchanges ==
    \A c \in Conns :
        /\ calls[c] <= 1
        /\ calls[c] = 1 =>
              /\ ~Failed(serverDecoder[c])
              /\ IF ClientOf(c) = Stranger THEN OfAStranger(serverDecoder[c])
                 ELSE Payload(serverDecoder[c]) = Request[c]
        /\ client[c] = "resolved" =>
              /\ clientDecoder[c].status = "complete"
              /\ IF ServerOf(c) = Stranger THEN OfAStranger(clientDecoder[c])
                 ELSE calls[c] = 1 /\ Payload(clientDecoder[c]) = answered[c]

\* What holds in every state, however calls, chunks, errors and timers interleave.
Sound == TypeOK /\ WholeExchanges

\* When nothing of bind or close is under way, a transport listens just when
\* it knows the endpoint that it owns; and once its close has succeeded it has
\* no socket, no listener and no path left.
NothingLeftBehind ==
    \A n \in Nodes :
        /\ lifecycle[n] = <<>> /\ closed[n] = "none" =>
              (owned[n] <=> server[n] = "listening") /\ (path[n] = "ours" => owned[n])
        /\ closed[n] = "done" => SocketsOf(n) = {} /\ server[n] = "none" /\ path[n] # "ours"

\* From the call of close on, before its turn in the chain has come, no handler
\* is called and no socket opened for longer than it takes to destroy it.
QuietAfterClose ==
    [][\A c \in Conns :
          /\ ServerOf(c) \in Nodes /\ closing[ServerOf(c)] =>
                /\ calls'[c] = calls[c]
                /\ serverSocket[c] = "none" => serverSocket'[c] # "open"
          /\ ClientOf(c) \in Nodes /\ closing[ClientOf(c)] =>
                (clientSocket[c] = "none" => clientSocket'[c] = "none")]_vars

-----------------------------------------------------------------------------
(* Liveness. *)

\* Every socket closes, and every bind and close settles, whatever callers, peers
\* and handlers do.
EverythingSettles ==
    /\ \A c \in Conns :
          /\ clientSocket[c] = "open" ~> clientSocket[c] = "closed"
          /\ serverSocket[c] = "open" ~> serverSocket[c] = "closed"
    /\ \A n \in Nodes : lifecycle[n] # <<>> ~> lifecycle[n] = <<>>
=============================================================================
