--------------------------- MODULE MCInboundRouter ---------------------------
(***************************************************************************)
(* Settings for checking InboundRouter: at most three requests, one slot.  *)
(***************************************************************************)
EXTENDS InboundRouter, TLC

CONSTANTS r1, r2, r3

\* All clocks agree on every deadline; the timers may fire before any clock reads
\* it; for one request no clock agrees with another.
OneClock   == [r \in Requests |-> {Clocks}]
TimerApart == [r \in Requests |-> {{"timer"}, Clocks \ {"timer"}}]
OneSkewed  == [OneClock EXCEPT ![r1] = {{c} : c \in Clocks}]

Router(queueCapacity, maxTracked, requests, clockGroups, results) ==
    [queueCapacity  |-> queueCapacity,
     activeCapacity |-> 1,
     maxTracked     |-> maxTracked,
     requests       |-> requests,
     clockGroups    |-> clockGroups,
     results        |-> results]

\* Two requests, on one of which the clocks disagree; a queue for two of three
\* requests; one that is full for the third; and a router that tracks one request
\* at a time, of executors that answer or not.
Routers == {Router(1, 2, {r1, r2}, OneSkewed, {"void", "rejected", "threw"}),
            Router(2, 3, Requests, OneClock, {}),
            Router(1, 3, Requests, OneClock, {}),
            Router(1, 1, {r1, r2}, TimerApart, {"void", "completed", "threw"})}

\* Two requests that nobody answers.
Unanswered == {Router(1, 2, Requests, OneClock, {"void"})}
=============================================================================
