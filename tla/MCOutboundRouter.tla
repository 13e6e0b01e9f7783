-------------------------- MODULE MCOutboundRouter --------------------------
(***************************************************************************)
(* Settings for checking OutboundRouter.                                   *)
(***************************************************************************)
EXTENDS OutboundRouter

Limits(maxPending, maxSends, maxSessions) ==
    [maxPending  |-> maxPending,
     maxSends    |-> maxSends,
     maxSessions |-> maxSessions]

\* A request sent twice, with and without room for the second send; and one
\* whose session of Pi may be replaced.
Routers == {Limits(1, 2, 0), Limits(2, 2, 0), Limits(1, 1, 2)}

\* A request sent once.
Once == {Limits(1, 1, 0)}
=============================================================================
