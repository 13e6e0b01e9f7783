----------------------------- MODULE MCLocalIpc ------------------------------
(***************************************************************************)
(* Values for checking LocalIpc: one connection, between two transports,   *)
(* of a transport with itself, or with a stranger at either end.           *)
(***************************************************************************)
EXTENDS LocalIpc, TLC

CONSTANTS a, b, x

Route(p, q) == x :> [client |-> p, server |-> q]

AllRoutes == {Route(a, b), Route(b, b), Route(Stranger, b), Route(b, Stranger)}

Asked == [c \in Conns |-> <<1>>]

\* A response of two bytes, and one that is too long.
Answers == {<<1, 0>>, <<0, 0, 0>>}

\* What strangers write, all of it or, as far as it arrives, a part: a whole frame
\* with a byte too many, and one that is declared too long.
StrangeStreams == {<<0, 1, 0, 0>>, <<1, 1>>}

Binds == a :> 0 @@ b :> 1
=============================================================================
