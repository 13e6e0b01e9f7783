-------------------------- MODULE MCRuntimeRegistry --------------------------
(* A runtime and peers that find fault with its record.                    *)
EXTENDS RuntimeRegistry

CONSTANTS p1, p2, n1, n2

MCPeers == {p1, p2}
MCNames == {n1, n2}
\* Two peers after a crash; one peer, a failure and a crash; the owner alone.
MCSettings ==
    {[peers |-> MCPeers, calls |-> 1, failures |-> 0, crashes |-> 1],
     [peers |-> {p1}, calls |-> 2, failures |-> 1, crashes |-> 1],
     [peers |-> {}, calls |-> 3, failures |-> 3, crashes |-> 0]}
=============================================================================
