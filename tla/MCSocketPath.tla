---------------------------- MODULE MCSocketPath -----------------------------
(* Values for checking SocketPath: three interchangeable processes. *)
EXTENDS SocketPath, TLC

CONSTANTS p, q, r

ProcSymmetry == Permutations(Procs)
=============================================================================
