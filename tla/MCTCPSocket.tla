---------------------------- MODULE MCTCPSocket -----------------------------
(* Small instances of TCPSocket for TLC: one thread has a listener and the *)
(* objects its connections go to, another has a socket of its own.         *)
EXTENDS TCPSocket, TLC

CONSTANTS a, b, c, t1, t2, f1, f2, f3

MCOwner == (a :> t1) @@ (b :> t1) @@ (c :> t2)

Symmetry == Permutations(Fds) \cup Permutations({a, b})
=============================================================================
