----------------------------- MODULE MCMtcpLua -----------------------------
(* Instances of MtcpLua for TLC: who can reach which socket object. *)
EXTENDS MtcpLua, TLC

CONSTANTS c1, c2, c3

OneUser == [s \in Socks |-> {c2}]

MainOnly == [s \in Socks |-> {c1}]

Shared == [s \in Socks |-> Co]

\* The stack's ids and the objects are interchangeable.
FdSymmetry == Permutations(Fds)

AllSymmetry == Permutations(Fds) \cup Permutations(Socks)
============================================================================
