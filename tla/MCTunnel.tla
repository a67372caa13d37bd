------------------------------ MODULE MCTunnel ------------------------------
(* One relay with an id of its own and two connections, the old one and the *)
(* one it comes back on; two calls that compete for its only slot.          *)
EXTENDS Tunnel

CONSTANTS a1, c1, c2, k1, k2, u1, u2

OnlyRelay == [c \in {c1, c2} |-> a1]
=============================================================================
