------------------------- MODULE MC_ReverseTunnel -------------------------
(* Model-checking instance of ReverseTunnel: two relay clients, small id  *)
(* ranges so that random ids collide, a few external connections.         *)
EXTENDS ReverseTunnel

CONSTANTS c1, c2, p1, p2

\* Each client asks for its own port.
MCReqPortDistinct == [c \in Clients |-> IF c = c1 THEN p1 ELSE p2]
\* Both clients ask for the same port (the facade picks ports at random).
MCReqPortSame == [c \in Clients |-> p1]

=============================================================================
