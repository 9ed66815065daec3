--------------------------- MODULE MCServerClients ---------------------------
(* Clients for TLC: the first repeats its packet, the second has two.      *)
EXTENDS ServerClients
CONSTANTS c1, c2
TwoClients == {c1, c2}
Attempts == [c \in TwoClients |-> IF c = c1 THEN 2 ELSE 1]
FewCalls == [c \in TwoClients |-> IF c = c1 THEN 1 ELSE 2]
=============================================================================
