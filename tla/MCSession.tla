----------------------------- MODULE MCSession ------------------------------
(* Two processes with a few application threads, for TLC. *)
EXTENDS Session

CONSTANTS c1, c2, s1

OneEach == {c1, s1}
OneClient == {c1}
TwoClients == {c1, c2}
HomeOf == [t \in Threads |-> IF t = s1 THEN "server" ELSE "client"]
=============================================================================
