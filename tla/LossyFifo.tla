----------------------------- MODULE LossyFifo ------------------------------
(***************************************************************************)
(* What two connected processes promise their applications in each         *)
(* direction: a packet that was sent is delivered at most once, and        *)
(* packets are delivered in the order they were sent.  Some are lost.      *)
(***************************************************************************)
EXTENDS Naturals, Sequences

CONSTANTS Packets, Ends, Peer(_)

VARIABLES sent,        \* per process: the packets it has sent
          delivered    \* per process: the packets given to its callback

Init == sent = [e \in Ends |-> << >>] /\ delivered = [e \in Ends |-> << >>]

Send(e, m) ==
  /\ \A i \in 1..Len(sent[e]) : sent[e][i] # m
  /\ sent' = [sent EXCEPT ![e] = Append(@, m)]
  /\ UNCHANGED delivered

(* The i-th packet sent to e is later than the one delivered last. *)
Deliver(e, i) ==
  /\ \A j \in i..Len(sent[Peer(e)]), k \in 1..Len(delivered[e]) :
       delivered[e][k] # sent[Peer(e)][j]
  /\ delivered' = [delivered EXCEPT ![e] = Append(@, sent[Peer(e)][i])]
  /\ UNCHANGED sent

Next == \E e \in Ends :
          \/ \E m \in Packets : Send(e, m)
          \/ \E i \in 1..Len(sent[Peer(e)]) : Deliver(e, i)

Spec == Init /\ [][Next]_<<sent, delivered>>
=============================================================================
