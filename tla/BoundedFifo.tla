---------------------------- MODULE BoundedFifo -----------------------------
(***************************************************************************)
(* What CXSMsgQueue promises to the two threads that share it: a packet    *)
(* that was accepted comes out once, in the order of acceptance, and at    *)
(* most Capacity accepted packets are inside at any time.                  *)
(***************************************************************************)
EXTENDS Naturals, Sequences

CONSTANTS Packets, Capacity

VARIABLES accepted,   \* every packet taken in, oldest first
          taken       \* every packet handed out, oldest first

Init == accepted = << >> /\ taken = << >>

Accept(m) ==
  /\ Len(accepted) < Len(taken) + Capacity
  /\ accepted' = Append(accepted, m)
  /\ UNCHANGED taken

HandOut ==
  /\ Len(taken) < Len(accepted)
  /\ taken' = Append(taken, accepted[Len(taken) + 1])
  /\ UNCHANGED accepted

Next == HandOut \/ \E m \in Packets : Accept(m)

Spec == Init /\ [][Next]_<<accepted, taken>>
=============================================================================
