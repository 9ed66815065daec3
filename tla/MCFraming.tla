----------------------------- MODULE MCFraming ------------------------------
(* Frames of 9 to 18 bytes for TLC: a head of three bytes, a tail of two,  *)
(* fields of one digit; 20 to 22 are the head's bytes, 30 and 31 the       *)
(* tail's, 40 is NUL.                                                      *)
EXTENDS Framing

Head3 == <<20, 21, 22>>
Tail2 == <<30, 31>>
Ones(n) == [i \in 1..n |-> 1]
Request(s, d) == [seq |-> s, type |-> 0, data |-> d]

(* Legal lengths are 1 to 9; 10, DATA_MAX_SIZE, takes two digits, and 11   *)
(* is refused.  The second packet's data hold bytes of head and tail, and  *)
(* are as long as most of another frame; sequence number 10 is one that    *)
(* two senders can make of a wrapping iSeq.                                *)
Sample == {Request(1, <<1>>), Request(2, <<20, 22, 30, 20, 22, 2, 30, 2>>),
           Request(10, <<1>>), Request(1, Ones(10)), Request(1, Ones(11))}

ASSUME DistinctSample == Distinct /\ Unshifted
=============================================================================
