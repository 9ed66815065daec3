------------------------------ MODULE ByteQueue ------------------------------
(***************************************************************************)
(* What CHSBuffer promises: a string of bytes that grows at its end, can   *)
(* be looked at and taken from its front, and taken from its end.  A call  *)
(* that fails changes nothing.                                             *)
(***************************************************************************)
EXTENDS Naturals, Sequences

CONSTANT Bytes

VARIABLES content,   \* the bytes held
          given,     \* the bytes the last call was given to put in
          out        \* the bytes the last call has copied to its caller

First(s, n) == SubSeq(s, 1, n)
AfterFirst(s, n) == SubSeq(s, n + 1, Len(s))

Init == content = << >> /\ given = << >> /\ out = << >>

Put ==
  /\ given' \in Seq(Bytes) /\ out' = << >>
  /\ content' = content \o given'

Look == \E n \in 0..Len(content) :
          out' = First(content, n) /\ given' = << >> /\ UNCHANGED content

Take == \E n \in 0..Len(content) :
          /\ content' = AfterFirst(content, n)
          /\ out' \in {First(content, n), << >>} /\ given' = << >>

TakeBack == \E n \in 0..Len(content) :
              /\ content' = First(content, Len(content) - n)
              /\ out' \in {AfterFirst(content, Len(content) - n), << >>} /\ given' = << >>

Clear == content' = << >> /\ given' = << >> /\ out' = << >>

Next == Put \/ Look \/ Take \/ TakeBack \/ Clear

Spec == Init /\ [][Next]_<<content, given, out>>
=============================================================================
