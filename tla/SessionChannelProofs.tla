------------------------ MODULE SessionChannelProofs ------------------------
(***************************************************************************)
(* What holds of a session with one application thread in each process.    *)
(* Whatever the reads hold, numbers fit their field and preSeq filters     *)
(* the retries of a packet; with one frame per read, each direction is a   *)
(* lossy fifo.                                                             *)
(***************************************************************************)
EXTENDS SessionProofs

(* One application thread in each process.                                 *)
OneSender == \A t, u \in Threads : Home[t] = Home[u] => t = u

(* The request ThreadDeal has in hand and not decided on, and the one it   *)
(* took last                                                               *)
InHand(e) == IF dpc[e] = "request" THEN {cur[e]} ELSE {}
LastTaken(e) ==
  IF accepted[e] = << >> THEN {}
  ELSE {[type |-> "req", seq |-> preSeq[e], msg |-> accepted[e][Len(accepted[e])]]}

(* Frames e has or will have to do with                                    *)
Known(e) == {f \in InFlightTo(e) \cup InHand(e) \cup LastTaken(e) : f.type = "req"}

-----------------------------------------------------------------------------
(* What a step does to the line to e: nothing but let go of the packet in  *)
(* hand, a write at its beginning, a read, a round of the parser, a pop,   *)
(* or a request taken.                                                     *)
Requested(t) == [type |-> "req", seq |-> seq[t], msg |-> Packet(t)]

Answer(e, f) == f.type = "ack" /\ InHand(e) = {cur[e]} /\ f.seq = cur[e].seq

LineIs(e, w, r, c, q) ==
  wire'[Peer(e)] = w /\ rbuf'[e] = r /\ chunk'[e] = c /\ queue'[e] = q

Keeps(e) == accepted'[e] = accepted[e] /\ preSeq'[e] = preSeq[e]

Quiet(e) == /\ LineIs(e, wire[Peer(e)], rbuf[e], chunk[e], queue[e]) /\ Keeps(e)
            /\ InHand(e)' \subseteq InHand(e)

Written(e, f) == /\ LineIs(e, Append(wire[Peer(e)], f), rbuf[e], chunk[e], queue[e]) /\ Keeps(e)
                 /\ InHand(e)' = InHand(e)

ReadIn(e, k) ==
  LET w == wire[Peer(e)]
      s == SubSeq(w, 1, k)
  IN  /\ chunk[e] = << >> /\ k <= Len(w)
      /\ LineIs(e, SubSeq(w, k + 1, Len(w)), rbuf[e] \o s, s, queue[e]) /\ Keeps(e)
      /\ InHand(e)' = InHand(e)

Parsed(e) ==
  /\ chunk[e] # << >> /\ rbuf[e] # << >>
  /\ \/ \E q \in {queue[e], Append(queue[e], Head(rbuf[e]))} :
          LineIs(e, wire[Peer(e)], Tail(rbuf[e]) \o Tail(chunk[e]), Tail(chunk[e]), q)
     \/ LineIs(e, wire[Peer(e)], Tail(rbuf[e]), << >>, queue[e])
  /\ Keeps(e) /\ InHand(e)' = InHand(e)

Popped(e) ==
  /\ queue[e] # << >> /\ InHand(e) = {} /\ InHand(e)' \subseteq {Head(queue[e])}
  /\ LineIs(e, wire[Peer(e)], rbuf[e], chunk[e], Tail(queue[e])) /\ Keeps(e)

Took(e) ==
  /\ InHand(e) = {cur[e]} /\ InHand(e)' = {} /\ cur[e].seq # preSeq[e]
  /\ LineIs(e, wire[Peer(e)], rbuf[e], chunk[e], queue[e])
  /\ accepted'[e] = Append(accepted[e], cur[e].msg) /\ preSeq'[e] = cur[e].seq

LEMMA LineStep ==
  ASSUME IInv, [Next]_vars, NEW e \in Ends
  PROVE  \/ Quiet(e) \/ Parsed(e) \/ Popped(e) \/ Took(e)
         \/ \E f \in Frame : Answer(Peer(e), f) /\ Written(e, f)
         \/ \E t \in Threads : /\ Home[t] = Peer(e) /\ XSendWrite(t)
                               /\ Requested(t) \in Frame /\ Written(e, Requested(t))
         \/ \E k \in 1..MaxRead : ReadIn(e, k)
<1> USE SessionAssumption
<1>0. /\ wire \in [Ends -> Seq(Frame)] /\ rbuf \in [Ends -> Seq(Frame)]
      /\ chunk \in [Ends -> Seq(Frame)] /\ queue \in [Ends -> Seq(Frame)]
      /\ dpc \in [Ends -> DealLabels] /\ cur \in [Ends -> Frame \cup {NULL}]
      /\ accepted \in [Ends -> Seq(Packets)] /\ preSeq \in [Ends -> Nat]
      /\ Peer(e) \in Ends /\ Peer(e) # e /\ \A d \in Ends : d = e \/ d = Peer(e)
  BY DEF IInv, TypeOK, Ends, Peer
<1>1. ASSUME NEW t \in Threads, XSendWrite(t)
      PROVE  Quiet(e) \/ (Home[t] = Peer(e) /\ Requested(t) \in Frame /\ Written(e, Requested(t)))
  <2>1. Requested(t) \in Frame
    <3>1. Packet(t) \in Packets /\ seq[t] \in Nat
      BY <1>1 DEF XSendWrite, Goto, IInv, TypeOK, SentInv, InXSend, Packet, Packets
    <3> QED
      BY <3>1 DEF Requested, Frame
  <2>2. /\ wire' = [wire EXCEPT ![Home[t]] = Append(@, Requested(t))]
        /\ UNCHANGED <<rbuf, chunk, queue, dpc, cur, accepted, preSeq>>
    BY <1>1 DEF XSendWrite, readVars, dealVars, Requested
  <2> QED
    BY <2>1, <2>2, <1>0 DEF Quiet, Written, LineIs, Keeps, InHand
<1>2. ASSUME NEW d \in Ends, NEW k \in 1..MaxRead, Recv(d, k)
      PROVE  Quiet(e) \/ ReadIn(e, k)
  <2>1. UNCHANGED <<queue, dpc, cur, accepted, preSeq>>
    BY <1>2 DEF Recv, dealVars
  <2>2. CASE d = e
    BY <1>2, <2>1, <2>2, <1>0 DEF Recv, ReadIn, LineIs, Keeps, InHand
  <2>3. CASE d # e
    <3>1. wire'[Peer(e)] = wire[Peer(e)] /\ rbuf'[e] = rbuf[e] /\ chunk'[e] = chunk[e]
      BY <1>2, <2>3, <1>0, PeerOfPeer DEF Recv
    <3> QED
      BY <3>1, <2>1 DEF Quiet, LineIs, Keeps, InHand
  <2> QED
    BY <2>2, <2>3
<1>3. ASSUME NEW d \in Ends, ParseFrame(d) \/ ParseCorrupted(d) PROVE Quiet(e) \/ Parsed(e)
  <2>1. UNCHANGED <<wire, dpc, cur, accepted, preSeq>>
    BY <1>3 DEF ParseFrame, ParseCorrupted, dealVars
  <2>2. CASE d # e
    <3>1. rbuf'[e] = rbuf[e] /\ chunk'[e] = chunk[e] /\ queue'[e] = queue[e]
      <4>1. CASE ParseFrame(d)
        BY <4>1, <2>2, <1>0 DEF ParseFrame
      <4>2. CASE ParseCorrupted(d)
        BY <4>2, <2>2, <1>0 DEF ParseCorrupted
      <4> QED
        BY <4>1, <4>2, <1>3
    <3> QED
      BY <3>1, <2>1 DEF Quiet, LineIs, Keeps, InHand
  <2>3. CASE d = e
    <3>1. chunk[e] # << >> /\ rbuf[e] # << >>
      <4>1. chunk[e] # << >> /\ Len(chunk[e]) <= Len(rbuf[e])
        BY <1>3, <2>3 DEF ParseFrame, ParseCorrupted, IInv, ParseInv
      <4>2. Len(chunk[e]) \in Nat \ {0} /\ Len(<< >>) = 0
        BY <4>1, <1>0, EmptySeq
      <4> QED
        BY <4>1, <4>2
    <3>2. CASE ParseFrame(e)
      <4>1. /\ chunk'[e] = Tail(chunk[e]) /\ rbuf'[e] = Tail(rbuf[e]) \o Tail(chunk[e])
            /\ queue'[e] \in {queue[e], Append(queue[e], Head(rbuf[e]))}
        BY <3>2, <1>0 DEF ParseFrame
      <4> QED
        BY <4>1, <3>1, <2>1 DEF Parsed, LineIs, Keeps, InHand
    <3>3. CASE ParseCorrupted(e)
      <4>1. chunk'[e] = << >> /\ rbuf'[e] = Tail(rbuf[e]) /\ queue'[e] = queue[e]
        BY <3>3, <1>0 DEF ParseCorrupted
      <4> QED
        BY <4>1, <3>1, <2>1 DEF Parsed, LineIs, Keeps, InHand
    <3> QED
      BY <3>2, <3>3, <1>3, <2>3
  <2> QED
    BY <2>2, <2>3
<1>4. ASSUME NEW d \in Ends, DealPop(d) PROVE Quiet(e) \/ Popped(e)
  <2>1. UNCHANGED <<wire, rbuf, chunk, accepted, preSeq>>
    BY <1>4 DEF DealPop
  <2>2. CASE d = e
    <3>1. /\ queue[e] # << >> /\ dpc[e] = "pop" /\ cur'[e] = Head(queue[e])
          /\ queue'[e] = Tail(queue[e])
      BY <1>4, <2>2, <1>0 DEF DealPop, DealGoto
    <3> QED
      BY <3>1, <2>1 DEF Popped, LineIs, Keeps, InHand
  <2>3. CASE d # e
    <3>1. queue'[e] = queue[e] /\ dpc'[e] = dpc[e] /\ cur'[e] = cur[e]
      BY <1>4, <2>3, <1>0 DEF DealPop, DealGoto
    <3> QED
      BY <3>1, <2>1 DEF Quiet, LineIs, Keeps, InHand
  <2> QED
    BY <2>2, <2>3
<1>5. ASSUME NEW d \in Ends, DealAck(d)
      PROVE  Quiet(e) \/ Took(e) \/ \E f \in Frame : Answer(Peer(e), f) /\ Written(e, f)
  <2> DEFINE ack == [cur[d] EXCEPT !.type = "ack"]
  <2>1. ack \in Frame /\ ack.type = "ack" /\ ack.seq = cur[d].seq
    BY <1>5 DEF DealAck, DealGoto, IInv, CurInv, Honest, Frame
  <2>2. /\ UNCHANGED <<rbuf, chunk, queue, cur>>
        /\ wire' = [wire EXCEPT ![d] = Append(@, ack)] \/ UNCHANGED wire
        /\ dpc[d] = "request" /\ dpc' = [dpc EXCEPT ![d] = "callback"]
        /\ accepted' = [accepted EXCEPT ![d] = Append(@, cur[d].msg)]
        /\ preSeq' = [preSeq EXCEPT ![d] = cur[d].seq] /\ cur[d].seq # preSeq[d]
    BY <1>5 DEF DealAck, DealGoto, readVars
  <2> HIDE DEF ack
  <2>3. CASE d = e
    <3>1. wire'[Peer(e)] = wire[Peer(e)]
      BY <2>2, <2>3, <1>0
    <3> QED
      BY <3>1, <2>2, <2>3, <1>0 DEF Took, LineIs, InHand
  <2>4. CASE d = Peer(e)
    <3>1. wire'[d] = Append(wire[d], ack) \/ wire'[d] = wire[d]
      BY <2>2, <1>0
    <3>2. /\ dpc'[e] = dpc[e] /\ cur'[e] = cur[e] /\ accepted'[e] = accepted[e]
          /\ preSeq'[e] = preSeq[e]
      BY <2>2, <2>4, <1>0
    <3> QED
      BY <2>1, <2>2, <2>4, <3>1, <3>2 DEF Answer, Quiet, Written, LineIs, Keeps, InHand
  <2> QED
    BY <2>3, <2>4, <1>0
<1>6. CASE UNCHANGED <<wire, readVars>> /\ UNCHANGED <<accepted, preSeq>>
  <2>1. InHand(e)' \subseteq InHand(e) \/ DealPop(e)
    <3>1. CASE UNCHANGED <<dpc, cur>>
      BY <3>1 DEF InHand
    <3>2. ASSUME NEW d \in Ends,
                 \/ DealPop(d) \/ DealDuplicate(d) \/ DealAck(d) \/ DealCallback(d)
                 \/ DealTest(d) \/ DealCompare(d) \/ DealSignal(d)
          PROVE  InHand(e)' \subseteq InHand(e) \/ DealPop(e)
      <4>1. CASE d = e /\ ~DealPop(e)
        <5>1. dpc'[e] # "request"
          BY <3>2, <4>1, <1>0 DEF DealDuplicate, DealAck, DealCallback, DealTest, DealCompare,
             DealSignal, DealGoto
        <5> QED
          BY <5>1 DEF InHand
      <4>2. CASE d # e
        <5>1. dpc'[e] = dpc[e] /\ cur'[e] = cur[e]
          BY <3>2, <4>2, <1>0 DEF DealPop, DealDuplicate, DealAck, DealCallback, DealTest,
             DealCompare, DealSignal, DealGoto
        <5> QED
          BY <5>1 DEF InHand
      <4> QED
        BY <4>1, <4>2
    <3> QED
      BY <3>1, <3>2, Effects
  <2> QED
    BY <1>6, <2>1, <1>4 DEF Quiet, LineIs, Keeps, readVars
<1>7. CASE UNCHANGED <<wire, readVars>> /\ \E d \in Ends : DealAck(d)
  BY <1>5, <1>7
<1>8. CASE UNCHANGED <<wire, readVars>>
  BY <1>6, <1>7, <1>8, Effects
<1> QED
  BY <1>1, <1>2, <1>3, <1>4, <1>5, <1>8, Effects

-----------------------------------------------------------------------------
(* What the sequences' operations do to the elements *)
LEMMA ElementsOfPart ==
  ASSUME NEW S, NEW s \in Seq(S), NEW z \in Seq(S),
         \A i \in 1..Len(z) : \E j \in 1..Len(s) : z[i] = s[j]
  PROVE  ElementsOf(z) \subseteq ElementsOf(s)
BY LenProperties DEF ElementsOf

LEMMA EmptyIff ==
  ASSUME NEW S, NEW s \in Seq(S)
  PROVE  Len(s) \in Nat /\ (s = << >> <=> Len(s) = 0)
BY EmptySeq, LenProperties

LEMMA ElementsOfTail ==
  ASSUME NEW S, NEW s \in Seq(S), s # << >>
  PROVE  /\ ElementsOf(Tail(s)) \subseteq ElementsOf(s) /\ Head(s) \in ElementsOf(s)
         /\ Tail(s) \in Seq(S) /\ Head(s) \in S
<1>1. /\ Tail(s) \in Seq(S) /\ Len(Tail(s)) = Len(s) - 1 /\ Head(s) \in S
      /\ \A i \in 1..Len(Tail(s)) : Tail(s)[i] = s[i+1]
  BY HeadTailProperties
<1>2. Len(s) \in Nat \ {0} /\ Head(s) = s[1] /\ DOMAIN s = 1..Len(s)
      /\ DOMAIN Tail(s) = 1..Len(Tail(s))
  BY <1>1, EmptySeq, LenProperties
<1> QED
  BY <1>1, <1>2 DEF ElementsOf

LEMMA ElementsOfConcat ==
  ASSUME NEW S, NEW s \in Seq(S), NEW r \in Seq(S)
  PROVE  ElementsOf(s \o r) \subseteq ElementsOf(s) \cup ElementsOf(r) /\ s \o r \in Seq(S)
<1>1. /\ s \o r \in Seq(S) /\ Len(s \o r) = Len(s) + Len(r)
      /\ \A i \in 1..Len(s) + Len(r) : (s \o r)[i] = IF i <= Len(s) THEN s[i] ELSE r[i - Len(s)]
  BY ConcatProperties
<1>2. /\ Len(s) \in Nat /\ Len(r) \in Nat /\ DOMAIN s = 1..Len(s) /\ DOMAIN r = 1..Len(r)
      /\ DOMAIN (s \o r) = 1..Len(s \o r)
  BY <1>1, LenProperties
<1> QED
  BY <1>1, <1>2 DEF ElementsOf

LEMMA ElementsOfSplit ==
  ASSUME NEW S, NEW s \in Seq(S), NEW k \in Nat, k <= Len(s)
  PROVE  /\ ElementsOf(SubSeq(s, 1, k)) \subseteq ElementsOf(s)
         /\ ElementsOf(SubSeq(s, k + 1, Len(s))) \subseteq ElementsOf(s)
         /\ SubSeq(s, 1, k) \in Seq(S) /\ SubSeq(s, k + 1, Len(s)) \in Seq(S)
<1> DEFINE a == SubSeq(s, 1, k)
           b == SubSeq(s, k + 1, Len(s))
<1>1. Len(s) \in Nat /\ \A i \in 1..Len(s) : s[i] \in S
  BY LenProperties, ElementOfSeq
<1>2. a \in Seq(S) /\ Len(a) = k /\ \A i \in 1..k : a[i] = s[i]
  BY <1>1, SubSeqProperties
<1>3. b \in Seq(S) /\ Len(b) = Len(s) - k /\ \A i \in 1..Len(s) - k : b[i] = s[k + i]
  BY <1>1, SubSeqProperties
<1> HIDE DEF a, b
<1>4. \A i \in 1..Len(a) : \E j \in 1..Len(s) : a[i] = s[j]
  BY <1>1, <1>2
<1>5. \A i \in 1..Len(b) : k + i \in 1..Len(s)
  BY <1>1, <1>3
<1>6. \A i \in 1..Len(b) : \E j \in 1..Len(s) : b[i] = s[j]
  BY <1>3, <1>5
<1>7. ElementsOf(a) \subseteq ElementsOf(s) /\ ElementsOf(b) \subseteq ElementsOf(s)
  BY <1>2, <1>3, <1>4, <1>6, ElementsOfPart
<1> QED
  BY <1>2, <1>3, <1>7 DEF a, b

(* Nothing is on the line at first.                                        *)
LEMMA InitLine ==
  ASSUME Init, NEW e \in Ends
  PROVE  InFlightTo(e) = {} /\ InHand(e) = {} /\ LastTaken(e) = {}
<1>1. ElementsOf(<< >>) = {}
  BY DEF ElementsOf
<1>2. /\ wire[Peer(e)] = << >> /\ rbuf[e] = << >> /\ chunk[e] = << >> /\ queue[e] = << >>
      /\ dpc[e] = "pop" /\ accepted[e] = << >>
  BY PeerOfPeer DEF Init
<1> QED
  BY <1>1, <1>2 DEF InFlightTo, InHand, LastTaken

LEMMA LastIsTheOneTook ==
  ASSUME IInv, NEW e \in Ends, Took(e)
  PROVE  /\ cur[e] \in Frame /\ cur[e].type = "req" /\ cur[e].msg \in Packets
         /\ dpc[e] = "request" /\ InHand(e) = {cur[e]}
         /\ LastTaken(e)' = {cur[e]}
<1>1. dpc[e] = "request" /\ InHand(e) = {cur[e]}
  BY DEF Took, InHand
<1>2. cur[e] \in Frame /\ cur[e].type = "req"
  BY <1>1 DEF IInv, CurInv, Honest
<1>3. cur[e] = [type |-> "req", seq |-> cur[e].seq, msg |-> cur[e].msg]
  BY <1>2 DEF Frame
<1>4. accepted[e] \in Seq(Packets) /\ cur[e].msg \in Packets
  BY <1>2 DEF IInv, TypeOK, Frame
<1>5. /\ accepted'[e] # << >> /\ Len(accepted'[e]) = Len(accepted[e]) + 1
      /\ accepted'[e][Len(accepted[e]) + 1] = cur[e].msg /\ preSeq'[e] = cur[e].seq
  BY <1>4, AppendProperties DEF Took
<1> QED
  BY <1>1, <1>2, <1>3, <1>4, <1>5 DEF LastTaken

(* No stage of the line gets a frame that was not in the one before it.    *)
LEMMA LineGrows ==
  ASSUME IInv, [Next]_vars, NEW e \in Ends
  PROVE  /\ \/ InFlightTo(e)' \subseteq InFlightTo(e)
            \/ \E f \in Frame : /\ Answer(Peer(e), f)
                                /\ InFlightTo(e)' \subseteq InFlightTo(e) \cup {f}
            \/ \E t \in Threads : /\ Home[t] = Peer(e) /\ XSendWrite(t)
                                  /\ InFlightTo(e)' \subseteq InFlightTo(e) \cup {Requested(t)}
         /\ InHand(e)' \subseteq InHand(e) \cup InFlightTo(e)
         /\ LastTaken(e)' \subseteq LastTaken(e) \cup InHand(e)
<1>0. /\ wire[Peer(e)] \in Seq(Frame) /\ rbuf[e] \in Seq(Frame)
      /\ chunk[e] \in Seq(Frame) /\ queue[e] \in Seq(Frame)
  BY PeerOfPeer DEF IInv, TypeOK
<1>1. ASSUME NEW w, NEW r, NEW c, NEW q, NEW N, LineIs(e, w, r, c, q),
             ElementsOf(w) \cup ElementsOf(r) \cup ElementsOf(c) \cup ElementsOf(q)
               \subseteq InFlightTo(e) \cup N
      PROVE  InFlightTo(e)' \subseteq InFlightTo(e) \cup N
  BY <1>1 DEF LineIs, InFlightTo, ElementsOf
<1>2. Keeps(e) => LastTaken(e)' = LastTaken(e)
  BY DEF Keeps, LastTaken
<1>3. /\ ElementsOf(wire[Peer(e)]) \subseteq InFlightTo(e)
      /\ ElementsOf(rbuf[e]) \subseteq InFlightTo(e)
      /\ ElementsOf(chunk[e]) \subseteq InFlightTo(e)
      /\ ElementsOf(queue[e]) \subseteq InFlightTo(e)
  BY DEF InFlightTo
<1>4. CASE Quiet(e)
  BY <1>1, <1>2, <1>3, <1>4 DEF Quiet
<1>5. ASSUME NEW f \in Frame, Written(e, f)
      PROVE  /\ InFlightTo(e)' \subseteq InFlightTo(e) \cup {f}
             /\ InHand(e)' = InHand(e) /\ LastTaken(e)' = LastTaken(e)
  <2>1. ElementsOf(Append(wire[Peer(e)], f)) \subseteq ElementsOf(wire[Peer(e)]) \cup {f}
    BY <1>0, ElementsOfAppend
  <2> QED
    BY <1>1, <1>2, <1>3, <1>5, <2>1 DEF Written
<1>6. ASSUME NEW k \in 1..MaxRead, ReadIn(e, k)
      PROVE  /\ InFlightTo(e)' \subseteq InFlightTo(e)
             /\ InHand(e)' = InHand(e) /\ LastTaken(e)' = LastTaken(e)
  <2> DEFINE w == wire[Peer(e)]
             s == SubSeq(w, 1, k)
             v == SubSeq(w, k + 1, Len(w))
  <2>1. /\ ElementsOf(s) \subseteq ElementsOf(w) /\ ElementsOf(v) \subseteq ElementsOf(w)
        /\ s \in Seq(Frame)
    <3>1. k \in Nat /\ k <= Len(w)
      BY <1>6, SessionAssumption DEF ReadIn
    <3>2. w \in Seq(Frame)
      BY <1>0
    <3> HIDE DEF w
    <3> QED
      BY <3>1, <3>2, ElementsOfSplit
  <2>2. LineIs(e, v, rbuf[e] \o s, s, queue[e]) /\ Keeps(e) /\ InHand(e)' = InHand(e)
    BY <1>6 DEF ReadIn
  <2> HIDE DEF s, v
  <2>3. ElementsOf(rbuf[e] \o s) \subseteq ElementsOf(rbuf[e]) \cup ElementsOf(s)
    BY <1>0, <2>1, ElementsOfConcat
  <2> QED
    BY <1>1, <1>2, <1>3, <2>1, <2>2, <2>3
<1>7. CASE Parsed(e)
  <2>1. /\ ElementsOf(Tail(rbuf[e])) \subseteq ElementsOf(rbuf[e])
        /\ ElementsOf(Tail(chunk[e])) \subseteq ElementsOf(chunk[e])
        /\ Head(rbuf[e]) \in ElementsOf(rbuf[e]) /\ Head(rbuf[e]) \in Frame
        /\ Tail(rbuf[e]) \in Seq(Frame) /\ Tail(chunk[e]) \in Seq(Frame)
    BY <1>0, <1>7, ElementsOfTail DEF Parsed
  <2>2. /\ ElementsOf(Tail(rbuf[e]) \o Tail(chunk[e]))
             \subseteq ElementsOf(Tail(rbuf[e])) \cup ElementsOf(Tail(chunk[e]))
        /\ ElementsOf(Append(queue[e], Head(rbuf[e])))
             \subseteq ElementsOf(queue[e]) \cup {Head(rbuf[e])}
        /\ ElementsOf(<< >>) = {}
    <3>1. ElementsOf(<< >>) = {}
      BY DEF ElementsOf
    <3>2. ElementsOf(Tail(rbuf[e]) \o Tail(chunk[e]))
            \subseteq ElementsOf(Tail(rbuf[e])) \cup ElementsOf(Tail(chunk[e]))
      BY <2>1, ElementsOfConcat
    <3>3. ElementsOf(Append(queue[e], Head(rbuf[e])))
            \subseteq ElementsOf(queue[e]) \cup {Head(rbuf[e])}
      BY <1>0, <2>1, ElementsOfAppend
    <3> QED
      BY <3>1, <3>2, <3>3
  <2> QED
    BY <1>1, <1>2, <1>3, <1>7, <2>1, <2>2 DEF Parsed
<1>8. CASE Popped(e)
  <2>1. /\ ElementsOf(Tail(queue[e])) \subseteq ElementsOf(queue[e])
        /\ Head(queue[e]) \in ElementsOf(queue[e])
    BY <1>0, <1>8, ElementsOfTail DEF Popped
  <2> QED
    BY <1>1, <1>2, <1>3, <1>8, <2>1 DEF Popped
<1>9. CASE Took(e)
  <2>1. /\ LineIs(e, wire[Peer(e)], rbuf[e], chunk[e], queue[e])
        /\ InHand(e)' = {} /\ dpc[e] = "request" /\ InHand(e) = {cur[e]}
    BY <1>9 DEF Took, InHand
  <2>2. LastTaken(e)' = {cur[e]}
    BY <1>9, LastIsTheOneTook
  <2> QED
    BY <1>1, <1>3, <2>1, <2>2
<1> QED
  BY <1>4, <1>5, <1>6, <1>7, <1>8, <1>9, LineStep

-----------------------------------------------------------------------------
(* A thread which is alone in its process: its five steps into XSend, or   *)
(* one that leaves its number and that of the process as they are.         *)
Stays(t) ==
  /\ calls'[t] = calls[t] /\ reg'[t] = reg[t] /\ seq'[t] = seq[t]
  /\ iSeq'[Home[t]] = iSeq[Home[t]]
  /\ \/ pc'[t] = pc[t] /\ count'[t] = count[t]
     \/ pc[t] \in InXSend /\ pc'[t] \in {"idle", "wait", "woken", "timedout"}
     \/ pc[t] \in InXSend /\ pc'[t] = "call" /\ count'[t] # 0

LEMMA ThreadStep ==
  ASSUME OneSender, IInv, [Next]_vars, NEW t \in Threads
  PROVE  SeqLoad(t) \/ SeqStore(t) \/ SeqWrap(t) \/ XSendCall(t) \/ XSendLock(t) \/ Stays(t)
<1> USE SessionAssumption
<1>0. /\ pc \in [Threads -> Labels] /\ calls \in [Threads -> 0..MaxCalls]
      /\ reg \in [Threads -> Nat] /\ seq \in [Threads -> Nat] /\ count \in [Threads -> Nat]
      /\ iSeq \in [Ends -> Nat]
  BY DEF IInv, TypeOK
<1>1. ASSUME NEW u \in Threads, u # t,
             \/ SeqLoad(u) \/ SeqStore(u) \/ SeqWrap(u) \/ XSendCall(u) \/ XSendLock(u)
             \/ XSendWrite(u) \/ Fail(u, "write") \/ Timeout(u) \/ SpuriousWakeup(u)
             \/ Fail(u, "timedout") \/ XSendAcked(u)
      PROVE  Stays(t)
  <2>1. Home[u] # Home[t]
    BY <1>1 DEF OneSender
  <2>2. CASE SeqLoad(u) \/ SeqStore(u) \/ SeqWrap(u) \/ XSendCall(u)
    BY <2>1, <2>2, <1>0, <1>1 DEF SeqLoad, SeqStore, SeqWrap, XSendCall, Goto, Stays
  <2>3. CASE XSendLock(u) \/ XSendWrite(u) \/ Timeout(u) \/ SpuriousWakeup(u) \/ XSendAcked(u)
    BY <2>3, <1>0, <1>1 DEF XSendLock, XSendWrite, Timeout, SpuriousWakeup, XSendAcked, Goto,
       Stays, appVars
  <2>4. CASE Fail(u, "write") \/ Fail(u, "timedout")
    BY <2>4, <1>0, <1>1 DEF Fail, Goto, Stays
  <2> QED
    BY <2>2, <2>3, <2>4, <1>1
<1>2. CASE XSendWrite(t) \/ Timeout(t) \/ SpuriousWakeup(t) \/ XSendAcked(t)
  BY <1>2, <1>0 DEF XSendWrite, Timeout, SpuriousWakeup, XSendAcked, Goto, Stays, appVars, InXSend
<1>3. ASSUME NEW from \in {"write", "timedout"}, Fail(t, from) PROVE Stays(t)
  <2>1. /\ UNCHANGED <<iSeq, calls, reg, seq>> /\ count'[t] # 0
        /\ pc[t] = from /\ pc'[t] \in {"idle", "call"}
    BY <1>3, <1>0 DEF Fail, Goto
  <2> QED
    BY <2>1 DEF Stays, InXSend
<1>4. ASSUME NEW d \in Ends, DealSignal(d) PROVE Stays(t)
  <2>1. /\ UNCHANGED <<iSeq, calls, reg, seq, count>>
        /\ pc'[t] = pc[t] \/ (pc[t] = "wait" /\ pc'[t] = "woken")
    BY <1>4, <1>0 DEF DealSignal, Waiters, appVars
  <2> QED
    BY <2>1 DEF Stays, InXSend
<1>5. CASE UNCHANGED <<pc, calls, count, hSend>>
  <2>1. UNCHANGED <<iSeq, reg, seq>> \/ ~ UNCHANGED pc
    <3>1. ASSUME NEW u \in Threads,
                 \/ SeqLoad(u) \/ SeqStore(u) \/ SeqWrap(u) \/ XSendCall(u)
                 \/ XSendLock(u) \/ XSendWrite(u) \/ Fail(u, "write")
                 \/ Fail(u, "timedout") \/ XSendAcked(u)
          PROVE  ~ UNCHANGED pc
      BY <3>1, <1>0 DEF SeqLoad, SeqStore, SeqWrap, XSendCall, XSendLock, XSendWrite, Fail,
         XSendAcked, Goto
    <3> QED
      BY <3>1, Effects
  <2> QED
    BY <1>5, <2>1 DEF Stays
<1> QED
  BY <1>1, <1>2, <1>3, <1>4, <1>5, Effects

-----------------------------------------------------------------------------
(* Numbers fit: iSeq is below the limit but between the increment and the  *)
(* wrap, and frames carry what iSeq was at a call.                         *)
NumberInv ==
  /\ \A t \in Threads :
       /\ iSeq[Home[t]] < SEQ_LIMIT + (IF pc[t] = "wrap" THEN 1 ELSE 0)
       /\ pc[t] = "inc" => reg[t] < SEQ_LIMIT
       /\ pc[t] \in {"lock", "write"} => seq[t] < SEQ_LIMIT
  /\ \A e \in Ends : \A f \in InFlightTo(e) \cup InHand(e) : WellFormed(f)

LEMMA NumberStep == ASSUME OneSender PROVE IInv /\ NumberInv /\ [Next]_vars => NumberInv'
<1> SUFFICES ASSUME OneSender, IInv, NumberInv, [Next]_vars PROVE NumberInv'
  OBVIOUS
<1> USE SessionAssumption
<1>0. /\ pc \in [Threads -> Labels] /\ iSeq \in [Ends -> Nat]
      /\ reg \in [Threads -> Nat] /\ seq \in [Threads -> Nat]
  BY DEF IInv, TypeOK
<1>1. ASSUME NEW t \in Threads
      PROVE  /\ iSeq'[Home[t]] < SEQ_LIMIT + (IF pc'[t] = "wrap" THEN 1 ELSE 0)
             /\ pc'[t] = "inc" => reg'[t] < SEQ_LIMIT
             /\ pc'[t] \in {"lock", "write"} => seq'[t] < SEQ_LIMIT
  <2>0. /\ iSeq[Home[t]] < SEQ_LIMIT + (IF pc[t] = "wrap" THEN 1 ELSE 0)
        /\ pc[t] = "inc" => reg[t] < SEQ_LIMIT
        /\ pc[t] \in {"lock", "write"} => seq[t] < SEQ_LIMIT
        /\ iSeq[Home[t]] \in Nat /\ reg[t] \in Nat /\ seq[t] \in Nat /\ Home[t] \in Ends
    BY <1>0 DEF NumberInv
  <2>1. CASE SeqLoad(t)
    BY <2>0, <2>1, <1>0 DEF SeqLoad, Goto
  <2>2. CASE SeqStore(t)
    BY <2>0, <2>2, <1>0 DEF SeqStore, Goto
  <2>3. CASE SeqWrap(t)
    BY <2>0, <2>3, <1>0 DEF SeqWrap, Goto
  <2>4. CASE XSendCall(t)
    BY <2>0, <2>4, <1>0 DEF XSendCall, Goto
  <2>5. CASE XSendLock(t)
    BY <2>0, <2>5, <1>0 DEF XSendLock, Goto, appVars
  <2>6. CASE Stays(t)
    <3>1. pc'[t] = pc[t] \/ (pc[t] # "wrap" /\ pc'[t] \notin {"inc", "wrap", "lock", "write"})
      BY <2>6 DEF Stays, InXSend
    <3> QED
      BY <2>0, <2>6, <3>1 DEF Stays
  <2> QED
    BY <2>1, <2>2, <2>3, <2>4, <2>5, <2>6, ThreadStep
<1>2. ASSUME NEW e \in Ends, NEW f \in InFlightTo(e)' \cup InHand(e)' PROVE WellFormed(f)
  <2>1. CASE f \in InFlightTo(e) \cup InHand(e)
    BY <2>1 DEF NumberInv
  <2>2. CASE Answer(Peer(e), f)
    <3>1. WellFormed(cur[Peer(e)])
      BY <2>2, PeerOfPeer DEF Answer, NumberInv
    <3> QED
      BY <2>2, <3>1 DEF Answer, WellFormed
  <2>3. ASSUME NEW t \in Threads, XSendWrite(t), f = Requested(t) PROVE WellFormed(f)
    BY <2>3 DEF XSendWrite, Goto, NumberInv, Requested, WellFormed
  <2> QED
    BY <2>1, <2>2, <2>3, LineGrows
<1> QED
  BY <1>1, <1>2 DEF NumberInv, WellFormed

(* One sender's numbers fit, through every wrap and retry, whatever the    *)
(* reads hold; so no frame is ever given up as corrupted.                  *)
THEOREM NumbersFit == ASSUME OneSender PROVE Spec => []SeqFitsItsField
<1>1. Init => NumberInv
  BY SessionAssumption, InitLine DEF Init, NumberInv
<1>2. NumberInv => SeqFitsItsField
  BY DEF NumberInv, SeqFitsItsField
<1>3. IInv /\ NumberInv /\ [Next]_vars => NumberInv'
  BY NumberStep
<1> QED
  BY <1>1, <1>2, <1>3, AlwaysIInv, PTL DEF Spec

-----------------------------------------------------------------------------
(* Every attempt of a call has the number of the call.                     *)
LEMMA KnownGrows ==
  ASSUME IInv, [Next]_vars, NEW e \in Ends
  PROVE  \/ Known(e)' \subseteq Known(e)
         \/ \E t \in Threads : /\ Home[t] = Peer(e) /\ XSendWrite(t)
                               /\ Known(e)' \subseteq Known(e) \cup {Requested(t)}
<1>1. \A f \in Known(e)' :
        f.type = "req" /\ f \in InFlightTo(e)' \cup InHand(e)' \cup LastTaken(e)'
  BY DEF Known
<1>2. \A f \in InFlightTo(e) \cup InHand(e) \cup LastTaken(e) :
        f.type = "req" => f \in Known(e)
  BY DEF Known
<1>3. CASE InFlightTo(e)' \subseteq InFlightTo(e)
  BY <1>1, <1>2, <1>3, LineGrows
<1>4. ASSUME NEW f \in Frame, Answer(Peer(e), f), InFlightTo(e)' \subseteq InFlightTo(e) \cup {f}
      PROVE  Known(e)' \subseteq Known(e)
  <2>1. f.type # "req"
    BY <1>4 DEF Answer
  <2> QED
    BY <1>1, <1>2, <1>4, <2>1, LineGrows
<1>5. ASSUME NEW t \in Threads, Home[t] = Peer(e), XSendWrite(t),
             InFlightTo(e)' \subseteq InFlightTo(e) \cup {Requested(t)}
      PROVE  Known(e)' \subseteq Known(e) \cup {Requested(t)}
  BY <1>1, <1>2, <1>5, LineGrows
<1> QED
  BY <1>3, <1>4, <1>5, LineGrows

(* f is of a call of e's peer, and has that call's number while it lasts.  *)
Stamped(e, f) ==
  LET t == f.msg[1]
  IN  /\ t \in Threads /\ Home[t] = Peer(e) /\ f.msg = <<t, f.msg[2]>>
      /\ f.msg[2] \in Nat /\ f.msg[2] <= calls[t]
      /\ f.msg[2] = calls[t] => pc[t] \notin {"inc", "wrap"} /\ f.seq = iSeq[Peer(e)]

LEMMA StampedLasts ==
  ASSUME OneSender, IInv, [Next]_vars, NEW e \in Ends, NEW f, Stamped(e, f)
  PROVE  Stamped(e, f)'
<1> DEFINE t == f.msg[1]
<1>0. t \in Threads /\ Home[t] = Peer(e) /\ Peer(e) \in Ends
  BY PeerOfPeer DEF Stamped
<1>1. /\ calls \in [Threads -> 0..MaxCalls] /\ pc \in [Threads -> Labels] /\ MaxCalls \in Nat
      /\ iSeq \in [Ends -> Nat]
  BY SessionAssumption DEF IInv, TypeOK
<1>2. \/ calls'[t] = calls[t] + 1
      \/ /\ calls'[t] = calls[t]
         /\ pc[t] \notin {"inc", "wrap"} =>
              pc'[t] \notin {"inc", "wrap"} /\ iSeq'[Home[t]] = iSeq[Home[t]]
  <2>1. CASE SeqLoad(t)
    BY <2>1, <1>0, <1>1 DEF SeqLoad
  <2>2. CASE SeqStore(t) \/ SeqWrap(t)
    BY <2>2 DEF SeqStore, SeqWrap, Goto
  <2>3. CASE XSendCall(t) \/ XSendLock(t)
    BY <2>3, <1>0, <1>1 DEF XSendCall, XSendLock, Goto, appVars
  <2>4. CASE Stays(t)
    BY <2>4 DEF Stays, InXSend
  <2> QED
    BY <2>1, <2>2, <2>3, <2>4, <1>0, ThreadStep
<1>3. calls[t] \in Nat
  BY <1>0, <1>1
<1> QED
  BY <1>0, <1>2, <1>3 DEF Stamped

StampedInv ==
  /\ \A e \in Ends : \A f \in Known(e) : Stamped(e, f)
  /\ \A e \in Ends : \A f, g \in Known(e) : f.msg = g.msg => f.seq = g.seq
  /\ \A t \in Threads : pc[t] \in {"lock", "write"} => seq[t] = iSeq[Home[t]]

LEMMA StampStep == ASSUME OneSender PROVE IInv /\ StampedInv /\ [Next]_vars => StampedInv'
<1> SUFFICES ASSUME OneSender, IInv, StampedInv, [Next]_vars PROVE StampedInv'
  OBVIOUS
<1> USE SessionAssumption
<1>0. /\ pc \in [Threads -> Labels] /\ iSeq \in [Ends -> Nat] /\ seq \in [Threads -> Nat]
      /\ calls \in [Threads -> 0..MaxCalls]
  BY DEF IInv, TypeOK
<1>1. ASSUME NEW t \in Threads, pc'[t] \in {"lock", "write"} PROVE seq'[t] = iSeq'[Home[t]]
  <2>1. CASE SeqLoad(t) \/ SeqStore(t) \/ SeqWrap(t)
    BY <2>1, <1>0, <1>1 DEF SeqLoad, SeqStore, SeqWrap, Goto
  <2>2. CASE XSendCall(t)
    BY <2>2, <1>0 DEF XSendCall
  <2>3. CASE XSendLock(t)
    BY <2>3, <1>0 DEF XSendLock, Goto, StampedInv, appVars
  <2>4. CASE Stays(t)
    <3>1. pc'[t] = pc[t]
      BY <2>4, <1>1 DEF Stays
    <3> QED
      BY <2>4, <3>1, <1>1 DEF Stays, StampedInv
  <2> QED
    BY <2>1, <2>2, <2>3, <2>4, ThreadStep
<1>2. ASSUME NEW e \in Ends, NEW f \in Known(e) PROVE Stamped(e, f)'
  BY <1>2, StampedLasts DEF StampedInv
<1>3. ASSUME NEW e \in Ends, NEW t \in Threads, Home[t] = Peer(e), XSendWrite(t)
      PROVE  /\ Stamped(e, Requested(t))'
             /\ \A g \in Known(e) : g.msg = Requested(t).msg => g.seq = Requested(t).seq
  <2>1. /\ pc[t] = "write" /\ pc'[t] = "wait" /\ UNCHANGED <<calls, iSeq, seq>>
        /\ Requested(t).msg = <<t, calls[t]>> /\ Requested(t).seq = iSeq[Peer(e)]
        /\ calls[t] \in Nat
    BY <1>0, <1>3 DEF XSendWrite, Goto, appVars, Requested, Packet, StampedInv
  <2>2. Stamped(e, Requested(t))'
    <3> DEFINE g == Requested(t)
    <3>1. g' = g
      BY <2>1 DEF Requested, Packet
    <3>2. /\ g.msg[1] = t /\ g.msg[2] = calls[t] /\ pc'[t] \notin {"inc", "wrap"}
          /\ g.msg = <<t, g.msg[2]>>
      BY <2>1
    <3> HIDE DEF g
    <3>3. g.seq = iSeq'[Peer(e)] /\ g.msg[2] \in Nat /\ g.msg[2] = calls'[t]
      BY <2>1, <3>2 DEF g
    <3>4. Stamped(e, g)'
      BY <3>1, <3>2, <3>3, <1>3 DEF Stamped
    <3> QED
      BY <3>4 DEF g
  <2>3. ASSUME NEW g \in Known(e), g.msg = Requested(t).msg PROVE g.seq = Requested(t).seq
    <3>1. Stamped(e, g) /\ g.msg[1] = t /\ g.msg[2] = calls[t]
      BY <2>1, <2>3 DEF StampedInv
    <3> QED
      BY <2>1, <3>1 DEF Stamped
  <2> QED
    BY <2>2, <2>3
<1>4. ASSUME NEW e \in Ends
      PROVE  /\ \A f \in Known(e)' : Stamped(e, f)'
             /\ \A f, g \in Known(e)' : f.msg = g.msg => f.seq = g.seq
  <2>1. CASE Known(e)' \subseteq Known(e)
    BY <2>1, <1>2 DEF StampedInv
  <2>2. ASSUME NEW t \in Threads, Home[t] = Peer(e), XSendWrite(t),
               Known(e)' \subseteq Known(e) \cup {Requested(t)}
        PROVE  /\ \A f \in Known(e)' : Stamped(e, f)'
               /\ \A f, g \in Known(e)' : f.msg = g.msg => f.seq = g.seq
    <3>1. Requested(t)' = Requested(t)
      BY <2>2 DEF XSendWrite, Requested, Packet, appVars
    <3>2. \A f \in Known(e)' : Stamped(e, f)'
      BY <2>2, <3>1, <1>2, <1>3
    <3>3. \A f, g \in Known(e)' : f.msg = g.msg => f.seq = g.seq
      BY <2>2, <1>3 DEF StampedInv
    <3> QED
      BY <3>2, <3>3
  <2> QED
    BY <2>1, <2>2, KnownGrows
<1> QED
  BY <1>1, <1>4 DEF StampedInv

LEMMA TakesAnother ==
  ASSUME IInv, StampedInv, NEW e \in Ends, Took(e), Len(accepted[e]) # 0
  PROVE  LET last == accepted[e][Len(accepted[e])]
         IN  /\ [type |-> "req", seq |-> preSeq[e], msg |-> last] \in LastTaken(e)
             /\ last # cur[e].msg
             /\ last[1] \in Threads /\ Home[last[1]] = Peer(e) /\ last = <<last[1], last[2]>>
             /\ cur[e].msg[1] \in Threads /\ Home[cur[e].msg[1]] = Peer(e)
             /\ cur[e].msg = <<cur[e].msg[1], cur[e].msg[2]>>
<1> DEFINE msg == accepted[e][Len(accepted[e])]
           last == [type |-> "req", seq |-> preSeq[e], msg |-> msg]
<1>1. last \in LastTaken(e) /\ last \in Known(e)
  <2>1. accepted[e] # << >>
    BY EmptySeq
  <2> QED
    BY <2>1 DEF Known, LastTaken
<1>2. cur[e] \in Known(e)
  BY LastIsTheOneTook DEF Known
<1>3. last.msg = cur[e].msg => last.seq = cur[e].seq
  BY <1>1, <1>2 DEF StampedInv
<1>4. msg # cur[e].msg
  BY <1>3 DEF Took
<1>5. Stamped(e, last) /\ Stamped(e, cur[e])
  BY <1>1, <1>2 DEF StampedInv
<1>6. last.msg = msg
  OBVIOUS
<1> HIDE DEF last
<1>7. /\ msg[1] \in Threads /\ Home[msg[1]] = Peer(e) /\ msg = <<msg[1], msg[2]>>
      /\ cur[e].msg[1] \in Threads /\ Home[cur[e].msg[1]] = Peer(e)
      /\ cur[e].msg = <<cur[e].msg[1], cur[e].msg[2]>>
  BY <1>5, <1>6 DEF Stamped
<1> QED
  BY <1>1, <1>4, <1>7 DEF last

(* Retries of a packet have one number, so that preSeq filters them; a     *)
(* packet which is taken differs from the one taken before.                *)
LEMMA RetryStep == IInv /\ StampedInv /\ RetryNotRepeated /\ [Next]_vars => RetryNotRepeated'
<1> SUFFICES ASSUME IInv, StampedInv, RetryNotRepeated, [Next]_vars, NEW e \in Ends
             PROVE  \A i \in 1..Len(accepted'[e]) - 1 : accepted'[e][i] # accepted'[e][i+1]
  BY DEF RetryNotRepeated
<1>0. /\ accepted[e] \in Seq(Packets)
      /\ \A i \in 1..Len(accepted[e]) - 1 : accepted[e][i] # accepted[e][i+1]
  BY DEF IInv, TypeOK, RetryNotRepeated
<1>1. CASE Took(e)
  <2> DEFINE n == Len(accepted[e])
  <2>2. cur[e].msg \in Packets
    BY <1>1, LastIsTheOneTook
  <2>4. n # 0 => accepted[e][n] # cur[e].msg
    BY <1>1, TakesAnother
  <2>5. /\ Len(accepted'[e]) = n + 1 /\ n \in Nat
        /\ \A i \in 1..n : accepted'[e][i] = accepted[e][i]
        /\ accepted'[e][n+1] = cur[e].msg
    BY <1>0, <1>1, <2>2, AppendProperties, LenProperties DEF Took
  <2> HIDE DEF n
  <2> QED
    BY <1>0, <2>4, <2>5 DEF n
<1>2. CASE accepted'[e] = accepted[e]
  BY <1>0, <1>2
<1> QED
  BY <1>1, <1>2, LineStep DEF Quiet, Written, ReadIn, Parsed, Popped, Keeps

(* With one sender, consecutive callbacks are for different packets,       *)
(* whatever is lost, late, retried, or repeated by the parser.             *)
THEOREM RetriesAreFiltered == ASSUME OneSender PROVE Spec => []RetryNotRepeated
<1>1. Init => StampedInv /\ RetryNotRepeated
  BY SessionAssumption, InitLine, EmptySeq DEF Init, StampedInv, Known, RetryNotRepeated
<1>2. IInv /\ StampedInv /\ RetryNotRepeated /\ [Next]_vars => StampedInv' /\ RetryNotRepeated'
  BY StampStep, RetryStep
<1> QED
  BY <1>1, <1>2, AlwaysIInv, PTL DEF Spec

-----------------------------------------------------------------------------
(* One frame per read: the requests of a sender stay in the order of calls. *)

(* f's call is not later than g's.                                         *)
Older(f, g) == f.type = "req" /\ g.type = "req" => f.msg[2] <= g.msg[2]
AllOlder(A, B) == \A f \in A, g \in B : Older(f, g)
Sorted(s) == \A j, k \in 1..Len(s) : j < k => Older(s[j], s[k])

LEMMA SortedAppend ==
  ASSUME NEW s \in Seq(Frame), NEW f \in Frame, Sorted(s), AllOlder(ElementsOf(s), {f})
  PROVE  Sorted(Append(s, f))
<1>1. /\ Len(s) \in Nat /\ Len(Append(s, f)) = Len(s) + 1
      /\ \A i \in 1..Len(s) : Append(s, f)[i] = s[i] /\ s[i] \in ElementsOf(s)
      /\ Append(s, f)[Len(s) + 1] = f
  BY AppendProperties, LenProperties DEF ElementsOf
<1> QED
  BY <1>1 DEF Sorted, AllOlder

LEMMA SortedSplit ==
  ASSUME NEW s \in Seq(Frame), Sorted(s), NEW k \in Nat, k <= Len(s)
  PROVE  /\ Sorted(SubSeq(s, k + 1, Len(s))) /\ Len(SubSeq(s, 1, k)) = k
         /\ AllOlder(ElementsOf(SubSeq(s, 1, k)), ElementsOf(SubSeq(s, k + 1, Len(s))))
<1> DEFINE a == SubSeq(s, 1, k)
           b == SubSeq(s, k + 1, Len(s))
<1>1. Len(s) \in Nat /\ \A i \in 1..Len(s) : s[i] \in Frame
  BY LenProperties, ElementOfSeq
<1>2. a \in Seq(Frame) /\ Len(a) = k /\ \A i \in 1..k : a[i] = s[i]
  BY <1>1, SubSeqProperties
<1>3. b \in Seq(Frame) /\ Len(b) = Len(s) - k /\ \A i \in 1..Len(s) - k : b[i] = s[k + i]
  BY <1>1, SubSeqProperties
<1> HIDE DEF a, b
<1>4. DOMAIN a = 1..k /\ DOMAIN b = 1..Len(s) - k
  BY <1>2, <1>3, LenProperties
<1>5. /\ \A i \in 1..Len(s) - k : k + i \in 1..Len(s)
      /\ \A i \in 1..k : i \in 1..Len(s) /\ \A j \in 1..Len(s) - k : i < k + j
  BY <1>1
<1>6. Sorted(b)
  BY <1>1, <1>3, <1>5 DEF Sorted
<1>7. AllOlder(ElementsOf(a), ElementsOf(b))
  <2> SUFFICES ASSUME NEW i \in 1..k, NEW j \in 1..Len(s) - k PROVE Older(a[i], b[j])
    BY <1>4 DEF AllOlder, ElementsOf
  <2>1. i \in 1..Len(s) /\ k + j \in 1..Len(s) /\ i < k + j
    BY <1>5
  <2>2. Older(s[i], s[k + j])
    BY <2>1 DEF Sorted
  <2> QED
    BY <1>2, <1>3, <2>2
<1> QED
  BY <1>2, <1>6, <1>7 DEF a, b

LEMMA SortedTail ==
  ASSUME NEW s \in Seq(Frame), Sorted(s), s # << >>
  PROVE  Sorted(Tail(s)) /\ AllOlder({Head(s)}, ElementsOf(Tail(s)))
<1> DEFINE b == Tail(s)
<1>1. Len(s) \in Nat \ {0} /\ Head(s) = s[1]
  BY EmptySeq
<1>2. b \in Seq(Frame) /\ Len(b) = Len(s) - 1 /\ \A i \in 1..Len(b) : b[i] = s[i + 1]
  BY HeadTailProperties
<1> HIDE DEF b
<1>3. DOMAIN b = 1..Len(b)
  BY <1>2, LenProperties
<1>4. \A i \in 1..Len(b) : i + 1 \in 1..Len(s) /\ 1 < i + 1
  BY <1>1, <1>2
<1>5. Sorted(b)
  BY <1>1, <1>2, <1>4 DEF Sorted
<1>6. AllOlder({s[1]}, ElementsOf(b))
  BY <1>1, <1>2, <1>3, <1>4 DEF AllOlder, ElementsOf, Sorted
<1> QED
  BY <1>1, <1>5, <1>6 DEF b

(* The stages of a request, wire, parser, MsgQ, hand, taken, are in order, *)
(* and the parser holds one frame at most.                                 *)
OrderInv ==
  \A e \in Ends :
    LET W == ElementsOf(wire[Peer(e)])
        R == ElementsOf(rbuf[e])
        Q == ElementsOf(queue[e])
    IN  /\ chunk[e] = rbuf[e] /\ Len(rbuf[e]) <= 1
        /\ Sorted(wire[Peer(e)]) /\ Sorted(queue[e])
        /\ AllOlder(R, W) /\ AllOlder(Q, R \cup W)
        /\ AllOlder(InHand(e), Q \cup R \cup W)
        /\ AllOlder(LastTaken(e), InHand(e) \cup Q \cup R \cup W)

(* A new attempt is the youngest request.                                  *)
LEMMA NewestIsLast ==
  ASSUME OneSender, IInv, StampedInv, NEW e \in Ends, NEW t \in Threads, Home[t] = Peer(e)
  PROVE  AllOlder(InFlightTo(e) \cup InHand(e) \cup LastTaken(e), {Requested(t)})
<1> SUFFICES ASSUME NEW f \in InFlightTo(e) \cup InHand(e) \cup LastTaken(e), f.type = "req"
             PROVE  f.msg[2] <= calls[t]
  BY DEF AllOlder, Older, Requested, Packet
<1>1. Stamped(e, f)
  BY DEF StampedInv, Known
<1> QED
  BY <1>1 DEF Stamped, OneSender

LEMMA OrderStep ==
  ASSUME OneSender, MaxRead = 1
  PROVE  IInv /\ StampedInv /\ OrderInv /\ [Next]_vars => OrderInv'
<1> SUFFICES ASSUME IInv, StampedInv, OrderInv, [Next]_vars, NEW e \in Ends
             PROVE  /\ chunk'[e] = rbuf'[e] /\ Len(rbuf'[e]) <= 1
                    /\ Sorted(wire'[Peer(e)]) /\ Sorted(queue'[e])
                    /\ AllOlder(ElementsOf(rbuf'[e]), ElementsOf(wire'[Peer(e)]))
                    /\ AllOlder(ElementsOf(queue'[e]),
                                ElementsOf(rbuf'[e]) \cup ElementsOf(wire'[Peer(e)]))
                    /\ AllOlder(InHand(e)', ElementsOf(queue'[e]) \cup ElementsOf(rbuf'[e])
                                              \cup ElementsOf(wire'[Peer(e)]))
                    /\ AllOlder(LastTaken(e)',
                                InHand(e)' \cup ElementsOf(queue'[e]) \cup ElementsOf(rbuf'[e])
                                  \cup ElementsOf(wire'[Peer(e)]))
  BY DEF OrderInv, Sorted, ElementsOf, AllOlder, Older
<1> DEFINE Goal(w, r, c, q, H, L) ==
      /\ c = r /\ Len(r) <= 1 /\ Sorted(w) /\ Sorted(q)
      /\ AllOlder(ElementsOf(r), ElementsOf(w))
      /\ AllOlder(ElementsOf(q), ElementsOf(r) \cup ElementsOf(w))
      /\ AllOlder(H, ElementsOf(q) \cup ElementsOf(r) \cup ElementsOf(w))
      /\ AllOlder(L, H \cup ElementsOf(q) \cup ElementsOf(r) \cup ElementsOf(w))
<1> DEFINE w == wire[Peer(e)]
           r == rbuf[e]
           c == chunk[e]
           q == queue[e]
           H == InHand(e)
           L == LastTaken(e)
<1>0. Goal(w, r, c, q, H, L)
  BY DEF OrderInv
<1>1. /\ w \in Seq(Frame) /\ r \in Seq(Frame) /\ c \in Seq(Frame) /\ q \in Seq(Frame)
      /\ Len(<< >>) = 0 /\ ElementsOf(<< >>) = {}
  BY PeerOfPeer, EmptySeq DEF IInv, TypeOK, ElementsOf
<1>2. Keeps(e) => LastTaken(e)' = L
  BY DEF Keeps, LastTaken
<1> SUFFICES Goal(wire'[Peer(e)], rbuf'[e], chunk'[e], queue'[e], InHand(e)', LastTaken(e)')
  OBVIOUS
<1>3. CASE Quiet(e)
  BY <1>0, <1>2, <1>3 DEF Quiet, LineIs, AllOlder
<1>4. ASSUME NEW f \in Frame, Written(e, f),
             AllOlder(InFlightTo(e) \cup H \cup L, {f})
      PROVE  Goal(wire'[Peer(e)], rbuf'[e], chunk'[e], queue'[e], InHand(e)', LastTaken(e)')
  <2>1. /\ wire'[Peer(e)] = Append(w, f) /\ rbuf'[e] = r /\ chunk'[e] = c /\ queue'[e] = q
        /\ InHand(e)' = H /\ LastTaken(e)' = L
    BY <1>2, <1>4 DEF Written, LineIs
  <2>2. /\ ElementsOf(Append(w, f)) \subseteq ElementsOf(w) \cup {f}
        /\ ElementsOf(w) \subseteq InFlightTo(e) /\ ElementsOf(r) \subseteq InFlightTo(e)
        /\ ElementsOf(q) \subseteq InFlightTo(e)
    BY <1>1, ElementsOfAppend DEF InFlightTo
  <2>3. /\ AllOlder(ElementsOf(w), {f}) /\ AllOlder(ElementsOf(r), {f})
        /\ AllOlder(ElementsOf(q), {f}) /\ AllOlder(H, {f}) /\ AllOlder(L, {f})
    BY <1>4, <2>2 DEF AllOlder
  <2>4. Sorted(Append(w, f))
    BY <1>0, <1>1, <2>3, SortedAppend
  <2> HIDE DEF w, r, c, q, H, L
  <2> QED
    BY <1>0, <2>1, <2>2, <2>3, <2>4 DEF AllOlder
<1>5. CASE ReadIn(e, 1)
  <2> DEFINE s == SubSeq(w, 1, 1)
             v == SubSeq(w, 1 + 1, Len(w))
  <2>1. /\ wire'[Peer(e)] = v /\ rbuf'[e] = r \o s /\ chunk'[e] = s /\ queue'[e] = q
        /\ InHand(e)' = H /\ LastTaken(e)' = L /\ r = << >> /\ 1 <= Len(w)
    BY <1>0, <1>2, <1>5 DEF ReadIn, LineIs
  <2>2. /\ Sorted(v) /\ AllOlder(ElementsOf(s), ElementsOf(v)) /\ Len(s) = 1
        /\ ElementsOf(s) \subseteq ElementsOf(w) /\ ElementsOf(v) \subseteq ElementsOf(w)
        /\ s \in Seq(Frame)
    <3>1. /\ Sorted(v) /\ AllOlder(ElementsOf(s), ElementsOf(v)) /\ Len(s) = 1
      BY <1>0, <1>1, <2>1, SortedSplit
    <3>2. /\ ElementsOf(s) \subseteq ElementsOf(w) /\ ElementsOf(v) \subseteq ElementsOf(w)
          /\ s \in Seq(Frame)
      BY <1>1, <2>1, ElementsOfSplit
    <3> QED
      BY <3>1, <3>2
  <2> HIDE DEF s, v
  <2>3. r \o s = s
    BY <2>1, <2>2, ConcatEmptySeq
  <2>4. rbuf'[e] = s /\ s = chunk'[e] /\ Len(s) <= 1
    BY <2>1, <2>2, <2>3
  <2> HIDE DEF w, r, c, q, H, L
  <2>5. /\ Sorted(q) /\ AllOlder(ElementsOf(q), ElementsOf(w))
        /\ AllOlder(H, ElementsOf(q) \cup ElementsOf(w))
        /\ AllOlder(L, H \cup ElementsOf(q) \cup ElementsOf(w))
    BY <1>0 DEF AllOlder
  <2>6. /\ AllOlder(ElementsOf(q), ElementsOf(s) \cup ElementsOf(v))
        /\ AllOlder(H, ElementsOf(q) \cup ElementsOf(s) \cup ElementsOf(v))
        /\ AllOlder(L, H \cup ElementsOf(q) \cup ElementsOf(s) \cup ElementsOf(v))
    BY <2>2, <2>5 DEF AllOlder
  <2> QED
    BY <2>1, <2>2, <2>4, <2>5, <2>6
<1>6. CASE Parsed(e)
  <2>1. r # << >> /\ Len(r) = 1
    <3>1. r # << >> /\ Len(r) <= 1
      BY <1>0, <1>6 DEF Parsed
    <3>2. Len(r) \in Nat /\ (r = << >> <=> Len(r) = 0)
      BY <1>1, EmptyIff
    <3> DEFINE n == Len(r)
    <3>3. n \in Nat /\ n # 0 /\ n <= 1
      BY <3>1, <3>2
    <3> HIDE DEF n
    <3>4. n = 1
      BY <3>3
    <3> QED
      BY <3>1, <3>4 DEF n
  <2>2. Tail(r) = << >> /\ Head(r) \in ElementsOf(r) /\ Head(r) \in Frame
    <3>1. Tail(r) \in Seq(Frame) /\ Len(Tail(r)) = 0
      BY <1>1, <2>1, HeadTailProperties
    <3> QED
      BY <1>1, <2>1, <3>1, EmptyIff, ElementsOfTail
  <2>3. << >> \o << >> = << >>
    BY EmptySeq, ConcatEmptySeq
  <2>4. /\ wire'[Peer(e)] = w /\ rbuf'[e] = << >> /\ chunk'[e] = << >>
        /\ queue'[e] = q \/ queue'[e] = Append(q, Head(r))
        /\ InHand(e)' = H /\ LastTaken(e)' = L
    BY <1>0, <1>2, <1>6, <2>2, <2>3 DEF Parsed, LineIs
  <2>5. /\ Sorted(queue'[e])
        /\ ElementsOf(queue'[e]) \subseteq ElementsOf(q) \cup ElementsOf(r)
    <3>1. AllOlder(ElementsOf(q), {Head(r)})
      BY <1>0, <2>2 DEF AllOlder
    <3>2. Sorted(Append(q, Head(r)))
      BY <1>0, <1>1, <2>2, <3>1, SortedAppend
    <3>3. ElementsOf(Append(q, Head(r))) \subseteq ElementsOf(q) \cup {Head(r)}
      BY <1>1, <2>2, ElementsOfAppend
    <3> HIDE DEF w, r, c, q, H, L
    <3> QED
      BY <1>0, <2>2, <2>4, <3>2, <3>3
  <2> HIDE DEF w, r, c, q, H, L
  <2> QED
    BY <1>0, <1>1, <2>4, <2>5 DEF AllOlder
<1>7. CASE Popped(e)
  <2>1. /\ wire'[Peer(e)] = w /\ rbuf'[e] = r /\ chunk'[e] = c /\ queue'[e] = Tail(q)
        /\ q # << >> /\ InHand(e)' \subseteq {Head(q)} /\ LastTaken(e)' = L
    BY <1>2, <1>7 DEF Popped, LineIs
  <2>2. /\ Sorted(Tail(q)) /\ AllOlder({Head(q)}, ElementsOf(Tail(q)))
        /\ ElementsOf(Tail(q)) \subseteq ElementsOf(q) /\ Head(q) \in ElementsOf(q)
    BY <1>0, <1>1, <2>1, SortedTail, ElementsOfTail
  <2> HIDE DEF w, r, c, q, H, L
  <2> QED
    BY <1>0, <2>1, <2>2 DEF AllOlder
<1>8. CASE Took(e)
  <2>1. /\ wire'[Peer(e)] = w /\ rbuf'[e] = r /\ chunk'[e] = c /\ queue'[e] = q
        /\ InHand(e)' = {} /\ LastTaken(e)' = H
    BY <1>8, LastIsTheOneTook DEF Took, LineIs
  <2> HIDE DEF w, r, c, q, H, L
  <2> QED
    BY <1>0, <2>1 DEF AllOlder
<1> HIDE DEF Goal
<1>9. ASSUME NEW f \in Frame, Answer(Peer(e), f) PROVE AllOlder(InFlightTo(e) \cup H \cup L, {f})
  BY <1>9 DEF Answer, AllOlder, Older
<1>10. ASSUME NEW k \in 1..MaxRead, ReadIn(e, k) PROVE ReadIn(e, 1)
  BY <1>10
<1> QED
  BY <1>3, <1>4, <1>5, <1>6, <1>7, <1>8, <1>9, <1>10, NewestIsLast, LineStep

-----------------------------------------------------------------------------
(* What was taken is what was delivered, but for the packet the callback   *)
(* is about to get, and in the order of calls.                             *)
TakenInv ==
  \A e \in Ends :
    /\ \A i, j \in 1..Len(accepted[e]) : i < j => accepted[e][i][2] < accepted[e][j][2]
    /\ accepted[e] = IF dpc[e] = "callback" THEN Append(delivered[e], cur[e].msg)
                     ELSE delivered[e]

LEMMA CallOfPacket == ASSUME NEW m \in Packets PROVE m[2] \in Nat
BY SessionAssumption DEF Packets

LEMMA TakenStep ==
  ASSUME OneSender PROVE IInv /\ StampedInv /\ OrderInv /\ TakenInv /\ [Next]_vars => TakenInv'
<1> SUFFICES ASSUME IInv, StampedInv, OrderInv, TakenInv, [Next]_vars, NEW e \in Ends
             PROVE  /\ \A i, j \in 1..Len(accepted'[e]) :
                         i < j => accepted'[e][i][2] < accepted'[e][j][2]
                    /\ accepted'[e] = IF dpc'[e] = "callback"
                                      THEN Append(delivered'[e], cur'[e].msg)
                                      ELSE delivered'[e]
  BY DEF TakenInv
<1>0. /\ accepted \in [Ends -> Seq(Packets)] /\ delivered \in [Ends -> Seq(Packets)]
      /\ dpc \in [Ends -> DealLabels] /\ cur \in [Ends -> Frame \cup {NULL}]
      /\ accepted[e] \in Seq(Packets)
      /\ \A i, j \in 1..Len(accepted[e]) : i < j => accepted[e][i][2] < accepted[e][j][2]
      /\ accepted[e] = IF dpc[e] = "callback" THEN Append(delivered[e], cur[e].msg)
                       ELSE delivered[e]
  BY DEF IInv, TypeOK, TakenInv
<1>1. \A i, j \in 1..Len(accepted'[e]) : i < j => accepted'[e][i][2] < accepted'[e][j][2]
  <2>1. CASE Took(e)
    <3> DEFINE n == Len(accepted[e])
               m == cur[e].msg
    <3>1. m \in Packets
      BY <2>1, LastIsTheOneTook
    <3>2. /\ Len(accepted'[e]) = n + 1 /\ n \in Nat
          /\ \A i \in 1..n : accepted'[e][i] = accepted[e][i] /\ accepted[e][i][2] \in Nat
          /\ accepted'[e][n+1] = m /\ m[2] \in Nat
      <4>1. \A i \in 1..n : accepted[e][i] \in Packets
        BY <1>0, ElementOfSeq
      <4>2. /\ Len(accepted'[e]) = n + 1 /\ n \in Nat
            /\ \A i \in 1..n : accepted'[e][i] = accepted[e][i]
            /\ accepted'[e][n+1] = m
        BY <1>0, <2>1, <3>1, AppendProperties, LenProperties DEF Took
      <4> QED
        BY <4>1, <4>2, <3>1, CallOfPacket
    <3>3. n # 0 => accepted[e][n][2] < m[2]
      <4> SUFFICES ASSUME n # 0 PROVE accepted[e][n][2] < m[2]
        OBVIOUS
      <4> DEFINE last == accepted[e][n]
                 g == [type |-> "req", seq |-> preSeq[e], msg |-> last]
      <4>1. /\ g \in LastTaken(e) /\ last # m
            /\ last[1] \in Threads /\ Home[last[1]] = Peer(e) /\ last = <<last[1], last[2]>>
            /\ m[1] \in Threads /\ Home[m[1]] = Peer(e) /\ m = <<m[1], m[2]>>
        BY <2>1, TakesAnother
      <4>2. Older(g, cur[e])
        BY <2>1, <4>1, LastIsTheOneTook DEF OrderInv, AllOlder
      <4>3. last[2] <= m[2]
        BY <2>1, <4>2, LastIsTheOneTook DEF Older
      <4>4. last[1] = m[1]
        BY <4>1 DEF OneSender
      <4>5. last[2] # m[2]
        BY <4>1, <4>4
      <4>6. last[2] \in Nat /\ m[2] \in Nat
        BY <3>2
      <4> HIDE DEF last, m
      <4>7. last[2] < m[2]
        BY <4>3, <4>5, <4>6
      <4> QED
        BY <4>7 DEF last
    <3> HIDE DEF n, m
    <3>4. \A i \in 1..n : accepted[e][i][2] < m[2]
      <4> SUFFICES ASSUME NEW i \in 1..n PROVE accepted[e][i][2] < m[2]
        OBVIOUS
      <4>1. i = n \/ (i < n /\ n \in 1..n)
        BY <3>2
      <4>2. i < n /\ n \in 1..n => accepted[e][i][2] < accepted[e][n][2]
        BY <1>0 DEF n
      <4> QED
        BY <3>2, <3>3, <4>1, <4>2
    <3> SUFFICES ASSUME NEW i \in 1..(n + 1), NEW j \in 1..(n + 1), i < j
                 PROVE  accepted'[e][i][2] < accepted'[e][j][2]
      BY <3>2
    <3>5. i \in 1..n /\ (j = n + 1 \/ j \in 1..n)
      BY <3>2
    <3>6. CASE j = n + 1
      BY <3>2, <3>4, <3>5, <3>6
    <3>7. CASE j \in 1..n
      BY <3>2, <3>5, <3>7, <1>0 DEF n
    <3> QED
      BY <3>5, <3>6, <3>7
  <2>2. CASE accepted'[e] = accepted[e]
    BY <1>0, <2>2
  <2> QED
    BY <2>1, <2>2, LineStep DEF Quiet, Written, ReadIn, Parsed, Popped, Keeps
<1>2. accepted'[e] = IF dpc'[e] = "callback" THEN Append(delivered'[e], cur'[e].msg)
                     ELSE delivered'[e]
  <2>1. ASSUME NEW d \in Ends, DealAck(d) PROVE <1>2
    BY <2>1, <1>0 DEF DealAck, DealGoto
  <2>2. ASSUME NEW d \in Ends, DealCallback(d) PROVE <1>2
    BY <2>2, <1>0 DEF DealCallback, DealGoto
  <2>3. CASE UNCHANGED <<accepted, delivered>>
    <3>1. CASE UNCHANGED <<dpc, cur>>
      BY <2>3, <3>1, <1>0
    <3>2. ASSUME NEW d \in Ends, DealDuplicate(d) \/ DealTest(d) \/ DealCompare(d) \/ DealSignal(d)
                               \/ DealPop(d)
          PROVE  <1>2
      <4>1. CASE d = e
        <5>1. dpc[e] # "callback" /\ dpc'[e] # "callback"
          BY <3>2, <4>1, <1>0 DEF DealDuplicate, DealTest, DealCompare, DealSignal, DealPop,
             DealGoto
        <5> QED
          BY <5>1, <2>3, <1>0
      <4>2. CASE d # e
        <5>1. dpc'[e] = dpc[e] /\ cur'[e] = cur[e]
          BY <3>2, <4>2, <1>0 DEF DealDuplicate, DealTest, DealCompare, DealSignal, DealPop,
             DealGoto
        <5> QED
          BY <5>1, <2>3, <1>0
      <4> QED
        BY <4>1, <4>2
    <3> QED
      BY <3>1, <3>2, <2>1, <2>2, Effects
  <2> QED
    BY <2>1, <2>2, <2>3, Effects
<1> QED
  BY <1>1, <1>2

(* What was sent is in the order of calls, and a call that is to send its  *)
(* first frame is later than any.                                          *)
Fresh(t) == pc[t] \in {"inc", "wrap"} \/ (pc[t] = "call" /\ count[t] = 0)

SentOrder ==
  \A e \in Ends :
    /\ \A i, j \in 1..Len(sent[e]) : i < j => sent[e][i][2] < sent[e][j][2]
    /\ \A i \in 1..Len(sent[e]) :
         LET t == sent[e][i][1]
         IN  /\ t \in Threads /\ Home[t] = e /\ sent[e][i][2] <= calls[t]
             /\ Fresh(t) => sent[e][i][2] < calls[t]

LEMMA SentOrderStep == ASSUME OneSender PROVE IInv /\ SentOrder /\ [Next]_vars => SentOrder'
<1> DEFINE FreshNext(t) == pc'[t] \in {"inc", "wrap"} \/ (pc'[t] = "call" /\ count'[t] = 0)
<1> DEFINE Goal(e, s) ==
      /\ \A i, j \in 1..Len(s) : i < j => s[i][2] < s[j][2]
      /\ \A i \in 1..Len(s) :
           /\ s[i][1] \in Threads /\ Home[s[i][1]] = e /\ s[i][2] <= calls'[s[i][1]]
           /\ FreshNext(s[i][1]) => s[i][2] < calls'[s[i][1]]
<1> SUFFICES ASSUME IInv, SentOrder, [Next]_vars, NEW e \in Ends PROVE Goal(e, sent'[e])
  BY DEF SentOrder, Fresh
<1> USE SessionAssumption
<1>0. /\ pc \in [Threads -> Labels] /\ calls \in [Threads -> 0..MaxCalls]
      /\ count \in [Threads -> Nat] /\ sent \in [Ends -> Seq(Packets)]
      /\ sent[e] \in Seq(Packets)
  BY DEF IInv, TypeOK
<1>1. ASSUME NEW t \in Threads, NEW k \in Nat, k <= calls[t], Fresh(t) => k < calls[t]
      PROVE  k <= calls'[t] /\ (FreshNext(t) => k < calls'[t])
  <2>0. /\ pc[t] \in {"inc", "wrap"} => count[t] = 0
        /\ calls[t] \in Nat
    BY <1>0 DEF IInv, SentInv
  <2>1. CASE SeqLoad(t)
    BY <2>0, <2>1, <1>0, <1>1 DEF SeqLoad
  <2>2. CASE SeqStore(t) \/ SeqWrap(t)
    BY <2>0, <2>2, <1>0, <1>1 DEF SeqStore, SeqWrap, Goto, Fresh
  <2>3. CASE XSendCall(t)
    BY <2>0, <2>3, <1>0, <1>1 DEF XSendCall, Goto, Fresh
  <2>4. CASE XSendLock(t)
    BY <2>0, <2>4, <1>0, <1>1 DEF XSendLock, Goto, Fresh, appVars
  <2>5. CASE Stays(t)
    <3>1. calls'[t] = calls[t] /\ (FreshNext(t) => Fresh(t))
      BY <2>5 DEF Stays, Fresh, InXSend
    <3> QED
      BY <3>1, <1>1
  <2> QED
    BY <2>1, <2>2, <2>3, <2>4, <2>5, ThreadStep
<1>2. Goal(e, sent[e])
  <2>1. \A i \in 1..Len(sent[e]) : sent[e][i][2] \in Nat
    BY <1>0, ElementOfSeq, CallOfPacket
  <2> QED
    BY <2>1, <1>1 DEF SentOrder
<1>3. ASSUME NEW t \in Threads, XSendCall(t), count[t] = 0, Home[t] = e
      PROVE  Goal(e, Append(sent[e], Packet(t)))
  <2> DEFINE n == Len(sent[e])
             z == Append(sent[e], Packet(t))
             m == Packet(t)
  <2>1. /\ m \in Packets /\ m[1] = t /\ m[2] = calls[t] /\ calls[t] \in Nat
        /\ calls'[t] = calls[t] /\ pc'[t] = "lock" /\ Fresh(t)
    BY <1>0, <1>3 DEF IInv, SentInv, XSendCall, Goto, Packet, Packets, Fresh
  <2>2. /\ n \in Nat /\ Len(z) = n + 1 /\ \A i \in 1..n : z[i] = sent[e][i]
        /\ z[n + 1] = m
    BY <1>0, <2>1, AppendProperties, LenProperties
  <2>3. ~FreshNext(t)
    BY <2>1
  <2>4. \A i \in 1..n : sent[e][i][1] = t /\ sent[e][i][2] < m[2]
    BY <1>3, <2>1 DEF SentOrder, OneSender
  <2> HIDE DEF n, z, m
  <2>5. \A i \in 1..(n + 1) : i \in 1..n \/ i = n + 1
    BY <2>2
  <2>6. ASSUME NEW i \in 1..(n + 1), NEW j \in 1..(n + 1), i < j PROVE z[i][2] < z[j][2]
    <3>1. i \in 1..n
      BY <2>2, <2>6
    <3>2. CASE j = n + 1
      BY <3>1, <3>2, <2>2, <2>4
    <3>3. CASE j \in 1..n
      <4>1. sent[e][i][2] < sent[e][j][2]
        BY <3>1, <3>3, <2>6 DEF SentOrder, n
      <4> QED
        BY <3>1, <3>3, <4>1, <2>2
    <3> QED
      BY <3>2, <3>3, <2>5
  <2>7. ASSUME NEW i \in 1..(n + 1)
        PROVE  /\ z[i][1] \in Threads /\ Home[z[i][1]] = e /\ z[i][2] <= calls'[z[i][1]]
               /\ FreshNext(z[i][1]) => z[i][2] < calls'[z[i][1]]
    <3>1. CASE i \in 1..n
      BY <3>1, <1>2, <2>2 DEF n
    <3>2. CASE i = n + 1
      BY <3>2, <1>3, <2>1, <2>2, <2>3
    <3> QED
      BY <3>1, <3>2, <2>5
  <2> QED
    BY <2>2, <2>6, <2>7 DEF z
<1>4. ASSUME NEW t \in Threads, XSendCall(t)
      PROVE  \/ sent'[e] = sent[e]
             \/ count[t] = 0 /\ Home[t] = e /\ sent'[e] = Append(sent[e], Packet(t))
  <2>1. sent' = sent \/ (count[t] = 0 /\ sent' = [sent EXCEPT ![Home[t]] = Append(@, Packet(t))])
    BY <1>4 DEF XSendCall
  <2> QED
    BY <1>0, <2>1
<1>5. CASE sent'[e] = sent[e]
  BY <1>2, <1>5
<1> HIDE DEF Goal
<1> QED
  BY <1>3, <1>4, <1>5, Effects

-----------------------------------------------------------------------------
(* The packet the callback gets was sent after all that it has had.        *)
LEMMA DeliverStep ==
  ASSUME IInv, TakenInv, SentOrder, NEW e \in Ends, DealCallback(e)
  PROVE  \E i \in 1..Len(sent[Peer(e)]) : Channel!Deliver(e, i)
<1> DEFINE m == cur[e].msg
           s == sent[Peer(e)]
           d == delivered[e]
<1>1. /\ m \in ElementsOf(s) /\ m \in Packets /\ s \in Seq(Packets) /\ d \in Seq(Packets)
      /\ accepted[e] = Append(d, m) /\ Peer(e) \in Ends
      /\ delivered' = [delivered EXCEPT ![e] = Append(@, m)] /\ UNCHANGED sent
  BY PeerOfPeer DEF DealCallback, DealGoto, IInv, TypeOK, CurInv, Honest, Frame, TakenInv
<1>2. PICK i \in 1..Len(s) : s[i] = m
  BY <1>1, LenProperties DEF ElementsOf
<1>3. ASSUME NEW k \in 1..Len(d) PROVE d[k][2] < m[2] /\ d[k][2] \in Nat
  <2>1. /\ Len(accepted[e]) = Len(d) + 1 /\ Len(d) \in Nat /\ accepted[e][Len(d) + 1] = m
        /\ accepted[e][k] = d[k] /\ d[k] \in Packets
    BY <1>1, AppendProperties, LenProperties, ElementOfSeq
  <2>2. k \in 1..Len(d) + 1 /\ Len(d) + 1 \in 1..Len(d) + 1 /\ k < Len(d) + 1
    BY <2>1
  <2> QED
    BY <2>1, <2>2, CallOfPacket DEF TakenInv
<1>4. ASSUME NEW j \in i..Len(s) PROVE m[2] <= s[j][2] /\ s[j][2] \in Nat /\ m[2] \in Nat
  <2>1. Len(s) \in Nat /\ j \in 1..Len(s) /\ (j = i \/ i < j)
    BY <1>1, LenProperties
  <2>2. s[j] \in Packets
    BY <1>1, <2>1, ElementOfSeq
  <2>3. s[j][2] \in Nat /\ m[2] \in Nat
    BY <1>1, <2>2, CallOfPacket
  <2>4. i < j => s[i][2] < s[j][2]
    BY <1>1, <2>1 DEF SentOrder
  <2> QED
    BY <1>2, <2>1, <2>3, <2>4
<1>5. \A j \in i..Len(s), k \in 1..Len(d) : d[k] # s[j]
  <2> SUFFICES ASSUME NEW j \in i..Len(s), NEW k \in 1..Len(d) PROVE d[k][2] # s[j][2]
    OBVIOUS
  <2> HIDE DEF d, s, m
  <2> QED
    BY <1>3, <1>4
<1>6. Channel!Deliver(e, i)
  BY <1>1, <1>2, <1>5 DEF Channel!Deliver
<1> QED
  BY <1>2, <1>6

LEMMA SendStep ==
  ASSUME IInv, SentOrder, NEW t \in Threads, XSendCall(t)
  PROVE  \/ UNCHANGED sent
         \/ Channel!Send(Home[t], Packet(t)) /\ Packet(t) \in Packets
<1>1. /\ Packet(t) \in Packets /\ pc[t] = "call" /\ Home[t] \in Ends /\ calls[t] \in Nat
      /\ Packet(t)[1] = t /\ Packet(t)[2] = calls[t] /\ UNCHANGED delivered
  <2>1. pc[t] = "call" /\ UNCHANGED delivered
    BY DEF XSendCall, Goto, dealVars
  <2>2. calls[t] \in 1..MaxCalls
    BY <2>1 DEF IInv, SentInv
  <2> QED
    BY <2>1, <2>2, SessionAssumption DEF Packet, Packets
<1>2. CASE count[t] = 0
  <2>1. \A i \in 1..Len(sent[Home[t]]) : sent[Home[t]][i] # Packet(t)
    <3> SUFFICES ASSUME NEW i \in 1..Len(sent[Home[t]]), sent[Home[t]][i] = Packet(t) PROVE FALSE
      OBVIOUS
    <3>1. Packet(t)[2] < calls[t]
      BY <1>1, <1>2 DEF SentOrder, Fresh
    <3> QED
      BY <1>1, <3>1
  <2> QED
    BY <1>1, <1>2, <2>1 DEF XSendCall, Channel!Send
<1> QED
  BY <1>2 DEF XSendCall

OneSenderInv == IInv /\ StampedInv /\ OrderInv /\ TakenInv /\ SentOrder

(* With one sender in each process and one frame per read, each direction  *)
(* is a channel that loses packets, and neither repeats nor reorders them. *)
THEOREM ImplementsChannel == ASSUME OneSender, MaxRead = 1 PROVE Spec => ChannelSpec
<1>1. Init => OneSenderInv
  <2> SUFFICES ASSUME Init PROVE OneSenderInv
    OBVIOUS
  <2>1. StampedInv
    BY SessionAssumption, InitLine DEF Init, StampedInv, Known
  <2>2. OrderInv
    <3>1. Len(<< >>) = 0 /\ ElementsOf(<< >>) = {}
      BY EmptySeq DEF ElementsOf
    <3>2. \A e \in Ends : /\ wire[Peer(e)] = << >> /\ rbuf[e] = << >> /\ chunk[e] = << >>
                          /\ queue[e] = << >> /\ InHand(e) = {} /\ LastTaken(e) = {}
      BY PeerOfPeer, InitLine DEF Init
    <3> QED
      BY <3>1, <3>2 DEF OrderInv, AllOlder, Sorted
  <2>3. TakenInv /\ SentOrder
    BY EmptySeq DEF Init, TakenInv, SentOrder
  <2> QED
    BY <2>1, <2>2, <2>3, InitIInv DEF OneSenderInv
<1>2. OneSenderInv /\ IInv' /\ [Next]_vars => OneSenderInv'
  BY StampStep, OrderStep, TakenStep, SentOrderStep DEF OneSenderInv
<1>3. Init => Channel!Init
  BY DEF Init, Channel!Init
<1>4. OneSenderInv /\ [Next]_vars => [Channel!Next]_<<sent, delivered>>
  <2> SUFFICES ASSUME OneSenderInv, [Next]_vars PROVE [Channel!Next]_<<sent, delivered>>
    OBVIOUS
  <2>1. ASSUME NEW t \in Threads, XSendCall(t) PROVE [Channel!Next]_<<sent, delivered>>
    <3>1. UNCHANGED delivered
      BY <2>1 DEF XSendCall, dealVars
    <3>2. Home[t] \in Ends
      BY SessionAssumption
    <3> QED
      BY <2>1, <3>1, <3>2, SendStep DEF OneSenderInv, Channel!Next
  <2>2. ASSUME NEW e \in Ends, DealCallback(e) PROVE Channel!Next
    BY <2>2, DeliverStep DEF OneSenderInv, Channel!Next
  <2>3. CASE UNCHANGED sent /\ UNCHANGED delivered
    BY <2>3
  <2> QED
    BY <2>1, <2>2, <2>3, Effects
<1> QED
  BY <1>1, <1>2, <1>3, <1>4, AlwaysIInv, PTL DEF Spec, ChannelSpec, Channel!Spec
=============================================================================
