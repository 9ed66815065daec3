-------------------------- MODULE SessionAcksProofs --------------------------
(***************************************************************************)
(* The count of acks: for any number of application threads, but reads of  *)
(* one frame, no waiter is told of success without an ack of its own, and  *)
(* no ack is made without a packet that was taken.                         *)
(***************************************************************************)
EXTENDS SessionProofs, FiniteSetTheorems

(* The packets of e whose sendData returned 0, and those for whom it will  *)
OkOf(e) == {m \in ok : Home[m[1]] = e}
Woken(e) == {t \in ThreadsOf(e) : pc[t] = "woken"}

(* The acks in a sequence of frames                                        *)
AcksIn(s) == {i \in 1..Len(s) : s[i].type = "ack"}
AckCount(s) == Cardinality(AcksIn(s))
One(f) == IF f.type = "ack" THEN 1 ELSE 0

(* Acks for e that have not become a signal                                *)
Dealing(e) == IF dpc[e] \in {"response", "compare", "signal"} THEN 1 ELSE 0
Pending(e) == AckCount(wire[Peer(e)]) + AckCount(rbuf[e]) + AckCount(queue[e]) + Dealing(e)

Taken(e) == Len(accepted[Peer(e)])
Told(e) == Cardinality(OkOf(e)) + Cardinality(Woken(e))

(* With reads of one frame, OnRecvMsg never has a rest to append again.    *)
OneFrame(e) == chunk[e] = rbuf[e] /\ Len(rbuf[e]) <= 1

AcksInv ==
  \A e \in Ends : /\ OneFrame(e) /\ IsFiniteSet(OkOf(e)) /\ IsFiniteSet(Woken(e))
                  /\ Told(e) + Pending(e) <= Taken(e)

-----------------------------------------------------------------------------
(* The count of acks is a number.                                          *)
LEMMA AckCountType ==
  ASSUME NEW s \in Seq(Frame)
  PROVE  IsFiniteSet(AcksIn(s)) /\ AckCount(s) \in Nat /\ AcksIn(s) \subseteq 1..Len(s)
<1>1. Len(s) \in Nat
  BY LenProperties
<1>2. AcksIn(s) \in SUBSET (1..Len(s)) /\ IsFiniteSet(1..Len(s))
  BY <1>1, FS_Interval DEF AcksIn
<1>3. IsFiniteSet(AcksIn(s))
  BY <1>2, FS_Subset
<1> QED
  BY <1>2, <1>3, FS_CardinalityType DEF AckCount

(* There is no ack in nothing.                                             *)
LEMMA AckCountEmpty == AckCount(<< >>) = 0
<1>1. AcksIn(<< >>) = {}
  BY EmptySeq DEF AcksIn
<1> QED
  BY <1>1, FS_EmptySet DEF AckCount

(* A frame put behind the others counts for itself,                        *)
LEMMA AckCountAppend ==
  ASSUME NEW s \in Seq(Frame), NEW f \in Frame
  PROVE  AckCount(Append(s, f)) = AckCount(s) + One(f)
<1>1. /\ Len(s) \in Nat /\ Len(Append(s, f)) = Len(s) + 1 /\ Append(s, f)[Len(s) + 1] = f
      /\ \A i \in 1..Len(s) : Append(s, f)[i] = s[i]
  BY AppendProperties, LenProperties
<1>2. AcksIn(Append(s, f)) = AcksIn(s) \cup (IF f.type = "ack" THEN {Len(s) + 1} ELSE {})
  <2>1. \A i : i \in 1..Len(s) + 1 <=> i \in 1..Len(s) \/ i = Len(s) + 1
    BY <1>1
  <2> QED
    BY <1>1, <2>1 DEF AcksIn
<1>3. IsFiniteSet(AcksIn(s)) /\ Len(s) + 1 \notin AcksIn(s) /\ AckCount(s) \in Nat
  BY <1>1, AckCountType
<1>4. CASE f.type = "ack"
  BY <1>2, <1>3, <1>4, FS_AddElement DEF AckCount, One
<1>5. CASE f.type # "ack"
  <2>1. AcksIn(Append(s, f)) = AcksIn(s)
    BY <1>2, <1>5
  <2> QED
    BY <2>1, <1>3, <1>5 DEF AckCount, One
<1> QED
  BY <1>4, <1>5

(* and so does the one taken from the front.                               *)
LEMMA AckCountTail ==
  ASSUME NEW s \in Seq(Frame), s # << >>
  PROVE  AckCount(s) = One(Head(s)) + AckCount(Tail(s))
<1>1. /\ Tail(s) \in Seq(Frame) /\ Len(Tail(s)) = Len(s) - 1
      /\ \A i \in 1..Len(Tail(s)) : Tail(s)[i] = s[i+1]
  BY HeadTailProperties
<1>2. Len(s) \in Nat \ {0} /\ Head(s) = s[1]
  BY EmptySeq
<1> DEFINE T == AcksIn(Tail(s))
           S == AcksIn(s) \ {1}
           f == [i \in T |-> i + 1]
<1>3. \A i \in 1..Len(Tail(s)) : i + 1 \in 1..Len(s)
  BY <1>1, <1>2
<1>4. f \in [T -> S]
  BY <1>1, <1>2, <1>3 DEF AcksIn
<1>5. \A i, j \in T : f[i] = f[j] => i = j
  BY DEF AcksIn
<1>6. \A j \in S : \E i \in T : f[i] = j
  <2> SUFFICES ASSUME NEW j \in S PROVE j - 1 \in T /\ f[j - 1] = j
    OBVIOUS
  <2>1. j \in 1..Len(s) /\ j # 1 /\ s[j].type = "ack"
    BY DEF AcksIn
  <2>2. j - 1 \in 1..Len(Tail(s)) /\ (j - 1) + 1 = j
    BY <2>1, <1>1, <1>2
  <2>3. j - 1 \in T
    BY <2>1, <2>2, <1>1 DEF AcksIn
  <2> QED
    BY <2>2, <2>3
<1>7. IsFiniteSet(T) /\ IsFiniteSet(AcksIn(s)) /\ AckCount(s) \in Nat
  BY <1>1, AckCountType
<1>8. ExistsBijection(T, S)
  <2> HIDE DEF T, S, f
  <2>1. f \in Bijection(T, S)
    BY <1>4, <1>5, <1>6 DEF Bijection, Injection, Surjection, IsInjective
  <2> QED
    BY <2>1 DEF ExistsBijection
<1>9. IsFiniteSet(S) /\ Cardinality(S) = AckCount(Tail(s))
  BY <1>7, <1>8, FS_Bijection DEF AckCount
<1>10. Cardinality(S) = IF 1 \in AcksIn(s) THEN AckCount(s) - 1 ELSE AckCount(s)
  BY <1>7, FS_RemoveElement DEF AckCount
<1>11. 1 \in AcksIn(s) <=> Head(s).type = "ack"
  BY <1>2 DEF AcksIn
<1> QED
  BY <1>7, <1>9, <1>10, <1>11 DEF One

(* Where one frame is the most, a frame is the only one.                   *)
LEMMA OneIfNotEmpty ==
  ASSUME NEW s \in Seq(Frame), Len(s) <= 1, s # << >>
  PROVE  Len(s) = 1
<1>1. \A n \in Nat \ {0} : n <= 1 => n = 1
  OBVIOUS
<1>2. Len(s) \in Nat \ {0}
  BY EmptySeq
<1> QED
  BY <1>1, <1>2, Zenon

(* It counts for all.                                                      *)
LEMMA AckCountShort ==
  ASSUME NEW s \in Seq(Frame), Len(s) = 1
  PROVE  s # << >> /\ Head(s) \in Frame /\ AckCount(s) = One(Head(s)) /\ Tail(s) = << >>
<1>1. s # << >>
  BY EmptySeq
<1>2. Head(s) \in Frame /\ Tail(s) \in Seq(Frame) /\ Len(Tail(s)) = 0
  BY <1>1, HeadTailProperties
<1>3. Tail(s) = << >>
  BY <1>2, EmptySeq
<1>4. AckCount(s) = One(Head(s)) + AckCount(Tail(s)) /\ One(Head(s)) \in Nat
  BY <1>1, AckCountTail DEF One
<1>5. AckCount(Tail(s)) = 0
  BY <1>3, AckCountEmpty
<1> QED
  BY <1>1, <1>2, <1>3, <1>4, <1>5

(* A read of one frame *)
LEMMA ReadOne ==
  ASSUME NEW w \in Seq(Frame), 1 <= Len(w)
  PROVE  /\ SubSeq(w, 1, 1) \in Seq(Frame) /\ Len(SubSeq(w, 1, 1)) = 1
         /\ SubSeq(w, 2, Len(w)) \in Seq(Frame)
         /\ AckCount(w) = AckCount(SubSeq(w, 1, 1)) + AckCount(SubSeq(w, 2, Len(w)))
<1>1. Len(w) \in Nat /\ w # << >> /\ \A i \in 1..Len(w) : w[i] \in Frame
  BY EmptySeq, LenProperties, ElementOfSeq
<1>2. /\ SubSeq(w, 1, 1) \in Seq(Frame) /\ Len(SubSeq(w, 1, 1)) = 1
      /\ SubSeq(w, 1, 1)[1] = w[1]
  BY <1>1, SubSeqProperties
<1>3. SubSeq(w, 2, Len(w)) = Tail(w) /\ Tail(w) \in Seq(Frame)
  BY <1>1, TailIsSubSeq, HeadTailProperties
<1>5. Head(SubSeq(w, 1, 1)) = Head(w)
  <2>1. SubSeq(w, 1, 1) # << >>
    BY <1>2, EmptySeq
  <2> QED
    BY <1>1, <1>2, <2>1
<1> QED
  BY <1>1, <1>2, <1>3, <1>5, AckCountShort, AckCountTail

-----------------------------------------------------------------------------
(* Every step keeps its bargain: an ack is made for a packet taken, and    *)
(* becomes one signal at most.                                             *)
LineKeeps(e, spent) ==
  OneFrame(e)' /\ Pending(e)' + spent + Taken(e) <= Pending(e) + Taken(e)'

(* The places of an ack, and what stands in them                           *)
LEMMA LineTypes ==
  ASSUME IInv, NEW e \in Ends
  PROVE  /\ Peer(e) \in Ends /\ Peer(e) # e /\ \A d \in Ends : d = e \/ d = Peer(e)
         /\ wire[Peer(e)] \in Seq(Frame) /\ rbuf[e] \in Seq(Frame)
         /\ queue[e] \in Seq(Frame) /\ accepted[Peer(e)] \in Seq(Packets)
         /\ AckCount(wire[Peer(e)]) \in Nat /\ AckCount(rbuf[e]) \in Nat
         /\ AckCount(queue[e]) \in Nat /\ Dealing(e) \in {0, 1} /\ Dealing(e)' \in {0, 1}
         /\ Pending(e) \in Nat /\ Taken(e) \in Nat
<1>1. /\ Peer(e) \in Ends /\ Peer(e) # e /\ \A d \in Ends : d = e \/ d = Peer(e)
  BY DEF Ends, Peer
<1>2. /\ wire[Peer(e)] \in Seq(Frame) /\ rbuf[e] \in Seq(Frame)
      /\ queue[e] \in Seq(Frame) /\ accepted[Peer(e)] \in Seq(Packets)
  BY <1>1 DEF IInv, TypeOK
<1>3. Taken(e) \in Nat
  BY <1>2, LenProperties DEF Taken
<1>4. Dealing(e) \in {0, 1} /\ Dealing(e)' \in {0, 1}
  BY DEF Dealing
<1>5. /\ AckCount(wire[Peer(e)]) \in Nat /\ AckCount(rbuf[e]) \in Nat
      /\ AckCount(queue[e]) \in Nat
  BY <1>2, AckCountType
<1> QED
  BY <1>1, <1>2, <1>3, <1>4, <1>5 DEF Pending

(* The same of the counts after a step.                                    *)
LEMMA LineTypesNext ==
  ASSUME IInv', NEW e \in Ends
  PROVE  Pending(e)' \in Nat /\ Taken(e)' \in Nat
<1>1. Peer(e) \in Ends
  BY DEF Ends, Peer
<1>2. TypeOK'
  BY DEF IInv
<1>3. /\ wire'[Peer(e)] \in Seq(Frame) /\ rbuf'[e] \in Seq(Frame)
      /\ queue'[e] \in Seq(Frame) /\ accepted'[Peer(e)] \in Seq(Packets)
  BY <1>1, <1>2 DEF TypeOK
<1>4. Len(accepted'[Peer(e)]) \in Nat
  BY <1>3, LenProperties
<1>5. Dealing(e)' \in {0, 1}
  BY DEF Dealing
<1>6. /\ AckCount(wire'[Peer(e)]) \in Nat /\ AckCount(rbuf'[e]) \in Nat
      /\ AckCount(queue'[e]) \in Nat
  BY <1>3, AckCountType
<1> QED
  BY <1>4, <1>5, <1>6 DEF Pending, Taken

(* Steps elsewhere change no count.                                        *)
LEMMA LineSame ==
  ASSUME IInv, NEW e \in Ends, OneFrame(e),
         wire'[Peer(e)] = wire[Peer(e)], rbuf'[e] = rbuf[e], chunk'[e] = chunk[e],
         queue'[e] = queue[e], dpc'[e] = dpc[e], accepted'[Peer(e)] = accepted[Peer(e)]
  PROVE  LineKeeps(e, 0)
<1>1. OneFrame(e)'
  BY DEF OneFrame
<1>2. Pending(e)' = Pending(e) /\ Taken(e)' = Taken(e)
  BY DEF Pending, Dealing, Taken
<1>3. Pending(e) \in Nat /\ Taken(e) \in Nat
  BY LineTypes
<1> QED
  BY <1>1, <1>2, <1>3 DEF LineKeeps

(* A request written is no ack.                                            *)
LEMMA WriteKeeps ==
  ASSUME IInv, NEW e \in Ends, OneFrame(e),
         NEW t \in Threads, XSendWrite(t)
  PROVE  LineKeeps(e, 0)
<1>0. /\ Peer(e) \in Ends /\ Peer(e) # e
      /\ wire[Peer(e)] \in Seq(Frame) /\ rbuf[e] \in Seq(Frame) /\ queue[e] \in Seq(Frame)
      /\ AckCount(wire[Peer(e)]) \in Nat /\ AckCount(rbuf[e]) \in Nat
      /\ AckCount(queue[e]) \in Nat /\ Dealing(e) \in {0, 1} /\ Pending(e) \in Nat
      /\ Taken(e) \in Nat
  BY LineTypes
<1> DEFINE req == [type |-> "req", seq |-> seq[t], msg |-> Packet(t)]
<1>1. req \in Frame /\ One(req) = 0
  <2>1. Packet(t) \in Packets /\ seq[t] \in Nat
    BY DEF XSendWrite, Goto, IInv, TypeOK, SentInv, InXSend, Packet, Packets
  <2> QED
    BY <2>1 DEF Frame, One
<1>2. wire' = [wire EXCEPT ![Home[t]] = Append(@, req)] /\ UNCHANGED <<readVars, dpc, accepted>>
  BY DEF XSendWrite, dealVars
<1> HIDE DEF req
<1>3. wire'[Peer(e)] = wire[Peer(e)] \/ wire'[Peer(e)] = Append(wire[Peer(e)], req)
  BY <1>2, <1>0 DEF IInv, TypeOK
<1>4. AckCount(Append(wire[Peer(e)], req)) = AckCount(wire[Peer(e)]) + One(req)
  BY <1>1, <1>0, AckCountAppend
<1>5. AckCount(Append(wire[Peer(e)], req)) = AckCount(wire[Peer(e)])
  BY <1>0, <1>1, <1>4
<1>6. AckCount(wire'[Peer(e)]) = AckCount(wire[Peer(e)])
  BY <1>3, <1>5, Zenon
<1>7. OneFrame(e)' /\ Pending(e)' = Pending(e) /\ Taken(e)' = Taken(e)
  BY <1>2, <1>6 DEF OneFrame, Pending, Dealing, Taken, readVars
<1> QED
  BY <1>0, <1>7 DEF LineKeeps

(* A read moves one frame to the parser,                                   *)
LEMMA ReadKeeps ==
  ASSUME IInv, MaxRead = 1, NEW e \in Ends, OneFrame(e),
         NEW d \in Ends, NEW k \in 1..MaxRead, Recv(d, k)
  PROVE  LineKeeps(e, 0)
<1>0. /\ Peer(e) \in Ends /\ Peer(e) # e
      /\ wire[Peer(e)] \in Seq(Frame) /\ rbuf[e] \in Seq(Frame) /\ queue[e] \in Seq(Frame)
      /\ AckCount(wire[Peer(e)]) \in Nat /\ AckCount(rbuf[e]) \in Nat
      /\ AckCount(queue[e]) \in Nat /\ Dealing(e) \in {0, 1} /\ Pending(e) \in Nat
      /\ Taken(e) \in Nat
  BY LineTypes
<1>1. UNCHANGED <<queue, dpc, accepted>> /\ k = 1
  BY DEF Recv, dealVars
<1>2. CASE d = e
  <2> DEFINE w == wire[Peer(e)]
             s == SubSeq(w, 1, k)
             v == SubSeq(w, k + 1, Len(w))
  <2>1. chunk[e] = << >> /\ 1 <= Len(w)
    BY <1>1, <1>2 DEF Recv
  <2>2. /\ s \in Seq(Frame) /\ Len(s) = 1 /\ v \in Seq(Frame)
        /\ AckCount(w) = AckCount(s) + AckCount(v)
    <3>1. k = 1 /\ k + 1 = 2
      BY <1>1
    <3> QED
      BY <3>1, <2>1, <1>0, ReadOne
  <2>3. AckCount(s) \in Nat /\ AckCount(v) \in Nat
    BY <2>2, AckCountType
  <2>4. wire'[Peer(e)] = v /\ chunk'[e] = s /\ rbuf'[e] = rbuf[e] \o s
    <3>1. wire \in [Ends -> Seq(Frame)] /\ chunk \in [Ends -> Seq(Frame)]
          /\ rbuf \in [Ends -> Seq(Frame)]
      BY DEF IInv, TypeOK
    <3> QED
      BY <3>1, <1>2, <1>0 DEF Recv
  <2> HIDE DEF s, v
  <2>5. rbuf'[e] = s
    <3>1. rbuf[e] = << >>
      BY <2>1 DEF OneFrame
    <3> QED
      BY <2>2, <2>4, <3>1, ConcatEmptySeq
  <2>6. AckCount(rbuf[e]) = 0
    BY <2>1, AckCountEmpty DEF OneFrame
  <2>7. /\ AckCount(wire'[Peer(e)]) = AckCount(v) /\ AckCount(rbuf'[e]) = AckCount(s)
        /\ AckCount(queue'[e]) = AckCount(queue[e]) /\ Dealing(e)' = Dealing(e)
        /\ Taken(e)' = Taken(e)
    BY <1>1, <2>4, <2>5 DEF Dealing, Taken
  <2>8. Pending(e)' = Pending(e)
    <3>1. Pending(e)' = AckCount(v) + AckCount(s) + AckCount(queue[e]) + Dealing(e)
      BY <2>7 DEF Pending
    <3>2. Pending(e) = AckCount(s) + AckCount(v) + 0 + AckCount(queue[e]) + Dealing(e)
      BY <2>2, <2>6 DEF Pending
    <3> QED
      BY <3>1, <3>2, <2>3, <1>0
  <2>9. OneFrame(e)'
    <3>1. chunk'[e] = rbuf'[e] /\ Len(rbuf'[e]) = 1
      BY <2>2, <2>4, <2>5
    <3> QED
      BY <3>1 DEF OneFrame
  <2> QED
    BY <2>7, <2>8, <2>9, <1>0 DEF LineKeeps
<1>3. CASE d # e
  <2>1. wire'[Peer(e)] = wire[Peer(e)] /\ rbuf'[e] = rbuf[e] /\ chunk'[e] = chunk[e]
    BY <1>3, <1>0, PeerOfPeer DEF Recv, IInv, TypeOK
  <2> QED
    BY <1>1, <2>1, LineSame
<1> QED
  BY <1>2, <1>3

(* which moves it to MsgQ or drops it.                                     *)
LEMMA ParseKeeps ==
  ASSUME IInv, NEW e \in Ends, OneFrame(e),
         NEW d \in Ends, ParseFrame(d) \/ ParseCorrupted(d)
  PROVE  LineKeeps(e, 0)
<1>0. /\ Peer(e) \in Ends /\ Peer(e) # e
      /\ wire[Peer(e)] \in Seq(Frame) /\ rbuf[e] \in Seq(Frame) /\ queue[e] \in Seq(Frame)
      /\ AckCount(wire[Peer(e)]) \in Nat /\ AckCount(rbuf[e]) \in Nat
      /\ AckCount(queue[e]) \in Nat /\ Dealing(e) \in {0, 1} /\ Pending(e) \in Nat
      /\ Taken(e) \in Nat
  BY LineTypes
<1>1. UNCHANGED <<wire, dpc, accepted>>
  BY DEF ParseFrame, ParseCorrupted, dealVars
<1>2. CASE d = e
  <2>1. Len(rbuf[e]) = 1
    <3>1. chunk[e] # << >>
      BY <1>2 DEF ParseFrame, ParseCorrupted
    <3> QED
      BY <3>1, <1>0, OneIfNotEmpty DEF OneFrame
  <2>2. /\ Head(rbuf[e]) \in Frame /\ Tail(rbuf[e]) = << >>
        /\ AckCount(rbuf[e]) = One(Head(rbuf[e]))
    BY <2>1, <1>0, AckCountShort
  <2>3. /\ chunk'[e] = << >> /\ rbuf'[e] = << >>
        /\ queue'[e] \in {queue[e], Append(queue[e], Head(rbuf[e]))}
    <3>0. /\ rbuf \in [Ends -> Seq(Frame)] /\ chunk \in [Ends -> Seq(Frame)]
          /\ queue \in [Ends -> Seq(Frame)] /\ << >> \o << >> = << >>
      BY SMTT(30) DEF IInv, TypeOK
    <3>1. CASE ParseFrame(e)
      <4>1. Tail(chunk[e]) = << >>
        BY <2>2 DEF OneFrame
      <4>2. chunk'[e] = Tail(chunk[e])
        BY <3>0, <3>1 DEF ParseFrame
      <4>3. rbuf'[e] = Tail(rbuf[e]) \o Tail(chunk[e])
        BY <3>0, <3>1 DEF ParseFrame
      <4>4. queue'[e] \in {queue[e], Append(queue[e], Head(rbuf[e]))}
        <5>1. CASE queue' = queue
          BY <5>1
        <5>2. CASE queue' = [queue EXCEPT ![e] = Append(@, Head(rbuf[e]))]
          BY <3>0, <5>2
        <5> QED
          BY <3>1, <5>1, <5>2, Zenon DEF ParseFrame
      <4> QED
        BY <3>0, <4>1, <4>2, <4>3, <4>4, <2>2
    <3>2. CASE ParseCorrupted(e)
      BY <3>0, <3>2, <2>2 DEF ParseCorrupted
    <3> QED
      BY <3>1, <3>2, <1>2
  <2>4. AckCount(queue'[e]) <= AckCount(queue[e]) + AckCount(rbuf[e])
    <3>1. AckCount(Append(queue[e], Head(rbuf[e]))) = AckCount(queue[e]) + AckCount(rbuf[e])
      BY <2>2, <1>0, AckCountAppend
    <3>2. \/ AckCount(queue'[e]) = AckCount(queue[e])
          \/ AckCount(queue'[e]) = AckCount(Append(queue[e], Head(rbuf[e])))
      BY <2>3, Zenon
    <3> QED
      BY <3>1, <3>2, <1>0
  <2>5. AckCount(queue'[e]) \in Nat
    BY <2>2, <2>3, <1>0, AckCountType, AppendProperties
  <2>6. AckCount(rbuf'[e]) = 0 /\ OneFrame(e)'
    BY <2>3, AckCountEmpty, EmptySeq DEF OneFrame
  <2>7. Dealing(e)' = Dealing(e) /\ Taken(e)' = Taken(e)
    BY <1>1 DEF Dealing, Taken
  <2>8. Pending(e)' \in Nat /\ Pending(e)' <= Pending(e)
    <3>1. Pending(e)' = AckCount(wire[Peer(e)]) + 0 + AckCount(queue'[e]) + Dealing(e)
      BY <1>1, <2>6, <2>7 DEF Pending
    <3> DEFINE w == AckCount(wire[Peer(e)])
               r == AckCount(rbuf[e])
               q == AckCount(queue[e])
               z == AckCount(queue'[e])
               h == Dealing(e)
    <3>2. w \in Nat /\ r \in Nat /\ q \in Nat /\ z \in Nat /\ h \in Nat /\ z <= q + r
      BY <1>0, <2>4, <2>5
    <3>3. Pending(e)' = w + 0 + z + h /\ Pending(e) = w + r + q + h
      BY <3>1 DEF Pending
    <3> HIDE DEF w, r, q, z, h
    <3>4. w + 0 + z + h \in Nat /\ w + 0 + z + h <= w + r + q + h
      BY <3>2
    <3> QED
      BY <3>3, <3>4
  <2> QED
    <3>1. Pending(e)' + 0 + Taken(e) <= Pending(e) + Taken(e)'
      BY <1>0, <2>7, <2>8
    <3> QED
      BY <2>6, <3>1 DEF LineKeeps
<1>3. CASE d # e
  <2>1. rbuf'[e] = rbuf[e] /\ chunk'[e] = chunk[e] /\ queue'[e] = queue[e]
    <3>1. /\ rbuf \in [Ends -> Seq(Frame)] /\ chunk \in [Ends -> Seq(Frame)]
          /\ queue \in [Ends -> Seq(Frame)]
      BY SMTT(30) DEF IInv, TypeOK
    <3>2. CASE ParseFrame(d)
      BY <1>3, <3>1, <3>2 DEF ParseFrame
    <3>3. CASE ParseCorrupted(d)
      BY <1>3, <3>1, <3>3 DEF ParseCorrupted
    <3> QED
      BY <3>2, <3>3
  <2> QED
    BY <1>1, <2>1, LineSame
<1> QED
  BY <1>2, <1>3

(* ThreadDeal spends the ack in hand by its signal, or drops it.           *)
LEMMA DealKeeps ==
  ASSUME IInv, NEW e \in Ends, OneFrame(e),
         NEW d \in Ends,
         \/ DealDuplicate(d) \/ DealCallback(d) \/ DealTest(d) \/ DealCompare(d) \/ DealSignal(d)
  PROVE  LineKeeps(e, IF d = e /\ DealSignal(d) THEN 1 ELSE 0)
<1>0. /\ Peer(e) \in Ends /\ Peer(e) # e
      /\ wire[Peer(e)] \in Seq(Frame) /\ rbuf[e] \in Seq(Frame) /\ queue[e] \in Seq(Frame)
      /\ AckCount(wire[Peer(e)]) \in Nat /\ AckCount(rbuf[e]) \in Nat
      /\ AckCount(queue[e]) \in Nat /\ Dealing(e) \in {0, 1} /\ Pending(e) \in Nat
      /\ Taken(e) \in Nat
  BY LineTypes
<1>1. UNCHANGED <<wire, rbuf, chunk, queue, accepted>>
  BY DEF DealDuplicate, DealCallback, DealTest, DealCompare, DealSignal, readVars
<1>2. dpc \in [Ends -> DealLabels]
  BY DEF IInv, TypeOK
<1>3. OneFrame(e)' /\ Taken(e)' = Taken(e)
  BY <1>1 DEF OneFrame, Taken
<1>4. Pending(e)' = AckCount(wire[Peer(e)]) + AckCount(rbuf[e]) + AckCount(queue[e]) + Dealing(e)'
  BY <1>1 DEF Pending
<1>5. CASE d = e /\ DealSignal(d)
  <2>1. Dealing(e) = 1 /\ Dealing(e)' = 0
    BY <1>2, <1>5 DEF DealSignal, DealGoto, Dealing
  <2>2. Pending(e)' \in Nat /\ Pending(e)' + 1 = Pending(e)
    BY <1>0, <1>4, <2>1 DEF Pending
  <2>3. LineKeeps(e, 1)
    BY <1>0, <1>3, <2>2 DEF LineKeeps
  <2> QED
    BY <1>5, <2>3, Zenon
<1>6. CASE ~(d = e /\ DealSignal(d))
  <2>1. Dealing(e)' \in {0, 1} /\ Dealing(e)' <= Dealing(e)
    <3>1. CASE d = e
      BY <1>2, <1>6, <3>1 DEF DealDuplicate, DealCallback, DealTest, DealCompare, DealGoto, Dealing
    <3>2. CASE d # e
      <4>1. dpc'[e] = dpc[e]
        BY <1>2, <3>2 DEF DealDuplicate, DealCallback, DealTest, DealCompare, DealSignal, DealGoto
      <4> QED
        BY <1>0, <4>1 DEF Dealing
    <3> QED
      BY <3>1, <3>2
  <2>2. Pending(e)' \in Nat /\ Pending(e)' <= Pending(e)
    BY <1>0, <1>4, <2>1 DEF Pending
  <2>3. LineKeeps(e, 0)
    BY <1>0, <1>3, <2>2 DEF LineKeeps
  <2> QED
    BY <1>6, <2>3, Zenon
<1> QED
  BY <1>5, <1>6

(* A pop moves one frame to ThreadDeal.                                    *)
LEMMA PopKeeps ==
  ASSUME IInv, NEW e \in Ends, OneFrame(e),
         NEW d \in Ends, DealPop(d)
  PROVE  LineKeeps(e, 0)
<1>0. /\ Peer(e) \in Ends /\ Peer(e) # e
      /\ wire[Peer(e)] \in Seq(Frame) /\ rbuf[e] \in Seq(Frame) /\ queue[e] \in Seq(Frame)
      /\ AckCount(wire[Peer(e)]) \in Nat /\ AckCount(rbuf[e]) \in Nat
      /\ AckCount(queue[e]) \in Nat /\ Dealing(e) \in {0, 1} /\ Pending(e) \in Nat
      /\ Taken(e) \in Nat
  BY LineTypes
<1>1. UNCHANGED <<wire, rbuf, chunk, accepted>>
  BY DEF DealPop
<1>2. dpc \in [Ends -> DealLabels] /\ queue \in [Ends -> Seq(Frame)]
  BY DEF IInv, TypeOK
<1>3. CASE d = e
  <2>1. /\ queue[e] # << >> /\ dpc[e] = "pop" /\ queue'[e] = Tail(queue[e])
        /\ dpc'[e] = IF Head(queue[e]).type = "req" THEN "request" ELSE "response"
    BY <1>2, <1>3 DEF DealPop, DealGoto
  <2>2. Head(queue[e]) \in Frame /\ Tail(queue[e]) \in Seq(Frame)
    BY <1>0, <2>1, HeadTailProperties
  <2>3. AckCount(queue[e]) = One(Head(queue[e])) + AckCount(Tail(queue[e]))
    BY <1>0, <2>1, AckCountTail
  <2>4. AckCount(Tail(queue[e])) \in Nat /\ AckCount(queue'[e]) = AckCount(Tail(queue[e]))
    BY <2>1, <2>2, AckCountType
  <2>5. Dealing(e) = 0 /\ Dealing(e)' = One(Head(queue[e])) /\ Dealing(e)' \in {0, 1}
    BY <2>1, <2>2 DEF Dealing, One, Frame
  <2>6. OneFrame(e)' /\ Taken(e)' = Taken(e)
    BY <1>1 DEF OneFrame, Taken
  <2>7. Pending(e)' = AckCount(wire[Peer(e)]) + AckCount(rbuf[e]) + AckCount(queue'[e])
                      + Dealing(e)'
    BY <1>1 DEF Pending
  <2>8. Pending(e)' \in Nat /\ Pending(e)' = Pending(e)
    BY <1>0, <2>3, <2>4, <2>5, <2>7 DEF Pending
  <2> QED
    BY <1>0, <2>6, <2>8 DEF LineKeeps
<1>4. CASE d # e
  <2>1. dpc'[e] = dpc[e] /\ queue'[e] = queue[e]
    BY <1>2, <1>4 DEF DealPop, DealGoto
  <2> QED
    BY <1>1, <2>1, LineSame
<1> QED
  BY <1>3, <1>4

(* An ack costs the packet it is for. *)
LEMMA AckKeeps ==
  ASSUME IInv, NEW e \in Ends, OneFrame(e),
         NEW d \in Ends, DealAck(d)
  PROVE  LineKeeps(e, 0)
<1>0. /\ Peer(e) \in Ends /\ Peer(e) # e
      /\ wire[Peer(e)] \in Seq(Frame) /\ rbuf[e] \in Seq(Frame) /\ queue[e] \in Seq(Frame)
      /\ AckCount(wire[Peer(e)]) \in Nat /\ AckCount(rbuf[e]) \in Nat
      /\ AckCount(queue[e]) \in Nat /\ Dealing(e) \in {0, 1} /\ Pending(e) \in Nat
      /\ Taken(e) \in Nat
  BY LineTypes
<1> DEFINE ack == [cur[d] EXCEPT !.type = "ack"]
<1>1. ack \in Frame /\ One(ack) = 1
  BY DEF DealAck, DealGoto, IInv, CurInv, Honest, Frame, One
<1>2. /\ UNCHANGED <<rbuf, chunk, queue>>
      /\ wire' = [wire EXCEPT ![d] = Append(@, ack)] \/ UNCHANGED wire
      /\ dpc[d] = "request" /\ dpc' = [dpc EXCEPT ![d] = "callback"]
      /\ accepted' = [accepted EXCEPT ![d] = Append(@, cur[d].msg)] /\ cur[d].msg \in Packets
  BY DEF DealAck, DealGoto, readVars, IInv, CurInv, Honest, Frame
<1>3. /\ dpc \in [Ends -> DealLabels] /\ wire \in [Ends -> Seq(Frame)]
      /\ accepted \in [Ends -> Seq(Packets)]
  BY DEF IInv, TypeOK
<1> HIDE DEF ack
<1>4. OneFrame(e)'
  BY <1>2 DEF OneFrame
<1>5. CASE d = e
  <2>1. /\ wire'[Peer(e)] = wire[Peer(e)] /\ accepted'[Peer(e)] = accepted[Peer(e)]
        /\ dpc[e] = "request" /\ dpc'[e] = "callback"
    BY <1>0, <1>2, <1>3, <1>5
  <2>2. Taken(e)' = Taken(e) /\ Pending(e)' = Pending(e)
    BY <1>2, <2>1 DEF Taken, Pending, Dealing
  <2> QED
    BY <1>0, <1>4, <2>2 DEF LineKeeps
<1>6. CASE d = Peer(e)
  <2> DEFINE w == wire[Peer(e)]
  <2>1. /\ wire'[Peer(e)] = w \/ wire'[Peer(e)] = Append(w, ack)
        /\ dpc'[e] = dpc[e] /\ accepted'[Peer(e)] = Append(accepted[Peer(e)], cur[d].msg)
    BY <1>0, <1>2, <1>3, <1>6
  <2>2. Taken(e)' = Taken(e) + 1
    BY <2>1, <1>0, <1>2, <1>3, AppendProperties DEF Taken
  <2>3. AckCount(Append(w, ack)) = AckCount(w) + 1
    <3>1. AckCount(Append(w, ack)) = AckCount(w) + One(ack)
      BY <1>0, <1>1, AckCountAppend
    <3> QED
      BY <1>1, <3>1
  <2>4. \/ AckCount(wire'[Peer(e)]) = AckCount(w)
        \/ AckCount(wire'[Peer(e)]) = AckCount(Append(w, ack))
    BY <2>1, Zenon
  <2>5. AckCount(wire'[Peer(e)]) \in Nat /\ AckCount(wire'[Peer(e)]) <= AckCount(w) + 1
    BY <1>0, <2>3, <2>4
  <2>6. Dealing(e)' = Dealing(e)
    BY <2>1 DEF Dealing
  <2>7. Pending(e)' = AckCount(wire'[Peer(e)]) + AckCount(rbuf[e]) + AckCount(queue[e]) + Dealing(e)
    BY <1>2, <2>6 DEF Pending
  <2>8. Pending(e)' \in Nat /\ Pending(e)' <= Pending(e) + 1
    <3> DEFINE a == AckCount(wire'[Peer(e)])
               b == AckCount(w)
               r == AckCount(rbuf[e])
               q == AckCount(queue[e])
               h == Dealing(e)
    <3>1. a \in Nat /\ b \in Nat /\ r \in Nat /\ q \in Nat /\ h \in Nat /\ a <= b + 1
      BY <1>0, <2>5
    <3>2. Pending(e)' = a + r + q + h /\ Pending(e) = b + r + q + h
      BY <2>7 DEF Pending
    <3> HIDE DEF a, b, r, q, h
    <3>3. a + r + q + h \in Nat /\ a + r + q + h <= (b + r + q + h) + 1
      BY <3>1
    <3> QED
      BY <3>2, <3>3
  <2> QED
    BY <1>0, <1>4, <2>2, <2>8 DEF LineKeeps
<1> QED
  BY <1>5, <1>6 DEF Ends, Peer

(* No step makes an ack without a packet taken; a signal spends one.       *)
LEMMA LineStepKeeps ==
  ASSUME IInv, MaxRead = 1, [Next]_vars, NEW e \in Ends, OneFrame(e)
  PROVE  LineKeeps(e, IF DealSignal(e) THEN 1 ELSE 0)
<1>1. ASSUME NEW d \in Ends,
             \/ DealDuplicate(d) \/ DealCallback(d) \/ DealTest(d) \/ DealCompare(d)
             \/ DealSignal(d)
      PROVE  LineKeeps(e, IF d = e /\ DealSignal(d) THEN 1 ELSE 0)
  BY <1>1, DealKeeps
<1>2. CASE DealSignal(e)
  <2>1. LineKeeps(e, IF e = e /\ DealSignal(e) THEN 1 ELSE 0)
    BY <1>1, <1>2
  <2> QED
    BY <1>2, <2>1
<1>3. CASE ~DealSignal(e)
  <2>1. ASSUME NEW d \in Ends,
               \/ DealDuplicate(d) \/ DealCallback(d) \/ DealTest(d) \/ DealCompare(d)
               \/ DealSignal(d)
        PROVE  LineKeeps(e, 0)
    <3>1. ~(d = e /\ DealSignal(d))
      BY <1>3
    <3>2. LineKeeps(e, IF d = e /\ DealSignal(d) THEN 1 ELSE 0)
      BY <1>1, <2>1
    <3>3. (IF d = e /\ DealSignal(d) THEN 1 ELSE 0) = 0
      BY <3>1
    <3> QED
      BY <3>2, <3>3, Zenon
  <2>2. ASSUME UNCHANGED <<wire, readVars, dpc, accepted>> PROVE LineKeeps(e, 0)
    <3>1. /\ wire'[Peer(e)] = wire[Peer(e)] /\ rbuf'[e] = rbuf[e] /\ chunk'[e] = chunk[e]
          /\ queue'[e] = queue[e] /\ dpc'[e] = dpc[e] /\ accepted'[Peer(e)] = accepted[Peer(e)]
      BY <2>2 DEF readVars
    <3> QED
      BY <3>1, LineSame
  <2>3. ASSUME NEW t \in Threads, XSendWrite(t) PROVE LineKeeps(e, 0)
    BY <2>3, WriteKeeps
  <2>4. ASSUME NEW d \in Ends, NEW k \in 1..MaxRead, Recv(d, k) PROVE LineKeeps(e, 0)
    BY <2>4, ReadKeeps
  <2>5. ASSUME NEW d \in Ends, ParseFrame(d) \/ ParseCorrupted(d) PROVE LineKeeps(e, 0)
    BY <2>5, ParseKeeps
  <2>6. ASSUME NEW d \in Ends, DealPop(d) PROVE LineKeeps(e, 0)
    BY <2>6, PopKeeps
  <2>7. ASSUME NEW d \in Ends, DealAck(d) PROVE LineKeeps(e, 0)
    BY <2>7, AckKeeps
  <2>8. LineKeeps(e, 0)
    BY <2>1, <2>2, <2>3, <2>4, <2>5, <2>6, <2>7, Effects
  <2> QED
    BY <1>3, <2>8, Zenon
<1> QED
  BY <1>2, <1>3

-----------------------------------------------------------------------------
(* What one element more, or one less, does to the size of a finite set.   *)
LEMMA OneMore ==
  ASSUME NEW S, IsFiniteSet(S), NEW x
  PROVE  /\ IsFiniteSet(S \cup {x}) /\ Cardinality(S \cup {x}) \in Nat
         /\ Cardinality(S \cup {x}) <= Cardinality(S) + 1
<1>1. /\ IsFiniteSet(S \cup {x})
      /\ Cardinality(S \cup {x}) = IF x \in S THEN Cardinality(S) ELSE Cardinality(S) + 1
  BY FS_AddElement
<1>2. Cardinality(S) \in Nat
  BY FS_CardinalityType
<1> QED
  BY <1>1, <1>2

(* A set less one of its elements                                          *)
LEMMA OneLess ==
  ASSUME NEW S, IsFiniteSet(S), NEW x \in S
  PROVE  /\ IsFiniteSet(S \ {x}) /\ Cardinality(S \ {x}) \in Nat
         /\ Cardinality(S \ {x}) + 1 = Cardinality(S)
<1>1. IsFiniteSet(S \ {x}) /\ Cardinality(S \ {x}) = Cardinality(S) - 1
  BY FS_RemoveElement
<1>2. Cardinality(S) \in Nat /\ Cardinality(S \ {x}) \in Nat
  BY <1>1, FS_CardinalityType
<1> QED
  BY <1>1, <1>2

(* A success is told to a thread that was woken, and a signal wakes one.   *)
LEMMA ToldStep ==
  ASSUME IInv, ~SpuriousWakeups, [Next]_vars, NEW e \in Ends,
         IsFiniteSet(OkOf(e)), IsFiniteSet(Woken(e))
  PROVE  /\ IsFiniteSet(OkOf(e)') /\ IsFiniteSet(Woken(e)')
         /\ Told(e) \in Nat /\ Told(e)' \in Nat
         /\ Told(e)' <= Told(e) + IF DealSignal(e) THEN 1 ELSE 0
<1>0. /\ Cardinality(OkOf(e)) \in Nat /\ Cardinality(Woken(e)) \in Nat
      /\ pc \in [Threads -> Labels] /\ Told(e) \in Nat
  BY FS_CardinalityType DEF IInv, TypeOK, Told
<1>1. ASSUME OkOf(e)' = OkOf(e), Woken(e)' \subseteq Woken(e)
      PROVE  /\ IsFiniteSet(OkOf(e)') /\ IsFiniteSet(Woken(e)')
             /\ Told(e)' \in Nat /\ Told(e)' <= Told(e)
  <2>1. IsFiniteSet(Woken(e)') /\ Cardinality(Woken(e)') <= Cardinality(Woken(e))
    BY <1>1, FS_Subset
  <2>2. Cardinality(Woken(e)') \in Nat
    BY <2>1, FS_CardinalityType
  <2> QED
    BY <1>0, <1>1, <2>1, <2>2 DEF Told
<1>2. ASSUME NEW t \in Threads, XSendAcked(t)
      PROVE  /\ IsFiniteSet(OkOf(e)') /\ IsFiniteSet(Woken(e)')
             /\ Told(e)' \in Nat /\ Told(e)' <= Told(e)
  <2>1. /\ ok' = ok \cup {Packet(t)} /\ pc[t] = "woken" /\ pc' = [pc EXCEPT ![t] = "idle"]
    BY <1>2 DEF XSendAcked, Goto
  <2>2. CASE Home[t] # e
    <3>1. OkOf(e)' = OkOf(e)
      BY <2>1, <2>2 DEF OkOf, Packet
    <3>2. Woken(e)' \subseteq Woken(e)
      BY <1>0, <2>1 DEF Woken, ThreadsOf
    <3> QED
      BY <1>1, <3>1, <3>2
  <2>3. CASE Home[t] = e
    <3>1. OkOf(e)' = OkOf(e) \cup {Packet(t)}
      BY <2>1, <2>3 DEF OkOf, Packet
    <3>2. Woken(e)' = Woken(e) \ {t} /\ t \in Woken(e)
      BY <1>0, <2>1, <2>3 DEF Woken, ThreadsOf
    <3>3. IsFiniteSet(OkOf(e)') /\ Cardinality(OkOf(e)') \in Nat
          /\ Cardinality(OkOf(e)') <= Cardinality(OkOf(e)) + 1
      BY <1>0, <3>1, OneMore
    <3>4. IsFiniteSet(Woken(e)') /\ Cardinality(Woken(e)') \in Nat
          /\ Cardinality(Woken(e)') + 1 = Cardinality(Woken(e))
      BY <1>0, <3>2, OneLess
    <3> QED
      BY <1>0, <3>3, <3>4 DEF Told
  <2> QED
    BY <2>2, <2>3
<1>3. ASSUME NEW d \in Ends, DealSignal(d)
      PROVE  /\ IsFiniteSet(OkOf(e)') /\ IsFiniteSet(Woken(e)')
             /\ Told(e)' \in Nat /\ Told(e)' <= Told(e) + IF DealSignal(e) THEN 1 ELSE 0
  <2>1. OkOf(e)' = OkOf(e)
    BY <1>3 DEF DealSignal, OkOf
  <2>2. CASE UNCHANGED pc
    <3>1. Woken(e)' = Woken(e)
      BY <2>2 DEF Woken, ThreadsOf
    <3> QED
      BY <1>0, <1>1, <2>1, <3>1
  <2>3. ASSUME NEW t \in Waiters(d), pc' = [pc EXCEPT ![t] = "woken"]
        PROVE  /\ IsFiniteSet(OkOf(e)') /\ IsFiniteSet(Woken(e)')
               /\ Told(e)' \in Nat /\ Told(e)' <= Told(e) + IF DealSignal(e) THEN 1 ELSE 0
    <3>1. t \in Threads /\ Home[t] = d
      BY DEF Waiters, ThreadsOf
    <3>2. CASE d # e
      <4>1. Woken(e)' = Woken(e)
        BY <1>0, <2>3, <3>1, <3>2 DEF Woken, ThreadsOf
      <4> QED
        BY <1>0, <1>1, <2>1, <4>1
    <3>3. CASE d = e
      <4>1. Woken(e)' = Woken(e) \cup {t}
        BY <1>0, <2>3, <3>1, <3>3 DEF Woken, ThreadsOf
      <4>2. IsFiniteSet(Woken(e)') /\ Cardinality(Woken(e)') \in Nat
            /\ Cardinality(Woken(e)') <= Cardinality(Woken(e)) + 1
        BY <1>0, <4>1, OneMore
      <4>3. Told(e)' \in Nat /\ Told(e)' <= Told(e) + 1
        BY <1>0, <2>1, <4>2 DEF Told
      <4> QED
        BY <1>3, <2>1, <3>3, <4>2, <4>3
    <3> QED
      BY <3>2, <3>3
  <2> QED
    BY <1>3, <2>2, <2>3 DEF DealSignal
<1>4. ASSUME NEW t \in Threads,
             \/ SeqLoad(t) \/ SeqStore(t) \/ SeqWrap(t) \/ XSendCall(t) \/ XSendLock(t)
             \/ XSendWrite(t) \/ Timeout(t) \/ Fail(t, "write") \/ Fail(t, "timedout")
      PROVE  OkOf(e)' = OkOf(e) /\ Woken(e)' \subseteq Woken(e)
  <2>1. UNCHANGED ok
    BY <1>4 DEF SeqLoad, SeqStore, SeqWrap, XSendCall, XSendLock, XSendWrite, Timeout, Fail
  <2>2. \E l \in Labels \ {"woken"} : pc' = [pc EXCEPT ![t] = l]
    BY <1>4 DEF SeqLoad, SeqStore, SeqWrap, XSendCall, XSendLock, XSendWrite, Timeout, Fail,
       Goto, Labels, InXSend
  <2>3. \A u \in Threads : pc'[u] = "woken" => pc[u] = "woken"
    BY <1>0, <2>2
  <2> QED
    BY <2>1, <2>3 DEF OkOf, Woken, ThreadsOf
<1>5. \A t \in Threads : ~SpuriousWakeup(t)
  BY DEF SpuriousWakeup
<1>6. CASE UNCHANGED <<pc, ok>>
  BY <1>0, <1>1, <1>6 DEF OkOf, Woken, ThreadsOf
<1>7. \/ UNCHANGED <<pc, ok>> \/ \E d \in Ends : DealSignal(d)
      \/ \E t \in Threads : \/ SeqLoad(t) \/ SeqStore(t) \/ SeqWrap(t) \/ XSendCall(t)
                             \/ XSendLock(t) \/ XSendWrite(t) \/ Timeout(t)
                             \/ Fail(t, "write") \/ Fail(t, "timedout") \/ XSendAcked(t)
  BY <1>5, Effects
<1>8. CASE \E t \in Threads : \/ SeqLoad(t) \/ SeqStore(t) \/ SeqWrap(t) \/ XSendCall(t)
                              \/ XSendLock(t) \/ XSendWrite(t) \/ Timeout(t)
                              \/ Fail(t, "write") \/ Fail(t, "timedout")
  BY <1>0, <1>1, <1>4, <1>8
<1>9. CASE \E t \in Threads : XSendAcked(t)
  BY <1>0, <1>2, <1>9
<1> QED
  BY <1>0, <1>3, <1>6, <1>7, <1>8, <1>9

(* The count holds: a signal wakes one waiter, and a waiter returns once.  *)
LEMMA AcksStep ==
  ASSUME MaxRead = 1, ~SpuriousWakeups
  PROVE  IInv /\ IInv' /\ AcksInv /\ [Next]_vars => AcksInv'
<1> SUFFICES ASSUME IInv, IInv', AcksInv, [Next]_vars, NEW e \in Ends
             PROVE  /\ OneFrame(e)' /\ IsFiniteSet(OkOf(e)') /\ IsFiniteSet(Woken(e)')
                    /\ Told(e)' + Pending(e)' <= Taken(e)'
  BY DEF AcksInv
<1>1. /\ OneFrame(e) /\ IsFiniteSet(OkOf(e)) /\ IsFiniteSet(Woken(e))
      /\ Told(e) + Pending(e) <= Taken(e)
  BY DEF AcksInv
<1> DEFINE n == IF DealSignal(e) THEN 1 ELSE 0
<1>2. n \in Nat
  OBVIOUS
<1>3. OneFrame(e)' /\ Pending(e)' + n + Taken(e) <= Pending(e) + Taken(e)'
  BY <1>1, LineStepKeeps DEF LineKeeps
<1>4. /\ IsFiniteSet(OkOf(e)') /\ IsFiniteSet(Woken(e)')
      /\ Told(e) \in Nat /\ Told(e)' \in Nat /\ Told(e)' <= Told(e) + n
  BY <1>1, ToldStep
<1>5. Pending(e) \in Nat /\ Taken(e) \in Nat
  BY LineTypes
<1>6. Pending(e)' \in Nat /\ Taken(e)' \in Nat
  BY LineTypesNext
<1> HIDE DEF n
<1>7. Told(e)' + Pending(e)' <= Taken(e)'
  BY <1>1, <1>2, <1>3, <1>4, <1>5, <1>6
<1> QED
  BY <1>3, <1>4, <1>7

(* With one frame per read and no spurious wakeups, a process is never     *)
(* told more successes than its peer has taken packets, however many       *)
(* threads send at once and whichever of them a signal wakes.              *)
THEOREM SuccessesBacked ==
  ASSUME MaxRead = 1, ~SpuriousWakeups PROVE Spec => []SuccessesAreBacked
<1>1. Init => AcksInv
  <2> SUFFICES ASSUME Init, NEW e \in Ends
               PROVE  /\ OneFrame(e) /\ IsFiniteSet(OkOf(e)) /\ IsFiniteSet(Woken(e))
                      /\ Told(e) + Pending(e) <= Taken(e)
    BY DEF AcksInv
  <2>1. OkOf(e) = {} /\ Woken(e) = {}
    BY DEF Init, OkOf, Woken, ThreadsOf
  <2>2. /\ wire[Peer(e)] = << >> /\ rbuf[e] = << >> /\ chunk[e] = << >> /\ queue[e] = << >>
        /\ dpc[e] = "pop" /\ accepted[Peer(e)] = << >>
    BY PeerOfPeer DEF Init
  <2>3. OneFrame(e) /\ Taken(e) = 0
    BY <2>2, EmptySeq DEF OneFrame, Taken
  <2>4. AckCount(wire[Peer(e)]) = 0 /\ AckCount(rbuf[e]) = 0 /\ AckCount(queue[e]) = 0
    BY <2>2, AckCountEmpty
  <2>5. Told(e) = 0 /\ Pending(e) = 0
    BY <2>1, <2>2, <2>4, FS_EmptySet DEF Told, Pending, Dealing
  <2> QED
    BY <2>1, <2>3, <2>5, FS_EmptySet
<1>2. IInv /\ AcksInv => SuccessesAreBacked
  <2> SUFFICES ASSUME IInv, AcksInv, NEW e \in Ends PROVE Cardinality(OkOf(e)) <= Taken(e)
    BY DEF SuccessesAreBacked, OkOf, Taken
  <2>1. /\ IsFiniteSet(OkOf(e)) /\ IsFiniteSet(Woken(e)) /\ Told(e) + Pending(e) <= Taken(e)
    BY DEF AcksInv
  <2>2. Cardinality(OkOf(e)) \in Nat /\ Cardinality(Woken(e)) \in Nat
    BY <2>1, FS_CardinalityType
  <2>3. Pending(e) \in Nat /\ Taken(e) \in Nat
    BY LineTypes
  <2> QED
    BY <2>1, <2>2, <2>3 DEF Told
<1> QED
  BY <1>1, <1>2, AcksStep, AlwaysIInv, PTL DEF Spec
=============================================================================
