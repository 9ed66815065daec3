---------------------------- MODULE SessionProofs ----------------------------
(***************************************************************************)
(* The session for any number of application threads and calls, any limit  *)
(* of MsgQ, of reads and of retries, with and without spurious wakeups.    *)
(***************************************************************************)
EXTENDS Session, SequenceTheorems, TLAPS

LEMMA PeerOfPeer ==
  ASSUME NEW e \in Ends
  PROVE  Peer(e) \in Ends /\ Peer(Peer(e)) = e
BY DEF Ends, Peer

LEMMA ElementsOfAppend ==
  ASSUME NEW S, NEW s \in Seq(S), NEW x \in S
  PROVE  ElementsOf(s) \subseteq ElementsOf(Append(s, x)) /\ x \in ElementsOf(Append(s, x))
         /\ ElementsOf(Append(s, x)) \subseteq ElementsOf(s) \cup {x}
BY AppendProperties, LenProperties DEF ElementsOf

(* What recv and OnRecvMsg do to a sequence of frames leaves each of them  *)
(* as it was.                                                              *)
LEMMA AllHonestAppend ==
  ASSUME NEW e \in Ends, NEW s \in Seq(Frame), AllHonest(e, s),
         NEW f \in Frame, Honest(e, f)
  PROVE  AllHonest(e, Append(s, f))
BY AppendProperties, LenProperties DEF AllHonest

LEMMA AllHonestConcat ==
  ASSUME NEW e \in Ends, NEW s \in Seq(Frame), AllHonest(e, s),
         NEW r \in Seq(Frame), AllHonest(e, r)
  PROVE  AllHonest(e, s \o r)
BY ConcatProperties, LenProperties DEF AllHonest

LEMMA AllHonestTail ==
  ASSUME NEW e \in Ends, NEW s \in Seq(Frame), AllHonest(e, s), s # << >>
  PROVE  AllHonest(e, Tail(s)) /\ Honest(e, Head(s)) /\ Head(s) \in Frame
         /\ Tail(s) \in Seq(Frame) /\ Len(Tail(s)) = Len(s) - 1
<1>1. /\ Tail(s) \in Seq(Frame) /\ Len(Tail(s)) = Len(s) - 1 /\ Head(s) \in Frame
      /\ \A i \in 1..Len(Tail(s)) : Tail(s)[i] = s[i+1]
  BY HeadTailProperties
<1>2. Len(s) \in Nat \ {0} /\ Head(s) = s[1]
  BY EmptySeq
<1> QED
  BY <1>1, <1>2 DEF AllHonest

LEMMA AllHonestSplit ==
  ASSUME NEW e \in Ends, NEW s \in Seq(Frame), AllHonest(e, s),
         NEW k \in Nat, k <= Len(s)
  PROVE  /\ AllHonest(e, SubSeq(s, 1, k)) /\ SubSeq(s, 1, k) \in Seq(Frame)
         /\ AllHonest(e, SubSeq(s, k + 1, Len(s))) /\ SubSeq(s, k + 1, Len(s)) \in Seq(Frame)
         /\ Len(SubSeq(s, 1, k)) = k
<1>1. Len(s) \in Nat /\ \A i \in 1..Len(s) : s[i] \in Frame
  BY LenProperties, ElementOfSeq
<1>2. /\ SubSeq(s, 1, k) \in Seq(Frame) /\ Len(SubSeq(s, 1, k)) = k
      /\ \A i \in 1..k : SubSeq(s, 1, k)[i] = s[i]
  BY <1>1, SubSeqProperties
<1>3. /\ SubSeq(s, k + 1, Len(s)) \in Seq(Frame)
      /\ Len(SubSeq(s, k + 1, Len(s))) = Len(s) - k
      /\ \A i \in 1..Len(s) - k : SubSeq(s, k + 1, Len(s))[i] = s[k + i]
  BY <1>1, SubSeqProperties
<1> QED
  BY <1>1, <1>2, <1>3 DEF AllHonest

-----------------------------------------------------------------------------
LEMMA InitIInv == Init => IInv
<1> SUFFICES ASSUME Init PROVE IInv
  OBVIOUS
<1> USE SessionAssumption DEF Init
<1>1. TypeOK
  <2>1. /\ << >> \in Seq(Frame) /\ << >> \in Seq(Packets) /\ Len(<< >>) = 0
        /\ 0 <= MAX_QUEUE_NUM
    BY EmptySeq
  <2> QED
    BY <2>1 DEF TypeOK, Labels, DealLabels
<1>2. FlightInv /\ ParseInv
  BY PeerOfPeer, EmptySeq DEF FlightInv, AllHonest, ParseInv
<1>3. CurInv /\ SentInv /\ HSendHasOwner
  BY DEF CurInv, SentInv, InXSend, HSendHasOwner
<1>4. NoForgery
  BY EmptySeq DEF NoForgery, ElementsOf
<1> QED
  BY <1>1, <1>2, <1>3, <1>4 DEF IInv

(* Which steps touch what. *)
LEMMA Effects ==
  ASSUME [Next]_vars
  PROVE  /\ \/ UNCHANGED <<wire, readVars>>
            \/ \E t \in Threads : XSendWrite(t)
            \/ \E e \in Ends : \/ \E k \in 1..MaxRead : Recv(e, k)
                               \/ ParseFrame(e) \/ ParseCorrupted(e) \/ DealPop(e) \/ DealAck(e)
         /\ \/ UNCHANGED <<dpc, cur>>
            \/ \E e \in Ends : \/ DealPop(e) \/ DealDuplicate(e) \/ DealAck(e) \/ DealCallback(e)
                               \/ DealTest(e) \/ DealCompare(e) \/ DealSignal(e)
         /\ UNCHANGED sent \/ \E t \in Threads : XSendCall(t)
         /\ UNCHANGED <<accepted, preSeq>> \/ \E e \in Ends : DealAck(e)
         /\ UNCHANGED delivered \/ \E e \in Ends : DealCallback(e)
         /\ UNCHANGED crashed \/ \E e \in Ends : DealCrash(e)
         /\ \/ UNCHANGED <<pc, calls, count, hSend>>
            \/ \E t \in Threads : \/ SeqLoad(t) \/ SeqStore(t) \/ SeqWrap(t) \/ XSendCall(t)
                                  \/ XSendLock(t) \/ XSendWrite(t) \/ Fail(t, "write")
                                  \/ Timeout(t) \/ SpuriousWakeup(t)
                                  \/ Fail(t, "timedout") \/ XSendAcked(t)
            \/ \E e \in Ends : DealSignal(e)
         /\ \/ UNCHANGED <<iSeq, reg, seq, mutex, ok, failed>>
            \/ \E t \in Threads : \/ SeqLoad(t) \/ SeqStore(t) \/ SeqWrap(t) \/ XSendCall(t)
                                  \/ XSendLock(t) \/ XSendWrite(t) \/ Fail(t, "write")
                                  \/ Fail(t, "timedout") \/ XSendAcked(t)
<1>1. ASSUME NEW t \in Threads,
             \/ SeqLoad(t) \/ SeqStore(t) \/ SeqWrap(t) \/ XSendCall(t) \/ XSendLock(t)
             \/ XSendWrite(t)
      PROVE  /\ UNCHANGED <<readVars, dpc, cur, preSeq, crashed, accepted, delivered>>
             /\ UNCHANGED wire \/ XSendWrite(t)
             /\ UNCHANGED sent \/ XSendCall(t)
  BY <1>1 DEF SeqLoad, SeqStore, SeqWrap, XSendCall, XSendLock, XSendWrite, dealVars
<1>2. ASSUME NEW t \in Threads,
             \/ XSendLoss(t) \/ Timeout(t) \/ SpuriousWakeup(t) \/ XSendTimedOut(t) \/ XSendAcked(t)
      PROVE  /\ UNCHANGED <<wire, readVars, dpc, cur, preSeq, crashed, accepted, delivered, sent>>
             /\ \/ Fail(t, "write") \/ Fail(t, "timedout") \/ Timeout(t) \/ SpuriousWakeup(t)
                \/ XSendAcked(t)
             /\ Timeout(t) \/ SpuriousWakeup(t) =>
                  UNCHANGED <<iSeq, reg, seq, mutex, ok, failed>>
  BY <1>2 DEF XSendLoss, Timeout, SpuriousWakeup, XSendTimedOut, XSendAcked, Fail, dealVars, appVars
<1>3. ASSUME NEW e \in Ends,
             (\E k \in 1..MaxRead : Recv(e, k)) \/ ParseFrame(e) \/ ParseCorrupted(e)
      PROVE  UNCHANGED <<appVars, pc, mutex, hSend, dealVars, sent, ok, failed>>
  BY <1>3 DEF Recv, ParseFrame, ParseCorrupted
<1>4. ASSUME NEW e \in Ends, DealPop(e) \/ DealAck(e)
      PROVE  /\ UNCHANGED <<appVars, pc, mutex, hSend, crashed, delivered, sent, ok, failed>>
             /\ UNCHANGED <<accepted, preSeq>> \/ DealAck(e)
  BY <1>4 DEF DealPop, DealAck
<1>5. ASSUME NEW e \in Ends,
             \/ DealDuplicate(e) \/ DealCallback(e) \/ DealTest(e) \/ DealCompare(e)
             \/ DealCrash(e) \/ DealSignal(e)
      PROVE  /\ UNCHANGED <<appVars, mutex, hSend, wire, readVars, accepted, preSeq, sent, ok, failed>>
             /\ UNCHANGED pc \/ DealSignal(e)
             /\ UNCHANGED delivered \/ DealCallback(e)
             /\ UNCHANGED crashed \/ DealCrash(e)
             /\ UNCHANGED <<dpc, cur>> \/ ~DealCrash(e)
  BY <1>5 DEF DealDuplicate, DealCallback, DealTest, DealCompare, DealCrash, DealSignal
<1>6. CASE UNCHANGED vars
  BY <1>6 DEF vars, appVars, dealVars
<1>7. CASE \E t \in Threads : SeqLoad(t) \/ SendData(t) \/ SpuriousWakeup(t)
  <2> PICK t \in Threads : SeqLoad(t) \/ SendData(t) \/ SpuriousWakeup(t)
    BY <1>7
  <2>1. CASE \/ SeqLoad(t) \/ SeqStore(t) \/ SeqWrap(t) \/ XSendCall(t) \/ XSendLock(t)
             \/ XSendWrite(t)
    BY <1>1, <2>1
  <2>2. CASE \/ XSendLoss(t) \/ Timeout(t) \/ SpuriousWakeup(t) \/ XSendTimedOut(t)
             \/ XSendAcked(t)
    BY <1>2, <2>2
  <2> QED
    BY <2>1, <2>2 DEF SendData
<1>8. CASE \E e \in Ends : OnRecv(e) \/ Deal(e)
  <2> PICK e \in Ends : OnRecv(e) \/ Deal(e)
    BY <1>8
  <2>1. CASE OnRecv(e)
    BY <1>3, <2>1 DEF OnRecv, appVars, dealVars
  <2>2. CASE DealPop(e) \/ DealAck(e)
    BY <1>4, <2>2 DEF appVars
  <2>3. CASE \/ DealDuplicate(e) \/ DealCallback(e) \/ DealTest(e) \/ DealCompare(e)
             \/ DealCrash(e) \/ DealSignal(e)
    BY <1>5, <2>3 DEF appVars
  <2> QED
    BY <2>1, <2>2, <2>3 DEF Deal
<1> QED
  BY <1>6, <1>7, <1>8 DEF Next

-----------------------------------------------------------------------------
(* The histories only grow, so what was honest stays so. *)
LEMMA HistoriesGrow ==
  ASSUME IInv, [Next]_vars, NEW e \in Ends
  PROVE  /\ ElementsOf(sent[e]) \subseteq ElementsOf(sent'[e])
         /\ ElementsOf(accepted[e]) \subseteq ElementsOf(accepted'[e])
<1> USE SessionAssumption
<1>1. ASSUME NEW t \in Threads, XSendCall(t)
      PROVE  ElementsOf(sent[e]) \subseteq ElementsOf(sent'[e])
  <2>1. Packet(t) \in Packets /\ sent[e] \in Seq(Packets)
    BY <1>1 DEF IInv, TypeOK, SentInv, XSendCall, Goto, Packet, Packets
  <2>2. sent'[e] = sent[e] \/ sent'[e] = Append(sent[e], Packet(t))
    BY <1>1 DEF XSendCall, IInv, TypeOK
  <2> QED
    BY <2>1, <2>2, ElementsOfAppend
<1>2. ASSUME NEW d \in Ends, DealAck(d)
      PROVE  ElementsOf(accepted[e]) \subseteq ElementsOf(accepted'[e])
  <2>1. cur[d].msg \in Packets /\ accepted[e] \in Seq(Packets)
    BY <1>2 DEF IInv, TypeOK, CurInv, Honest, Frame, DealAck, DealGoto
  <2>2. accepted'[e] = accepted[e] \/ accepted'[e] = Append(accepted[e], cur[d].msg)
    BY <1>2 DEF DealAck, IInv, TypeOK
  <2>3. ElementsOf(accepted[e]) \subseteq ElementsOf(Append(accepted[e], cur[d].msg))
    BY <2>1, ElementsOfAppend
  <2> QED
    BY <2>2, <2>3
<1> QED
  BY <1>1, <1>2, Effects

LEMMA HonestyLasts ==
  ASSUME IInv, [Next]_vars, NEW e \in Ends
  PROVE  /\ \A f \in Frame : Honest(e, f) => Honest(e, f)'
         /\ \A s \in Seq(Frame) : AllHonest(e, s) => AllHonest(e, s)'
<1>1. \A f : Honest(e, f) => Honest(e, f)'
  BY HistoriesGrow, PeerOfPeer DEF Honest
<1> QED
  BY <1>1 DEF AllHonest

(* Types. *)
LEMMA TypeStep == IInv /\ [Next]_vars => TypeOK'
<1> SUFFICES ASSUME IInv, [Next]_vars PROVE TypeOK'
  OBVIOUS
<1> USE SessionAssumption
<1>1. /\ wire' \in [Ends -> Seq(Frame)] /\ rbuf' \in [Ends -> Seq(Frame)]
      /\ chunk' \in [Ends -> Seq(Frame)] /\ queue' \in [Ends -> Seq(Frame)]
      /\ \A e \in Ends : Len(queue'[e]) <= MAX_QUEUE_NUM
  <2> USE DEF IInv, TypeOK
  <2>1. ASSUME NEW t \in Threads, XSendWrite(t) PROVE <1>1!:
    <3>1. [type |-> "req", seq |-> seq[t], msg |-> Packet(t)] \in Frame
      BY <2>1 DEF XSendWrite, Goto, SentInv, InXSend, Packet, Packets, Frame
    <3>2. Append(wire[Home[t]], [type |-> "req", seq |-> seq[t], msg |-> Packet(t)])
            \in Seq(Frame)
      BY <3>1, AppendProperties
    <3> QED
      BY <2>1, <3>2 DEF XSendWrite, readVars
  <2>2. ASSUME NEW e \in Ends, NEW k \in 1..MaxRead, Recv(e, k) PROVE <1>1!:
    <3>1. /\ SubSeq(wire[Peer(e)], 1, k) \in Seq(Frame)
          /\ SubSeq(wire[Peer(e)], k + 1, Len(wire[Peer(e)])) \in Seq(Frame)
      BY <2>2, PeerOfPeer, AllHonestSplit, k \in Nat DEF Recv, FlightInv
    <3> QED
      BY <2>2, <3>1, PeerOfPeer, ConcatProperties, ZenonT(30) DEF Recv
  <2>3. ASSUME NEW e \in Ends, ParseFrame(e) \/ ParseCorrupted(e) PROVE <1>1!:
    <3>4. chunk[e] # << >> /\ rbuf[e] # << >> /\ << >> \in Seq(Frame)
      <4>1. chunk[e] # << >> /\ Len(chunk[e]) <= Len(rbuf[e])
        BY <2>3 DEF ParseFrame, ParseCorrupted, ParseInv
      <4>2. Len(chunk[e]) \in Nat \ {0} /\ Len(<< >>) = 0
        BY <4>1, EmptySeq
      <4> QED
        BY <4>1, <4>2, EmptySeq
    <3>1. /\ Head(rbuf[e]) \in Frame /\ Tail(rbuf[e]) \in Seq(Frame)
          /\ Tail(chunk[e]) \in Seq(Frame)
      BY <3>4, AllHonestTail DEF FlightInv
    <3>2. Tail(rbuf[e]) \o Tail(chunk[e]) \in Seq(Frame)
      BY <3>1, ConcatProperties
    <3>3. /\ Append(queue[e], Head(rbuf[e])) \in Seq(Frame)
          /\ Len(Append(queue[e], Head(rbuf[e]))) = Len(queue[e]) + 1
          /\ Len(queue[e]) \in Nat
      BY <3>1, AppendProperties, LenProperties
    <3>5. CASE ParseFrame(e)
      BY <3>5, <3>1, <3>2, <3>3, SMTT(30) DEF ParseFrame
    <3>6. CASE ParseCorrupted(e)
      BY <3>6, <3>1, <3>4 DEF ParseCorrupted
    <3> QED
      BY <2>3, <3>5, <3>6
  <2>4. ASSUME NEW e \in Ends, DealPop(e) PROVE <1>1!:
    <3>1. Tail(queue[e]) \in Seq(Frame) /\ Len(Tail(queue[e])) <= MAX_QUEUE_NUM
      BY <2>4, AllHonestTail, LenProperties DEF DealPop, FlightInv
    <3> QED
      BY <2>4, <3>1 DEF DealPop
  <2>5. ASSUME NEW e \in Ends, DealAck(e) PROVE <1>1!:
    <3> DEFINE ack == [cur[e] EXCEPT !.type = "ack"]
    <3>1. ack \in Frame
      BY <2>5 DEF DealAck, DealGoto, CurInv, Honest, Frame
    <3>2. /\ UNCHANGED <<rbuf, chunk, queue>>
          /\ wire' = [wire EXCEPT ![e] = Append(@, ack)] \/ UNCHANGED wire
      BY <2>5 DEF DealAck, readVars
    <3> HIDE DEF ack
    <3>3. Append(wire[e], ack) \in Seq(Frame)
      BY <3>1, AppendProperties
    <3>4. wire' \in [Ends -> Seq(Frame)]
      BY <3>2, <3>3
    <3> QED
      BY <3>2, <3>4
  <2>6. CASE UNCHANGED <<wire, readVars>>
    BY <2>6 DEF readVars
  <2> QED
    BY <2>1, <2>2, <2>3, <2>4, <2>5, <2>6, Effects
<1>2. dpc' \in [Ends -> DealLabels] /\ cur' \in [Ends -> Frame \cup {NULL}]
  <2> USE DEF IInv, TypeOK, DealGoto, DealLabels
  <2>1. ASSUME NEW e \in Ends, DealPop(e) PROVE <1>2!:
    <3>1. Head(queue[e]) \in Frame
      BY <2>1, AllHonestTail DEF DealPop, FlightInv
    <3> QED
      BY <2>1, <3>1 DEF DealPop
  <2>2. ASSUME NEW e \in Ends,
               \/ DealDuplicate(e) \/ DealAck(e) \/ DealCallback(e)
               \/ DealTest(e) \/ DealCompare(e) \/ DealSignal(e)
        PROVE  <1>2!:
    BY <2>2 DEF DealDuplicate, DealAck, DealCallback, DealTest, DealCompare, DealSignal
  <2> QED
    BY <2>1, <2>2, Effects
<1>3. sent' \in [Ends -> Seq(Packets)]
  <2>1. ASSUME NEW t \in Threads, XSendCall(t) PROVE <1>3!:
    <3>1. Packet(t) \in Packets
      BY <2>1 DEF IInv, SentInv, XSendCall, Goto, Packet, Packets
    <3> QED
      BY <2>1, <3>1, AppendProperties DEF XSendCall, IInv, TypeOK
  <2> QED
    BY <2>1, Effects DEF IInv, TypeOK
<1>4. accepted' \in [Ends -> Seq(Packets)] /\ preSeq' \in [Ends -> Nat]
  <2>1. ASSUME NEW e \in Ends, DealAck(e) PROVE <1>4!:
    <3>1. cur[e].msg \in Packets /\ cur[e].seq \in Nat
      BY <2>1 DEF IInv, CurInv, Honest, Frame, DealAck, DealGoto
    <3> QED
      BY <2>1, <3>1, AppendProperties DEF DealAck, IInv, TypeOK
  <2> QED
    BY <2>1, Effects DEF IInv, TypeOK
<1>5. delivered' \in [Ends -> Seq(Packets)]
  <2>1. ASSUME NEW e \in Ends, DealCallback(e) PROVE <1>5!:
    <3>1. cur[e].msg \in Packets
      BY <2>1 DEF IInv, CurInv, Honest, Frame, DealCallback, DealGoto
    <3> QED
      BY <2>1, <3>1, AppendProperties DEF DealCallback, IInv, TypeOK
  <2> QED
    BY <2>1, Effects DEF IInv, TypeOK
<1>6. crashed' \in [Ends -> BOOLEAN]
  BY Effects DEF DealCrash, IInv, TypeOK
<1>7. /\ pc' \in [Threads -> Labels] /\ calls' \in [Threads -> 0..MaxCalls]
      /\ count' \in [Threads -> Nat] /\ hSend' \in [Ends -> Nat \cup {NULL}]
  <2>0. /\ pc \in [Threads -> Labels] /\ calls \in [Threads -> 0..MaxCalls]
        /\ count \in [Threads -> Nat] /\ hSend \in [Ends -> Nat \cup {NULL}]
        /\ seq \in [Threads -> Nat]
    BY DEF IInv, TypeOK
  <2> USE <2>0 DEF Labels, InXSend, Goto, appVars
  <2>1. ASSUME NEW t \in Threads, SeqLoad(t)
        PROVE  <1>7!:
    BY <2>1 DEF SeqLoad
  <2>2. ASSUME NEW t \in Threads, SeqStore(t) \/ SeqWrap(t) \/ XSendCall(t)
        PROVE  <1>7!:
    BY <2>2 DEF SeqStore, SeqWrap, XSendCall
  <2>3. ASSUME NEW t \in Threads, XSendLock(t)
        PROVE  <1>7!:
    BY <2>3 DEF XSendLock
  <2>4. ASSUME NEW t \in Threads, XSendWrite(t) \/ Timeout(t) \/ SpuriousWakeup(t)
        PROVE  <1>7!:
    BY <2>4 DEF XSendWrite, Timeout, SpuriousWakeup
  <2>5. ASSUME NEW t \in Threads, XSendAcked(t)
        PROVE  <1>7!:
    BY <2>5 DEF XSendAcked
  <2>6. ASSUME NEW t \in Threads, NEW from \in Labels, Fail(t, from)
        PROVE  <1>7!:
    BY <2>6 DEF Fail
  <2>7. ASSUME NEW e \in Ends, DealSignal(e) PROVE <1>7!:
    BY <2>7 DEF DealSignal
  <2>8. CASE UNCHANGED <<pc, calls, count, hSend>>
    BY <2>8
  <2> HIDE <2>0
  <2> QED
    BY <2>1, <2>2, <2>3, <2>4, <2>5, <2>6, <2>7, <2>8, Effects
<1>8. /\ iSeq' \in [Ends -> Nat] /\ reg' \in [Threads -> Nat] /\ seq' \in [Threads -> Nat]
      /\ mutex' \in [Ends -> Threads \cup {NULL}]
      /\ ok' \in SUBSET Packets /\ failed' \in SUBSET Packets
  <2>0. /\ iSeq \in [Ends -> Nat] /\ reg \in [Threads -> Nat] /\ seq \in [Threads -> Nat]
        /\ mutex \in [Ends -> Threads \cup {NULL}]
        /\ ok \in SUBSET Packets /\ failed \in SUBSET Packets
        /\ calls \in [Threads -> 0..MaxCalls]
    BY DEF IInv, TypeOK
  <2> USE <2>0 DEF Goto, appVars
  <2>1. ASSUME NEW t \in Threads, SeqLoad(t)
        PROVE  <1>8!:
    BY <2>1 DEF SeqLoad
  <2>2. ASSUME NEW t \in Threads, SeqStore(t) \/ SeqWrap(t)
        PROVE  <1>8!:
    BY <2>2 DEF SeqStore, SeqWrap
  <2>3. ASSUME NEW t \in Threads, XSendCall(t)
        PROVE  <1>8!:
    BY <2>3 DEF XSendCall
  <2>4. ASSUME NEW t \in Threads, XSendLock(t) \/ XSendWrite(t)
        PROVE  <1>8!:
    BY <2>4, ZenonT(30) DEF XSendLock, XSendWrite
  <2>5. ASSUME NEW t \in Threads, NEW from \in InXSend, Fail(t, from) \/ XSendAcked(t)
        PROVE  <1>8!:
    <3>1. Packet(t) \in Packets
      BY <2>5 DEF IInv, SentInv, Packet, Packets, Fail, XSendAcked, InXSend
    <3> QED
      BY <2>5, <3>1 DEF Fail, XSendAcked
  <2>6. CASE UNCHANGED <<iSeq, reg, seq, mutex, ok, failed>>
    BY <2>6
  <2> HIDE <2>0
  <2> QED
    BY <2>1, <2>2, <2>3, <2>4, <2>5, <2>6, Effects DEF InXSend
<1> QED
  BY <1>1, <1>2, <1>3, <1>4, <1>5, <1>6, <1>7, <1>8 DEF TypeOK

(* Frames in flight stay honest.  What a step does to one end's sequences  *)
(* yields honest ones in the old state, and honesty lasts.                 *)
LEMMA FlightStep == IInv /\ [Next]_vars => FlightInv' /\ ParseInv'
<1> SUFFICES ASSUME IInv, [Next]_vars PROVE FlightInv' /\ ParseInv'
  OBVIOUS
<1> USE SessionAssumption
<1>0. /\ wire \in [Ends -> Seq(Frame)] /\ rbuf \in [Ends -> Seq(Frame)]
      /\ chunk \in [Ends -> Seq(Frame)] /\ queue \in [Ends -> Seq(Frame)]
      /\ \A e \in Ends : Peer(e) \in Ends /\ Peer(Peer(e)) = e
  BY PeerOfPeer DEF IInv, TypeOK
<1>1. \A e \in Ends : /\ AllHonest(e, wire[Peer(e)]) /\ AllHonest(e, rbuf[e])
                      /\ AllHonest(e, chunk[e]) /\ AllHonest(e, queue[e])
  BY DEF IInv, FlightInv
<1>2. \A e \in Ends : Len(chunk[e]) <= Len(rbuf[e])
  BY DEF IInv, ParseInv
<1> DEFINE NewHonest(e) ==
      /\ AllHonest(e, wire'[Peer(e)])
      /\ AllHonest(e, rbuf'[e])
      /\ AllHonest(e, chunk'[e])
      /\ AllHonest(e, queue'[e])
      /\ Len(chunk'[e]) <= Len(rbuf'[e])
<1>3. \A e \in Ends : \A f : Honest(e, f) => Honest(e, f)'
  BY HistoriesGrow, PeerOfPeer DEF Honest
<1>10. (\A e \in Ends : NewHonest(e)) => FlightInv' /\ ParseInv'
  BY <1>3 DEF FlightInv, ParseInv, AllHonest
<1>4. ASSUME NEW t \in Threads, XSendWrite(t), NEW e \in Ends PROVE NewHonest(e)
  <2> DEFINE f == [type |-> "req", seq |-> seq[t], msg |-> Packet(t)]
  <2>1. Packet(t) \in Packets /\ Packet(t) \in ElementsOf(sent[Home[t]])
    BY <1>4 DEF XSendWrite, Goto, IInv, SentInv, InXSend, Packet, Packets
  <2>2. f \in Frame /\ Honest(Peer(Home[t]), f)
    BY <2>1, <1>0 DEF Honest, Frame, IInv, TypeOK
  <2>3. UNCHANGED <<rbuf, chunk, queue>>
        /\ wire' = [wire EXCEPT ![Home[t]] = Append(@, f)]
    BY <1>4 DEF XSendWrite, readVars
  <2> HIDE DEF f
  <2>4. AllHonest(Peer(Home[t]), Append(wire[Home[t]], f))
    BY <2>2, <1>0, <1>1, AllHonestAppend
  <2>5. AllHonest(e, wire'[Peer(e)])
    BY <2>3, <2>4, <1>0, <1>1
  <2> QED
    BY <2>3, <2>5, <1>1, <1>2
<1>5. ASSUME NEW d \in Ends, NEW k \in 1..MaxRead, Recv(d, k), NEW e \in Ends PROVE NewHonest(e)
  <2> DEFINE s == wire[Peer(d)]
  <2>1. s \in Seq(Frame) /\ AllHonest(d, s) /\ k \in Nat /\ k <= Len(s)
    BY <1>5, <1>0, <1>1 DEF Recv
  <2> DEFINE old == SubSeq(s, 1, k)
             rest == SubSeq(s, k + 1, Len(s))
  <2>2. /\ chunk' = [chunk EXCEPT ![d] = old] /\ rbuf' = [rbuf EXCEPT ![d] = rbuf[d] \o old]
        /\ wire' = [wire EXCEPT ![Peer(d)] = rest] /\ queue' = queue
    BY <1>5, <1>0 DEF Recv
  <2> HIDE DEF s
  <2>3. /\ AllHonest(d, old) /\ old \in Seq(Frame) /\ AllHonest(d, rest)
        /\ Len(old) = k
    BY <2>1, AllHonestSplit
  <2> HIDE DEF old, rest
  <2>4. AllHonest(d, rbuf[d] \o old) /\ Len(old) <= Len(rbuf[d] \o old)
    <3>1. AllHonest(d, rbuf[d] \o old)
      BY <2>3, <1>0, <1>1, AllHonestConcat
    <3>2. Len(rbuf[d] \o old) = Len(rbuf[d]) + Len(old) /\ Len(rbuf[d]) \in Nat
      <4>1. rbuf[d] \in Seq(Frame) /\ old \in Seq(Frame)
        BY <2>3, <1>0
      <4> QED
        BY <4>1, ConcatProperties, LenProperties
    <3> QED
      BY <3>1, <3>2, <2>1, <2>3
  <2>5. CASE e = d
    <3>1. wire'[Peer(e)] = rest /\ rbuf'[e] = rbuf[d] \o old /\ chunk'[e] = old
          /\ queue'[e] = queue[e]
      BY <2>2, <2>5, <1>0
    <3> QED
      BY <3>1, <2>3, <2>4, <2>5, <1>1
  <2>6. CASE e # d
    <3>1. wire'[Peer(e)] = wire[Peer(e)] /\ rbuf'[e] = rbuf[e] /\ chunk'[e] = chunk[e]
          /\ queue'[e] = queue[e]
      BY <2>2, <2>6, <1>0
    <3> QED
      BY <3>1, <1>1, <1>2
  <2> QED
    BY <2>5, <2>6
<1>6. ASSUME NEW d \in Ends, ParseFrame(d) \/ ParseCorrupted(d), NEW e \in Ends PROVE NewHonest(e)
  <2>1. chunk[d] # << >> /\ rbuf[d] # << >>
    <3>1. chunk[d] # << >> /\ Len(chunk[d]) <= Len(rbuf[d])
      BY <1>6, <1>2 DEF ParseFrame, ParseCorrupted
    <3>2. Len(chunk[d]) \in Nat \ {0} /\ Len(<< >>) = 0
      BY <3>1, <1>0, EmptySeq
    <3> QED
      BY <3>1, <3>2
  <2> DEFINE r == Tail(rbuf[d])
             c == Tail(chunk[d])
             h == Head(rbuf[d])
  <2>2. /\ AllHonest(d, r) /\ r \in Seq(Frame) /\ h \in Frame /\ Honest(d, h)
        /\ AllHonest(d, c) /\ c \in Seq(Frame) /\ Len(r) \in Nat /\ Len(c) \in Nat
    BY <2>1, <1>0, <1>1, AllHonestTail, LenProperties
  <2>3. wire' = wire
    BY <1>6 DEF ParseFrame, ParseCorrupted
  <2>4. CASE ParseFrame(d)
    <3>1. /\ queue' = queue \/ queue' = [queue EXCEPT ![d] = Append(queue[d], h)]
          /\ chunk' = [chunk EXCEPT ![d] = c] /\ rbuf' = [rbuf EXCEPT ![d] = r \o c]
      BY <2>4, <1>0 DEF ParseFrame
    <3> HIDE DEF r, c, h
    <3>2. /\ AllHonest(d, r \o c) /\ Len(r \o c) = Len(r) + Len(c)
          /\ AllHonest(d, Append(queue[d], h))
      BY <2>2, <1>0, <1>1, AllHonestConcat, AllHonestAppend, ConcatProperties
    <3>3. CASE e = d
      <4>1. rbuf'[e] = r \o c /\ chunk'[e] = c
        BY <3>1, <3>3, <1>0
      <4>2. queue'[e] = queue[d] \/ queue'[e] = Append(queue[d], h)
        BY <3>1, <3>3, <1>0
      <4>3. AllHonest(e, queue'[e])
        BY <4>2, <3>2, <3>3, <1>1
      <4>4. AllHonest(e, rbuf'[e]) /\ AllHonest(e, chunk'[e]) /\ Len(chunk'[e]) <= Len(rbuf'[e])
        BY <4>1, <2>2, <3>2, <3>3
      <4> QED
        BY <4>3, <4>4, <2>3, <1>1
    <3>4. CASE e # d
      <4>1. rbuf'[e] = rbuf[e] /\ chunk'[e] = chunk[e] /\ queue'[e] = queue[e]
        BY <3>1, <3>4, <1>0
      <4> QED
        BY <4>1, <2>3, <1>1, <1>2
    <3> QED
      BY <3>3, <3>4
  <2>5. CASE ParseCorrupted(d)
    <3>1. /\ queue' = queue
          /\ chunk' = [chunk EXCEPT ![d] = << >>] /\ rbuf' = [rbuf EXCEPT ![d] = r]
      BY <2>5, <1>0 DEF ParseCorrupted
    <3>2. AllHonest(d, << >>) /\ Len(<< >>) = 0
      BY EmptySeq DEF AllHonest
    <3> HIDE DEF r
    <3>3. CASE e = d
      <4>1. rbuf'[e] = r /\ chunk'[e] = << >> /\ queue'[e] = queue[e]
        BY <3>1, <3>3, <1>0
      <4> QED
        BY <4>1, <2>2, <2>3, <3>2, <3>3, <1>1
    <3>4. CASE e # d
      <4>1. rbuf'[e] = rbuf[e] /\ chunk'[e] = chunk[e] /\ queue'[e] = queue[e]
        BY <3>1, <3>4, <1>0
      <4> QED
        BY <4>1, <2>3, <1>1, <1>2
    <3> QED
      BY <3>3, <3>4
  <2> QED
    BY <1>6, <2>4, <2>5
<1>7. ASSUME NEW d \in Ends, DealPop(d), NEW e \in Ends PROVE NewHonest(e)
  <2>1. AllHonest(d, Tail(queue[d]))
    BY <1>7, <1>0, <1>1, AllHonestTail DEF DealPop
  <2>2. /\ queue' = [queue EXCEPT ![d] = Tail(queue[d])] /\ UNCHANGED <<wire, rbuf, chunk>>
    BY <1>7, <1>0 DEF DealPop
  <2> QED
    BY <2>1, <2>2, <1>0, <1>1, <1>2
<1>8. ASSUME NEW d \in Ends, DealAck(d) PROVE FlightInv' /\ ParseInv'
  <2> DEFINE ack == [cur[d] EXCEPT !.type = "ack"]
  <2>1. ack \in Frame /\ ack.type = "ack" /\ ack.msg = cur[d].msg /\ cur[d].msg \in Packets
    BY <1>8 DEF DealAck, DealGoto, IInv, CurInv, Honest, Frame
  <2>2. /\ UNCHANGED <<rbuf, chunk, queue>>
        /\ wire' = [wire EXCEPT ![d] = Append(@, ack)] \/ UNCHANGED wire
        /\ accepted'[d] = Append(accepted[d], cur[d].msg) /\ accepted[d] \in Seq(Packets)
    BY <1>8 DEF DealAck, readVars, IInv, TypeOK
  <2> HIDE DEF ack
  <2>3. cur[d].msg \in ElementsOf(accepted'[d])
    BY <2>1, <2>2, ElementsOfAppend
  <2>4. \A f : f = ack => Honest(Peer(d), f)'
    BY <2>1, <2>3, <1>0 DEF Honest
  <2>5. ASSUME NEW e \in Ends PROVE AllHonest(e, wire[Peer(e)])'
    <3>1. CASE wire'[Peer(e)] = wire[Peer(e)]
      BY <3>1, <1>1, <1>3 DEF AllHonest
    <3>2. CASE Peer(e) = d /\ wire'[d] = Append(wire[d], ack)
      <4>1. \A i \in 1..Len(wire[d]) : \A f : f = wire[d][i] => Honest(e, f)'
        BY <3>2, <1>1, <1>3 DEF AllHonest
      <4>2. /\ Len(wire'[d]) = Len(wire[d]) + 1 /\ Len(wire[d]) \in Nat
            /\ \A i \in 1..Len(wire[d]) : wire'[d][i] = wire[d][i]
            /\ wire'[d][Len(wire[d]) + 1] = ack
        BY <3>2, <2>1, <1>0, AppendProperties, LenProperties
      <4>3. Peer(d) = e
        BY <3>2, <1>0
      <4> QED
        BY <4>1, <4>2, <4>3, <3>2, <2>4 DEF AllHonest
    <3> QED
      BY <3>1, <3>2, <2>2, <1>0
  <2>6. ASSUME NEW e \in Ends
        PROVE  AllHonest(e, rbuf[e])' /\ AllHonest(e, chunk[e])' /\ AllHonest(e, queue[e])'
    BY <2>2, <1>1, <1>3 DEF AllHonest
  <2> QED
    BY <2>2, <2>5, <2>6, <1>2 DEF FlightInv, ParseInv
<1>9. CASE UNCHANGED <<wire, readVars>>
  <2>1. ASSUME NEW e \in Ends PROVE NewHonest(e)
    BY <1>9, <1>1, <1>2 DEF readVars
  <2> QED
    BY <2>1, <1>10
<1> HIDE DEF NewHonest
<1> QED
  BY <1>4, <1>5, <1>6, <1>7, <1>8, <1>9, <1>10, Effects

(* ThreadDeal's packet is one MsgQ held. *)
LEMMA CurStep == IInv /\ [Next]_vars => CurInv'
<1> SUFFICES ASSUME IInv, [Next]_vars, NEW e \in Ends, dpc'[e] # "pop"
             PROVE  /\ Honest(e, cur[e])'
                    /\ cur'[e].type = IF dpc'[e] \in {"request", "callback"}
                                      THEN "req" ELSE "ack"
  BY DEF CurInv
<1>0. /\ dpc \in [Ends -> DealLabels] /\ cur \in [Ends -> Frame \cup {NULL}]
      /\ \A f : Honest(e, f) => Honest(e, f)'
  BY HistoriesGrow, PeerOfPeer DEF IInv, TypeOK, Honest
<1>1. CASE dpc'[e] = dpc[e] /\ cur'[e] = cur[e]
  BY <1>0, <1>1 DEF IInv, CurInv, Honest
<1>2. ASSUME NEW d \in Ends, d # e,
             \/ DealPop(d) \/ DealDuplicate(d) \/ DealAck(d) \/ DealCallback(d)
             \/ DealTest(d) \/ DealCompare(d) \/ DealSignal(d)
      PROVE  dpc'[e] = dpc[e] /\ cur'[e] = cur[e]
  BY <1>0, <1>2 DEF DealPop, DealDuplicate, DealAck, DealCallback, DealTest, DealCompare,
     DealSignal, DealGoto
<1>3. CASE DealPop(e)
  <2>1. /\ Honest(e, Head(queue[e])) /\ Head(queue[e]).type \in {"req", "ack"}
    <3>1. queue[e] \in Seq(Frame) /\ AllHonest(e, queue[e]) /\ queue[e] # << >>
      BY <1>3 DEF DealPop, IInv, TypeOK, FlightInv
    <3> QED
      BY <3>1, AllHonestTail DEF Frame
  <2>2. /\ cur'[e] = Head(queue[e])
        /\ dpc'[e] = IF Head(queue[e]).type = "req" THEN "request" ELSE "response"
    BY <1>0, <1>3 DEF DealPop, DealGoto
  <2> QED
    BY <2>1, <2>2, <1>0 DEF Honest
<1>4. CASE DealDuplicate(e) \/ DealCallback(e) \/ DealSignal(e)
  BY <1>0, <1>4 DEF DealDuplicate, DealCallback, DealSignal, DealGoto
<1>5. CASE DealAck(e) \/ DealTest(e) \/ DealCompare(e)
  <2>1. /\ cur' = cur
        /\ \/ dpc[e] = "request" /\ dpc'[e] = "callback"
           \/ dpc[e] \in {"response", "compare"} /\ dpc'[e] \in {"compare", "signal"}
    BY <1>0, <1>5 DEF DealAck, DealTest, DealCompare, DealGoto
  <2> QED
    BY <2>1, <1>0 DEF IInv, CurInv, Honest
<1> QED
  BY <1>1, <1>2, <1>3, <1>4, <1>5, Effects

(* No request is written before its packet is in sent. *)
LEMMA SentStep == IInv /\ [Next]_vars => SentInv'
<1> DEFINE Goal(u) ==
      /\ pc'[u] # "idle" => calls'[u] \in 1..MaxCalls
      /\ pc'[u] \in {"inc", "wrap"} => count'[u] = 0
      /\ pc'[u] \in {"lock"} \cup InXSend \/ (pc'[u] = "call" /\ count'[u] # 0)
           => <<u, calls'[u]>> \in ElementsOf(sent'[Home[u]])
<1> SUFFICES ASSUME IInv, [Next]_vars, NEW u \in Threads PROVE Goal(u)
  BY DEF SentInv, Packet
<1> USE SessionAssumption DEF InXSend
<1>0. /\ pc \in [Threads -> Labels] /\ calls \in [Threads -> 0..MaxCalls]
      /\ count \in [Threads -> Nat] /\ sent \in [Ends -> Seq(Packets)]
  BY DEF IInv, TypeOK
<1>1. /\ pc[u] # "idle" => calls[u] \in 1..MaxCalls
      /\ pc[u] \in {"inc", "wrap"} => count[u] = 0
      /\ pc[u] \in {"lock"} \cup InXSend \/ (pc[u] = "call" /\ count[u] # 0)
           => <<u, calls[u]>> \in ElementsOf(sent[Home[u]])
  BY DEF IInv, SentInv, Packet
<1>2. Home[u] \in Ends /\ ElementsOf(sent[Home[u]]) \subseteq ElementsOf(sent'[Home[u]])
  BY HistoriesGrow
<1>3. ASSUME pc'[u] = pc[u], calls'[u] = calls[u], count'[u] = count[u] PROVE Goal(u)
  BY <1>1, <1>2, <1>3
<1>4. ASSUME NEW t \in Threads, t # u,
             \/ SeqLoad(t) \/ SeqStore(t) \/ SeqWrap(t) \/ XSendCall(t)
             \/ XSendLock(t) \/ XSendWrite(t) \/ Fail(t, "write")
             \/ Timeout(t) \/ SpuriousWakeup(t) \/ Fail(t, "timedout") \/ XSendAcked(t)
      PROVE  Goal(u)
  <2>1. pc'[u] = pc[u] /\ calls'[u] = calls[u] /\ count'[u] = count[u]
    BY <1>0, <1>4 DEF SeqLoad, SeqStore, SeqWrap, XSendCall, XSendLock, XSendWrite, Fail,
       Timeout, SpuriousWakeup, XSendAcked, Goto, appVars
  <2> HIDE DEF Goal
  <2> QED
    BY <2>1, <1>3
<1>5. CASE SeqLoad(u) \/ SeqStore(u) \/ SeqWrap(u)
  <2>1. /\ pc'[u] \in {"inc", "wrap", "call"} /\ count'[u] = 0
        /\ calls'[u] \in 1..MaxCalls
    BY <1>0, <1>1, <1>5 DEF SeqLoad, SeqStore, SeqWrap, Goto
  <2> QED
    BY <2>1
<1>6. CASE XSendCall(u)
  <2>1. /\ pc[u] = "call" /\ pc'[u] = "lock" /\ calls' = calls /\ calls[u] \in 1..MaxCalls
        /\ count' = count
        /\ sent' = IF count[u] = 0 THEN [sent EXCEPT ![Home[u]] = Append(@, <<u, calls[u]>>)]
                   ELSE sent
    BY <1>0, <1>1, <1>6 DEF XSendCall, Goto, Packet
  <2>2. CASE count[u] = 0
    <3>1. <<u, calls[u]>> \in Packets /\ sent[Home[u]] \in Seq(Packets)
      BY <2>1, <1>0, <1>2 DEF Packets
    <3>2. sent'[Home[u]] = Append(sent[Home[u]], <<u, calls[u]>>)
      BY <2>1, <2>2, <1>0, <1>2
    <3> QED
      BY <2>1, <3>1, <3>2, ElementsOfAppend
  <2>3. CASE count[u] # 0
    BY <2>1, <2>3, <1>1
  <2> QED
    BY <2>2, <2>3
<1>7. CASE XSendLock(u) \/ XSendWrite(u) \/ Timeout(u) \/ SpuriousWakeup(u) \/ XSendAcked(u)
  <2>1. /\ calls' = calls /\ pc[u] \in {"lock"} \cup InXSend
        /\ pc'[u] \in {"idle"} \cup InXSend
    BY <1>0, <1>7 DEF XSendLock, XSendWrite, Timeout, SpuriousWakeup, XSendAcked, Goto, appVars
  <2> QED
    BY <2>1, <1>1, <1>2
<1>8. CASE Fail(u, "write") \/ Fail(u, "timedout")
  <2>1. calls' = calls /\ pc[u] \in InXSend /\ pc'[u] \in {"idle", "call"}
    BY <1>0, <1>8 DEF Fail, Goto
  <2> QED
    BY <2>1, <1>1, <1>2
<1>9. ASSUME NEW e \in Ends, DealSignal(e) PROVE Goal(u)
  <2>1. /\ calls' = calls /\ count' = count
    BY <1>9 DEF DealSignal, appVars
  <2>2. CASE UNCHANGED pc
    BY <2>1, <2>2, <1>3
  <2>3. ASSUME NEW t \in Waiters(e), pc' = [pc EXCEPT ![t] = "woken"]
        PROVE  pc'[u] = pc[u] \/ (pc[u] = "wait" /\ pc'[u] = "woken")
    BY <2>3, <1>0 DEF Waiters, ThreadsOf
  <2>4. ASSUME pc[u] = "wait" /\ pc'[u] = "woken" PROVE Goal(u)
    BY <2>1, <2>4, <1>1, <1>2
  <2>5. ASSUME pc'[u] = pc[u] PROVE Goal(u)
    BY <2>1, <2>5, <1>3
  <2> HIDE DEF Goal
  <2> QED
    BY <2>3, <2>4, <2>5, <2>2, <1>9 DEF DealSignal
<1> HIDE DEF Goal
<1> QED
  BY <1>3, <1>4, <1>5, <1>6, <1>7, <1>8, <1>9, Effects

(* The callback's packet is ThreadDeal's. *)
LEMMA ForgeryStep == IInv /\ [Next]_vars => NoForgery'
<1> SUFFICES ASSUME IInv, [Next]_vars, NEW e \in Ends
             PROVE  ElementsOf(delivered'[e]) \subseteq ElementsOf(sent'[Peer(e)])
  BY DEF NoForgery
<1>1. ElementsOf(delivered[e]) \subseteq ElementsOf(sent'[Peer(e)])
  BY HistoriesGrow, PeerOfPeer DEF IInv, NoForgery
<1>2. ASSUME NEW d \in Ends, DealCallback(d)
      PROVE  \/ delivered'[e] = delivered[e]
             \/ /\ delivered'[e] = Append(delivered[e], cur[e].msg)
                /\ cur[e].msg \in ElementsOf(sent[Peer(e)]) /\ cur[e].msg \in Packets
                /\ delivered[e] \in Seq(Packets)
  <2>1. delivered' = [delivered EXCEPT ![d] = Append(@, cur[d].msg)]
        /\ delivered \in [Ends -> Seq(Packets)] /\ dpc[d] = "callback"
    BY <1>2 DEF DealCallback, DealGoto, IInv, TypeOK
  <2>2. cur[d].msg \in ElementsOf(sent[Peer(d)]) /\ cur[d].msg \in Packets
    BY <2>1 DEF IInv, CurInv, Honest, Frame
  <2> QED
    BY <2>1, <2>2
<1>3. ElementsOf(sent[Peer(e)]) \subseteq ElementsOf(sent'[Peer(e)])
  BY HistoriesGrow, PeerOfPeer
<1>4. ASSUME cur[e].msg \in ElementsOf(sent[Peer(e)]), cur[e].msg \in Packets,
             delivered[e] \in Seq(Packets),
             delivered'[e] = Append(delivered[e], cur[e].msg)
      PROVE  ElementsOf(delivered'[e]) \subseteq ElementsOf(sent'[Peer(e)])
  <2>1. ElementsOf(Append(delivered[e], cur[e].msg))
          \subseteq ElementsOf(delivered[e]) \cup {cur[e].msg}
    BY <1>4, ElementsOfAppend
  <2> QED
    BY <2>1, <1>1, <1>3, <1>4
<1>5. CASE UNCHANGED delivered
  BY <1>1, <1>5
<1> QED
  BY <1>1, <1>2, <1>4, <1>5, Effects

(* Whoever leaves XSend leaves hSend NULL. *)
LEMMA HSendStep == IInv /\ [Next]_vars => HSendHasOwner'
<1> DEFINE Goal(e) == hSend'[e] # NULL => \E t \in Threads : Home[t] = e /\ pc'[t] \in InXSend
<1> SUFFICES ASSUME IInv, [Next]_vars, NEW e \in Ends PROVE Goal(e)
  BY DEF HSendHasOwner, ThreadsOf
<1> USE SessionAssumption DEF InXSend
<1>0. /\ pc \in [Threads -> Labels] /\ hSend \in [Ends -> Nat \cup {NULL}]
      /\ hSend[e] # NULL => \E t \in Threads : Home[t] = e /\ pc[t] \in InXSend
  BY DEF IInv, TypeOK, HSendHasOwner, ThreadsOf
<1>1. ASSUME NEW t \in Threads,
             \/ SeqLoad(t) \/ SeqStore(t) \/ SeqWrap(t) \/ XSendCall(t)
             \/ XSendWrite(t) \/ Timeout(t) \/ SpuriousWakeup(t)
      PROVE  Goal(e)
  <2>1. hSend' = hSend
    BY <1>1 DEF SeqLoad, SeqStore, SeqWrap, XSendCall, XSendWrite, Timeout, SpuriousWakeup
  <2>2. \A u \in Threads : pc[u] \in InXSend => pc'[u] \in InXSend
    BY <1>0, <1>1 DEF SeqLoad, SeqStore, SeqWrap, XSendCall, XSendWrite, Timeout,
       SpuriousWakeup, Goto
  <2> QED
    BY <2>1, <2>2, <1>0
<1>2. ASSUME NEW t \in Threads, XSendLock(t) PROVE Goal(e)
  <2>1. /\ hSend' = [hSend EXCEPT ![Home[t]] = seq[t]]
        /\ pc[t] = "lock" /\ pc' = [pc EXCEPT ![t] = "write"]
    BY <1>2 DEF XSendLock, Goto
  <2>2. CASE Home[t] = e
    BY <2>1, <2>2, <1>0
  <2>3. CASE Home[t] # e
    BY <2>1, <2>3, <1>0
  <2> QED
    BY <2>2, <2>3
<1>3. ASSUME NEW t \in Threads, Fail(t, "write") \/ Fail(t, "timedout") \/ XSendAcked(t)
      PROVE  Goal(e)
  <2>1. /\ hSend' = [hSend EXCEPT ![Home[t]] = NULL]
        /\ \A u \in Threads : u # t => pc'[u] = pc[u]
    BY <1>0, <1>3 DEF Fail, XSendAcked, Goto
  <2>2. CASE Home[t] = e
    BY <2>1, <2>2, <1>0
  <2>3. CASE Home[t] # e
    BY <2>1, <2>3, <1>0
  <2> QED
    BY <2>2, <2>3
<1>4. ASSUME NEW d \in Ends, DealSignal(d) PROVE Goal(e)
  <2>1. hSend' = hSend /\ \A u \in Threads : pc'[u] = pc[u] \/ pc'[u] = "woken"
    BY <1>0, <1>4 DEF DealSignal
  <2> QED
    BY <2>1, <1>0
<1>5. CASE UNCHANGED <<pc, calls, count, hSend>>
  BY <1>0, <1>5
<1> HIDE DEF Goal
<1> QED
  BY <1>1, <1>2, <1>3, <1>4, <1>5, Effects

(* Every reachable state satisfies the inductive invariant. *)
THEOREM AlwaysIInv == Spec => []IInv
<1>1. IInv /\ [Next]_vars => IInv'
  BY TypeStep, FlightStep, CurStep, SentStep, ForgeryStep, HSendStep DEF IInv
<1> QED
  BY InitIInv, <1>1, PTL DEF Spec

(* Types, and the bound of MsgQ. *)
THEOREM TypeCorrect == Spec => []TypeOK
<1>1. IInv => TypeOK
  BY DEF IInv
<1> QED
  BY <1>1, AlwaysIInv, PTL

(* No ack without an accepted packet behind it, whatever is lost, retried, *)
(* repeated by the parser or woken spuriously.                             *)
THEOREM AcksAreHonest == Spec => []AckAfterAccept
<1>1. IInv => AckAfterAccept
  <2> SUFFICES ASSUME IInv, NEW e \in Ends
               PROVE  /\ \A f \in InFlightTo(e) :
                           f.type = "ack" => f.msg \in ElementsOf(accepted[Peer(e)])
                      /\ dpc[e] \in {"response", "compare", "signal"}
                           => cur[e].msg \in ElementsOf(accepted[Peer(e)])
    BY DEF AckAfterAccept
  <2>1. \A f \in InFlightTo(e) : Honest(e, f)
    <3>1. /\ wire[Peer(e)] \in Seq(Frame) /\ rbuf[e] \in Seq(Frame)
          /\ chunk[e] \in Seq(Frame) /\ queue[e] \in Seq(Frame)
      BY PeerOfPeer DEF IInv, TypeOK
    <3>2. \A s \in Seq(Frame) : AllHonest(e, s) => \A f \in ElementsOf(s) : Honest(e, f)
      BY LenProperties DEF AllHonest, ElementsOf
    <3> QED
      BY <3>1, <3>2 DEF IInv, FlightInv, InFlightTo
  <2>2. dpc[e] \in {"response", "compare", "signal"} => Honest(e, cur[e]) /\ cur[e].type = "ack"
    BY DEF IInv, CurInv
  <2> QED
    BY <2>1, <2>2 DEF Honest
<1> QED
  BY <1>1, AlwaysIInv, PTL

(* The callback gets nothing the peer did not send. *)
THEOREM NothingForged == Spec => []NoForgery
<1>1. IInv => NoForgery
  BY DEF IInv
<1> QED
  BY <1>1, AlwaysIInv, PTL

(* hSend is NULL whenever no XSend is under way. *)
THEOREM NoStaleHSend == Spec => []HSendHasOwner
<1>1. IInv => HSendHasOwner
  BY DEF IInv
<1> QED
  BY <1>1, AlwaysIInv, PTL
=============================================================================
