------------------------------- MODULE Session -------------------------------
(***************************************************************************)
(* Two connected processes, the client and the server, each running the    *)
(* library: application threads inside sendData, ThreadListen, ThreadDeal. *)
(* A request travels sendData -> XSend -> TCP -> OnRecvMsg -> MsgQ ->      *)
(* ThreadDeal -> callback, its ack the same way back to the waiting XSend. *)
(*                                                                         *)
(* XSocketClient.cpp and XSocketServer.cpp hold the same XSend and the     *)
(* same ThreadDeal twice; one action here stands for both copies.          *)
(* A step is what happens between two accesses to state another thread     *)
(* can see: m_mutex, hSend, iSeq, the socket, MsgQ.  MsgQ is the bounded   *)
(* fifo that MsgQueue is shown to implement.  The connection stays up, a   *)
(* write goes out whole or not at all, and a read ends at the end of a     *)
(* frame; frames have one size.                                            *)
(***************************************************************************)
EXTENDS Integers, Sequences, FiniteSets

CONSTANTS Threads,            \* application threads, of both processes
          Home,               \* the process each of them lives in
          MaxCalls,           \* bound: sendData calls per thread
          MaxRead,            \* bound: frames one recv may return
          SEQ_LIMIT,          \* 10000 in xSendData
          REPEAT_SEND_TIMES,
          MAX_QUEUE_NUM,
          SpuriousWakeups,    \* may pthread_cond_timedwait return 0 unsignalled?
          NULL

Ends == {"client", "server"}

ASSUME SessionAssumption ==
  /\ Home \in [Threads -> Ends]
  /\ MaxCalls \in Nat /\ MaxRead \in Nat \ {0}
  /\ SEQ_LIMIT \in Nat \ {0, 1}
  /\ REPEAT_SEND_TIMES \in Nat \ {0} /\ MAX_QUEUE_NUM \in Nat \ {0}
  /\ SpuriousWakeups \in BOOLEAN
  /\ NULL \notin Threads /\ NULL \notin Nat

VARIABLES
  iSeq,        \* [Ends -> Nat]: the global iSeq of each process
  pc,          \* where each application thread is inside sendData
  calls,       \* sendData calls a thread has made; its packet is <<t, calls[t]>>
  reg,         \* the register of iSeq++
  seq,         \* XSend's argument seq
  count,       \* xSendData's count of failed attempts
  mutex,       \* the thread that keeps m_mutex across steps, or NULL
  hSend,       \* the sequence number in hSend, or NULL
  wire,        \* wire[e]: frames e has sent and its peer has not read
  rbuf,        \* m_xsProtocolBuffer
  chunk,       \* what pParseBuffer still points to; << >> outside OnRecvMsg
  queue,       \* MsgQ
  dpc,         \* where ThreadDeal is
  cur,         \* its hRecv
  preSeq,      \* its preSeq
  crashed,     \* the process has died of a use of a deleted hSend
  sent,        \* history: packets in the order their first XSend began
  accepted,    \* history: packets ThreadDeal took as new
  delivered,   \* history: packets given to the callback
  ok, failed   \* history: packets whose sendData returned 0, -1

appVars == <<iSeq, calls, reg, seq, count>>
readVars == <<rbuf, chunk, queue>>
dealVars == <<dpc, cur, preSeq, crashed, accepted, delivered>>
vars == <<appVars, pc, mutex, hSend, wire, readVars, dealVars, sent, ok, failed>>

Peer(e) == IF e = "client" THEN "server" ELSE "client"

Packets == Threads \X (1..MaxCalls)
Frame == [type : {"req", "ack"}, seq : Nat, msg : Packets]

Packet(t) == <<t, calls[t]>>
ThreadsOf(e) == {t \in Threads : Home[t] = e}
Alive(t) == ~crashed[Home[t]]

Init ==
  /\ iSeq = [e \in Ends |-> 0]
  /\ pc = [t \in Threads |-> "idle"]
  /\ calls = [t \in Threads |-> 0] /\ reg = [t \in Threads |-> 0]
  /\ seq = [t \in Threads |-> 0] /\ count = [t \in Threads |-> 0]
  /\ mutex = [e \in Ends |-> NULL] /\ hSend = [e \in Ends |-> NULL]
  /\ wire = [e \in Ends |-> << >>] /\ rbuf = [e \in Ends |-> << >>]
  /\ chunk = [e \in Ends |-> << >>] /\ queue = [e \in Ends |-> << >>]
  /\ dpc = [e \in Ends |-> "pop"] /\ cur = [e \in Ends |-> NULL]
  /\ preSeq = [e \in Ends |-> 0] /\ crashed = [e \in Ends |-> FALSE]
  /\ sent = [e \in Ends |-> << >>] /\ accepted = [e \in Ends |-> << >>]
  /\ delivered = [e \in Ends |-> << >>]
  /\ ok = {} /\ failed = {}

Goto(t, from, to) == pc[t] = from /\ pc' = [pc EXCEPT ![t] = to]

-----------------------------------------------------------------------------
(* xSendData, XSocket.cpp 54-81.  iSeq++ and the wrap are plain accesses   *)
(* to a global; every attempt reads it again.                              *)

SeqLoad(t) ==
  /\ Alive(t) /\ calls[t] < MaxCalls
  /\ Goto(t, "idle", "inc")
  /\ calls' = [calls EXCEPT ![t] = @ + 1]
  /\ reg' = [reg EXCEPT ![t] = iSeq[Home[t]]]
  /\ count' = [count EXCEPT ![t] = 0]
  /\ UNCHANGED <<iSeq, seq, mutex, hSend, wire, readVars, dealVars, sent, ok, failed>>

SeqStore(t) ==
  /\ Alive(t)
  /\ Goto(t, "inc", "wrap")
  /\ iSeq' = [iSeq EXCEPT ![Home[t]] = reg[t] + 1]
  /\ UNCHANGED <<calls, reg, seq, count, mutex, hSend, wire, readVars, dealVars,
                 sent, ok, failed>>

(* A plausible bug: iSeq is wrapped one number late. *)
SeqWrapLate(t) ==
  /\ Alive(t)
  /\ Goto(t, "wrap", "call")
  /\ iSeq' = [iSeq EXCEPT ![Home[t]] = IF @ > SEQ_LIMIT THEN 1 ELSE @]
  /\ UNCHANGED <<calls, reg, seq, count, mutex, hSend, wire, readVars, dealVars,
                 sent, ok, failed>>

SeqWrap(t) ==
  /\ Alive(t)
  /\ Goto(t, "wrap", "call")
  /\ iSeq' = [iSeq EXCEPT ![Home[t]] = IF @ >= SEQ_LIMIT THEN 1 ELSE @]
  /\ UNCHANGED <<calls, reg, seq, count, mutex, hSend, wire, readVars, dealVars,
                 sent, ok, failed>>

XSendCall(t) ==
  /\ Alive(t)
  /\ Goto(t, "call", "lock")
  /\ seq' = [seq EXCEPT ![t] = iSeq[Home[t]]]
  /\ sent' = IF count[t] = 0 THEN [sent EXCEPT ![Home[t]] = Append(@, Packet(t))]
             ELSE sent
  /\ UNCHANGED <<iSeq, calls, reg, count, mutex, hSend, wire, readVars, dealVars,
                 ok, failed>>

-----------------------------------------------------------------------------
(* XSend, XSocketClient.cpp 394-440 = XSocketServer.cpp 396-441 *)

XSendLock(t) ==
  /\ Alive(t) /\ mutex[Home[t]] = NULL
  /\ Goto(t, "lock", "write")
  /\ mutex' = [mutex EXCEPT ![Home[t]] = t]
  /\ hSend' = [hSend EXCEPT ![Home[t]] = seq[t]]
  /\ UNCHANGED <<appVars, wire, readVars, dealVars, sent, ok, failed>>

(* A plausible bug: the request is marked as a response. *)
XSendWriteWrongType(t) ==
  /\ Alive(t)
  /\ Goto(t, "write", "wait")
  /\ wire' = [wire EXCEPT ![Home[t]] =
                Append(@, [type |-> "ack", seq |-> seq[t], msg |-> Packet(t)])]
  /\ mutex' = [mutex EXCEPT ![Home[t]] = NULL]
  /\ UNCHANGED <<appVars, hSend, readVars, dealVars, sent, ok, failed>>

(* The whole frame goes out; pthread_cond_timedwait gives up the mutex. *)
XSendWrite(t) ==
  /\ Alive(t)
  /\ Goto(t, "write", "wait")
  /\ wire' = [wire EXCEPT ![Home[t]] =
                Append(@, [type |-> "req", seq |-> seq[t], msg |-> Packet(t)])]
  /\ mutex' = [mutex EXCEPT ![Home[t]] = NULL]
  /\ UNCHANGED <<appVars, hSend, readVars, dealVars, sent, ok, failed>>

(* A plausible bug: an early return that leaves m_mutex locked. *)
FailLocked(t, from) ==
  /\ count' = [count EXCEPT ![t] = @ + 1]
  /\ IF count[t] + 1 = REPEAT_SEND_TIMES
     THEN Goto(t, from, "idle") /\ failed' = failed \cup {Packet(t)}
     ELSE Goto(t, from, "call") /\ failed' = failed
  /\ hSend' = [hSend EXCEPT ![Home[t]] = NULL]
  /\ UNCHANGED <<iSeq, calls, reg, seq, mutex, readVars, dealVars, sent, ok>>

(* An attempt has failed: xSendData tries again or answers -1. *)
Fail(t, from) ==
  /\ count' = [count EXCEPT ![t] = @ + 1]
  /\ IF count[t] + 1 = REPEAT_SEND_TIMES
     THEN Goto(t, from, "idle") /\ failed' = failed \cup {Packet(t)}
     ELSE Goto(t, from, "call") /\ failed' = failed
  /\ hSend' = [hSend EXCEPT ![Home[t]] = NULL]
  /\ mutex' = [mutex EXCEPT ![Home[t]] = NULL]
  /\ UNCHANGED <<iSeq, calls, reg, seq, readVars, dealVars, sent, ok>>

(* "send loss": the socket takes nothing before the timeout. *)
XSendLoss(t) == Alive(t) /\ Fail(t, "write") /\ UNCHANGED wire

Timeout(t) ==
  /\ Alive(t)
  /\ Goto(t, "wait", "timedout")
  /\ UNCHANGED <<appVars, mutex, hSend, wire, readVars, dealVars, sent, ok, failed>>

SpuriousWakeup(t) ==
  /\ SpuriousWakeups /\ Alive(t)
  /\ Goto(t, "wait", "woken")
  /\ UNCHANGED <<appVars, mutex, hSend, wire, readVars, dealVars, sent, ok, failed>>

(* timedwait has the mutex again; hSend, by now perhaps another thread's,  *)
(* is deleted either way.                                                  *)
XSendTimedOut(t) ==
  Alive(t) /\ mutex[Home[t]] = NULL /\ Fail(t, "timedout") /\ UNCHANGED wire

(* A plausible bug: hSend is deleted and not set to NULL. *)
XSendAckedKeepsSend(t) ==
  /\ Alive(t) /\ mutex[Home[t]] = NULL
  /\ Goto(t, "woken", "idle")
  /\ ok' = ok \cup {Packet(t)}
  /\ UNCHANGED <<appVars, mutex, hSend, wire, readVars, dealVars, sent, failed>>

XSendAcked(t) ==
  /\ Alive(t) /\ mutex[Home[t]] = NULL
  /\ Goto(t, "woken", "idle")
  /\ hSend' = [hSend EXCEPT ![Home[t]] = NULL]
  /\ ok' = ok \cup {Packet(t)}
  /\ UNCHANGED <<appVars, mutex, wire, readVars, dealVars, sent, failed>>

-----------------------------------------------------------------------------
(* ThreadListen and OnRecvMsg, XSocketProtocol.cpp 184-257 *)

(* One recv; the first HandleChunkedRead appends all of it to the buffer. *)
Recv(e, k) ==
  /\ ~crashed[e] /\ chunk[e] = << >>
  /\ k <= Len(wire[Peer(e)])
  /\ chunk' = [chunk EXCEPT ![e] = SubSeq(wire[Peer(e)], 1, k)]
  /\ wire' = [wire EXCEPT ![Peer(e)] = SubSeq(@, k + 1, Len(@))]
  /\ rbuf' = [rbuf EXCEPT ![e] = @ \o chunk'[e]]
  /\ UNCHANGED <<appVars, pc, mutex, hSend, queue, dealVars, sent, ok, failed>>

(* One round of OnRecvMsg's loop: the first frame of the buffer goes to    *)
(* MsgQ, or is lost when MsgQ is full.  If the read held more than one     *)
(* frame, the next HandleChunkedRead appends the rest of the read -- which *)
(* is in the buffer already -- once more.                                  *)
WellFormed(f) == f.seq < SEQ_LIMIT

(* A plausible bug: MsgQ without a limit. *)
ParseFrameNoLimit(e) ==
  /\ ~crashed[e] /\ chunk[e] # << >> /\ WellFormed(Head(rbuf[e]))
  /\ queue' = [queue EXCEPT ![e] = Append(@, Head(rbuf[e]))]
  /\ chunk' = [chunk EXCEPT ![e] = Tail(@)]
  /\ rbuf' = [rbuf EXCEPT ![e] = Tail(@) \o Tail(chunk[e])]
  /\ UNCHANGED <<appVars, pc, mutex, hSend, wire, dealVars, sent, ok, failed>>

ParseFrame(e) ==
  /\ ~crashed[e] /\ chunk[e] # << >> /\ WellFormed(Head(rbuf[e]))
  /\ queue' = IF Len(queue[e]) < MAX_QUEUE_NUM
              THEN [queue EXCEPT ![e] = Append(@, Head(rbuf[e]))] ELSE queue
  /\ chunk' = [chunk EXCEPT ![e] = Tail(@)]
  /\ rbuf' = [rbuf EXCEPT ![e] = Tail(@) \o Tail(chunk[e])]
  /\ UNCHANGED <<appVars, pc, mutex, hSend, wire, dealVars, sent, ok, failed>>

(* A sequence number of five digits shifts every field behind it: the      *)
(* tail is not where Len says, and OnRecvMsg gives up for this read.       *)
ParseCorrupted(e) ==
  /\ ~crashed[e] /\ chunk[e] # << >> /\ ~WellFormed(Head(rbuf[e]))
  /\ chunk' = [chunk EXCEPT ![e] = << >>]
  /\ rbuf' = [rbuf EXCEPT ![e] = Tail(@)]
  /\ UNCHANGED <<appVars, pc, mutex, hSend, wire, queue, dealVars, sent, ok, failed>>

-----------------------------------------------------------------------------
(* ThreadDeal, XSocketServer.cpp 287-353 = XSocketClient.cpp 251-317 *)

DealGoto(e, from, to) == ~crashed[e] /\ dpc[e] = from /\ dpc' = [dpc EXCEPT ![e] = to]

(* A plausible bug: responses are taken for requests. *)
DealPopAllRequests(e) ==
  /\ queue[e] # << >>
  /\ DealGoto(e, "pop", "request")
  /\ cur' = [cur EXCEPT ![e] = Head(queue[e])]
  /\ queue' = [queue EXCEPT ![e] = Tail(@)]
  /\ UNCHANGED <<appVars, pc, mutex, hSend, wire, rbuf, chunk, preSeq, crashed,
                 accepted, delivered, sent, ok, failed>>

DealPop(e) ==
  /\ queue[e] # << >>
  /\ DealGoto(e, "pop", IF Head(queue[e]).type = "req" THEN "request" ELSE "response")
  /\ cur' = [cur EXCEPT ![e] = Head(queue[e])]
  /\ queue' = [queue EXCEPT ![e] = Tail(@)]
  /\ UNCHANGED <<appVars, pc, mutex, hSend, wire, rbuf, chunk, preSeq, crashed,
                 accepted, delivered, sent, ok, failed>>

(* A plausible bug: a duplicate is acknowledged again. *)
DealDuplicateAcked(e) ==
  /\ DealGoto(e, "request", "pop")
  /\ cur[e].seq = preSeq[e] /\ mutex[e] = NULL
  /\ wire' = [wire EXCEPT ![e] = Append(@, [cur[e] EXCEPT !.type = "ack"])]
  /\ UNCHANGED <<appVars, pc, mutex, hSend, readVars, cur, preSeq, crashed,
                 accepted, delivered, sent, ok, failed>>

(* The sequence number of the request before: no callback and no ack. *)
DealDuplicate(e) ==
  /\ DealGoto(e, "request", "pop")
  /\ cur[e].seq = preSeq[e]
  /\ UNCHANGED <<appVars, pc, mutex, hSend, wire, readVars, cur, preSeq, crashed,
                 accepted, delivered, sent, ok, failed>>

(* A plausible bug: preSeq is never brought up to date. *)
DealAckForgetsSeq(e) ==
  /\ DealGoto(e, "request", "callback")
  /\ cur[e].seq # preSeq[e] /\ mutex[e] = NULL
  /\ accepted' = [accepted EXCEPT ![e] = Append(@, cur[e].msg)]
  /\ \/ wire' = [wire EXCEPT ![e] = Append(@, [cur[e] EXCEPT !.type = "ack"])]
     \/ UNCHANGED wire
  /\ UNCHANGED <<appVars, pc, mutex, hSend, readVars, cur, preSeq, crashed, delivered,
                 sent, ok, failed>>

(* A new request is acknowledged under m_mutex; whether the ack went out   *)
(* is not looked at.                                                       *)
DealAck(e) ==
  /\ DealGoto(e, "request", "callback")
  /\ cur[e].seq # preSeq[e] /\ mutex[e] = NULL
  /\ preSeq' = [preSeq EXCEPT ![e] = cur[e].seq]
  /\ accepted' = [accepted EXCEPT ![e] = Append(@, cur[e].msg)]
  /\ \/ wire' = [wire EXCEPT ![e] = Append(@, [cur[e] EXCEPT !.type = "ack"])]
     \/ UNCHANGED wire
  /\ UNCHANGED <<appVars, pc, mutex, hSend, readVars, cur, crashed, delivered,
                 sent, ok, failed>>

DealCallback(e) ==
  /\ DealGoto(e, "callback", "pop")
  /\ delivered' = [delivered EXCEPT ![e] = Append(@, cur[e].msg)]
  /\ UNCHANGED <<appVars, pc, mutex, hSend, wire, readVars, cur, preSeq, crashed,
                 accepted, sent, ok, failed>>

(* An ack looks at hSend, twice, without m_mutex. *)
DealTest(e) ==
  /\ DealGoto(e, "response", IF hSend[e] # NULL THEN "compare" ELSE "pop")
  /\ UNCHANGED <<appVars, pc, mutex, hSend, wire, readVars, cur, preSeq, crashed,
                 accepted, delivered, sent, ok, failed>>

(* Between XSendLock and XSendWrite the packet hSend points to is still    *)
(* being packed: what getSeq reads then is anyone's guess.                 *)
Packing(e) == \E t \in ThreadsOf(e) : pc[t] = "write"

DealCompare(e) ==
  /\ dpc[e] = "compare"
  /\ \E matches \in IF hSend[e] = NULL \/ Packing(e) THEN BOOLEAN
                    ELSE {cur[e].seq = hSend[e]} :
       DealGoto(e, "compare", IF matches THEN "signal" ELSE "pop")
  /\ UNCHANGED <<appVars, pc, mutex, hSend, wire, readVars, cur, preSeq, crashed,
                 accepted, delivered, sent, ok, failed>>

(* hSend was set to NULL between the test and the use. *)
DealCrash(e) ==
  /\ hSend[e] = NULL /\ dpc[e] = "compare" /\ ~crashed[e]
  /\ crashed' = [crashed EXCEPT ![e] = TRUE]
  /\ UNCHANGED <<appVars, pc, mutex, hSend, wire, readVars, dpc, cur, preSeq,
                 accepted, delivered, sent, ok, failed>>

Waiters(e) == {t \in ThreadsOf(e) : pc[t] = "wait"}

(* A plausible bug: pthread_cond_broadcast. *)
DealSignalAll(e) ==
  /\ mutex[e] = NULL
  /\ DealGoto(e, "signal", "pop")
  /\ pc' = [t \in Threads |-> IF t \in Waiters(e) THEN "woken" ELSE pc[t]]
  /\ UNCHANGED <<appVars, mutex, hSend, wire, readVars, cur, preSeq, crashed,
                 accepted, delivered, sent, ok, failed>>

(* pthread_cond_signal wakes one waiter, whichever packet it waits for. *)
DealSignal(e) ==
  /\ mutex[e] = NULL
  /\ DealGoto(e, "signal", "pop")
  /\ \/ \E t \in Waiters(e) : pc' = [pc EXCEPT ![t] = "woken"]
     \/ Waiters(e) = {} /\ UNCHANGED pc
  /\ UNCHANGED <<appVars, mutex, hSend, wire, readVars, cur, preSeq, crashed,
                 accepted, delivered, sent, ok, failed>>

-----------------------------------------------------------------------------
SendData(t) == \/ SeqStore(t) \/ SeqWrap(t) \/ XSendCall(t) \/ XSendLock(t)
               \/ XSendWrite(t) \/ XSendLoss(t) \/ Timeout(t)
               \/ XSendTimedOut(t) \/ XSendAcked(t)

OnRecv(e) == (\E k \in 1..MaxRead : Recv(e, k)) \/ ParseFrame(e) \/ ParseCorrupted(e)

Deal(e) == \/ DealPop(e) \/ DealDuplicate(e) \/ DealAck(e) \/ DealCallback(e)
           \/ DealTest(e) \/ DealCompare(e) \/ DealCrash(e) \/ DealSignal(e)

Next == \/ \E t \in Threads : SeqLoad(t) \/ SendData(t) \/ SpuriousWakeup(t)
        \/ \E e \in Ends : OnRecv(e) \/ Deal(e)

Spec == Init /\ [][Next]_vars

(***************************************************************************)
(* Threads that can run do run, the clock goes on, and whoever waits for   *)
(* m_mutex while it is free again and again gets it.  Nobody has to call   *)
(* sendData.                                                               *)
(***************************************************************************)
Fairness ==
  /\ \A t \in Threads : SF_vars(SendData(t))
  /\ \A e \in Ends : WF_vars(OnRecv(e)) /\ SF_vars(Deal(e))

FairSpec == Spec /\ Fairness

-----------------------------------------------------------------------------
(* Properties *)

InXSend == {"write", "wait", "woken", "timedout"}
Labels == {"idle", "inc", "wrap", "call", "lock"} \cup InXSend
DealLabels == {"pop", "request", "callback", "response", "compare", "signal"}

(* Every variable of both processes has its type, and MsgQ its bound. *)
TypeOK ==
  /\ iSeq \in [Ends -> Nat]
  /\ pc \in [Threads -> Labels]
  /\ calls \in [Threads -> 0..MaxCalls] /\ reg \in [Threads -> Nat]
  /\ seq \in [Threads -> Nat] /\ count \in [Threads -> Nat]
  /\ mutex \in [Ends -> Threads \cup {NULL}] /\ hSend \in [Ends -> Nat \cup {NULL}]
  /\ wire \in [Ends -> Seq(Frame)] /\ rbuf \in [Ends -> Seq(Frame)]
  /\ chunk \in [Ends -> Seq(Frame)] /\ queue \in [Ends -> Seq(Frame)]
  /\ \A e \in Ends : Len(queue[e]) <= MAX_QUEUE_NUM
  /\ dpc \in [Ends -> DealLabels] /\ cur \in [Ends -> Frame \cup {NULL}]
  /\ preSeq \in [Ends -> Nat] /\ crashed \in [Ends -> BOOLEAN]
  /\ sent \in [Ends -> Seq(Packets)] /\ accepted \in [Ends -> Seq(Packets)]
  /\ delivered \in [Ends -> Seq(Packets)]
  /\ ok \in SUBSET Packets /\ failed \in SUBSET Packets

ElementsOf(s) == {s[i] : i \in DOMAIN s}

(* Everything on its way to e: in the socket, in the parser, in MsgQ. *)
InFlightTo(e) ==
  UNION {ElementsOf(wire[Peer(e)]), ElementsOf(rbuf[e]), ElementsOf(chunk[e]),
         ElementsOf(queue[e])}

(* An ack on its way to e, or being dealt there, is for a packet that e    *)
(* has sent and that e's peer has taken as new: lost acks, retries and     *)
(* frames the parser repeats never make an ack out of nothing.             *)
AckAfterAccept ==
  \A e \in Ends :
    /\ \A f \in InFlightTo(e) : f.type = "ack" => f.msg \in ElementsOf(accepted[Peer(e)])
    /\ dpc[e] \in {"response", "compare", "signal"}
         => cur[e].msg \in ElementsOf(accepted[Peer(e)])

(* The callback is only ever given packets the peer's sendData was called  *)
(* with.                                                                   *)
NoForgery == \A e \in Ends : ElementsOf(delivered[e]) \subseteq ElementsOf(sent[Peer(e)])

(* hSend points to a packet only while some XSend is under way, so that an *)
(* ack which comes when nobody sends is dropped.                           *)
HSendHasOwner ==
  \A e \in Ends : hSend[e] # NULL => \E t \in ThreadsOf(e) : pc[t] \in InXSend

(* A process is not told "success" more often than its peer has taken a    *)
(* packet as new: one signal per ack, one ack per accepted packet.         *)
SuccessesAreBacked ==
  \A e \in Ends :
    Cardinality({m \in ok : Home[m[1]] = e}) <= Len(accepted[Peer(e)])

(* Consecutive callbacks are for different packets: the retries of one     *)
(* sendData carry one sequence number, and preSeq filters them.            *)
RetryNotRepeated ==
  \A e \in Ends : \A i \in 1..Len(accepted[e]) - 1 : accepted[e][i] # accepted[e][i+1]

(* SocketCommon.h:34: Seq is bytes 6 to 9 of a frame, four digits.  No     *)
(* frame needs more, in any attempt and through any wrap, as long as one   *)
(* thread at a time is in sendData: two share iSeq without a lock.         *)
SeqFitsItsField == \A e \in Ends : \A f \in InFlightTo(e) : WellFormed(f)

(* Seen from outside, each direction is a channel that may lose a packet   *)
(* but neither repeats nor reorders one.                                   *)
Channel == INSTANCE LossyFifo WITH sent <- sent, delivered <- delivered
ChannelSpec == Channel!Spec

(* sendData returns, with an ack or without one: at the latest its three   *)
(* timeouts end it, unless the process dies.                               *)
SendReturns ==
  \A t \in Threads : pc[t] # "idle" ~> pc[t] = "idle" \/ crashed[Home[t]]

-----------------------------------------------------------------------------
(***************************************************************************)
(* The inductive invariant.  A frame on its way to e is an honest one: a   *)
(* request e's peer has sent or an ack of something e's peer accepted.     *)
(* Everything a frame passes through keeps that; the parser may repeat or  *)
(* lose frames but reads no others.                                        *)
(***************************************************************************)
Honest(e, f) ==
  /\ f \in Frame
  /\ f.msg \in IF f.type = "req" THEN ElementsOf(sent[Peer(e)])
                                 ELSE ElementsOf(accepted[Peer(e)])

AllHonest(e, s) == \A i \in 1..Len(s) : Honest(e, s[i])

FlightInv ==
  \A e \in Ends : /\ AllHonest(e, wire[Peer(e)]) /\ AllHonest(e, rbuf[e])
                  /\ AllHonest(e, chunk[e]) /\ AllHonest(e, queue[e])

CurInv ==
  \A e \in Ends :
    dpc[e] # "pop" => /\ Honest(e, cur[e])
                      /\ cur[e].type = IF dpc[e] \in {"request", "callback"}
                                       THEN "req" ELSE "ack"

(* A packet is in sent before its first frame is written. *)
SentInv ==
  \A t \in Threads :
    /\ pc[t] # "idle" => calls[t] \in 1..MaxCalls
    /\ pc[t] \in {"inc", "wrap"} => count[t] = 0
    /\ pc[t] \in {"lock"} \cup InXSend \/ (pc[t] = "call" /\ count[t] # 0)
         => Packet(t) \in ElementsOf(sent[Home[t]])

(* The rest of a read is also at the end of the buffer, behind one frame   *)
(* at least as long as the loop goes on.                                   *)
ParseInv == \A e \in Ends : Len(chunk[e]) <= Len(rbuf[e])

IInv == TypeOK /\ FlightInv /\ CurInv /\ SentInv /\ ParseInv /\ NoForgery /\ HSendHasOwner

-----------------------------------------------------------------------------
(* What the documentation says and the code does not do. *)

(* XSocket.h:108: sendData answers 0 when the packet was sent; here, when  *)
(* the peer's ThreadDeal has taken the packet.                             *)
SuccessMeansAccepted ==
  \A m \in ok : m \in ElementsOf(accepted[Peer(Home[m[1]])])

(* XSocketServer.cpp:311: no second callback for the same packet. *)
CallbackOncePerPacket ==
  \A e \in Ends : \A i, j \in 1..Len(delivered[e]) :
    delivered[e][i] = delivered[e][j] => i = j

(* XSocket.h:108-109: sendData ends with 0, or below 0 on a timeout; a     *)
(* late ack does not end the process.                                      *)
LateAckIsHarmless == \A e \in Ends : ~crashed[e]
=============================================================================
