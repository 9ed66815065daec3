------------------------------ MODULE MsgQueue ------------------------------
(***************************************************************************)
(* CXSMsgQueue (src/src/MsgQueue.cpp): the bounded packet queue between    *)
(* ThreadListen, which pushes what the parser recognises, and ThreadDeal,  *)
(* which pops.  XStop cancels it from a third thread.  One action is one   *)
(* uninterrupted piece of a call: m_queueMutex is taken in one step,       *)
(* what is read or written under it in others, and pthread_cond_signal     *)
(* comes after the unlock, as in the code.                                 *)
(***************************************************************************)
EXTENDS Naturals, Sequences, FiniteSets

CONSTANTS Producers,      \* threads that call pushback (ThreadListen)
          Dealer,         \* the thread that calls popFront (ThreadDeal)
          Stopper,        \* the thread that calls cancel (XStop)
          Packets,        \* packet objects; each is accepted at most once
          MAX_QUEUE_NUM,
          NULL

Threads == Producers \cup {Dealer, Stopper}

ASSUME MsgQueueAssumption ==
  /\ Dealer \notin Producers /\ Stopper \notin Producers /\ Dealer # Stopper
  /\ NULL \notin Threads /\ NULL \notin Packets
  /\ MAX_QUEUE_NUM \in Nat \ {0}

VARIABLES
  msgQueue,    \* m_msgQueue
  isCancel,    \* m_isCancel
  mutex,       \* the holder of m_queueMutex, or NULL
  pc,          \* where each thread is inside its call; "idle" outside
  newMsg,      \* pushback's argument, per producer
  pFront,      \* popFront's local result
  accepted,    \* history: packets pushed, oldest first
  taken        \* history: packets popped, oldest first

vars == <<msgQueue, isCancel, mutex, pc, newMsg, pFront, accepted, taken>>

(* Program points at which the thread holds m_queueMutex. *)
Critical == {"size", "push", "test", "block", "unlock", "set"}

Labels == {"idle", "lock", "signal", "wait", "woken"} \cup Critical

Init ==
  /\ msgQueue = << >> /\ isCancel = FALSE /\ mutex = NULL
  /\ pc = [t \in Threads |-> "idle"]
  /\ newMsg = [p \in Producers |-> NULL]
  /\ pFront = NULL
  /\ accepted = << >> /\ taken = << >>

Goto(t, from, to) == pc[t] = from /\ pc' = [pc EXCEPT ![t] = to]

Lock(t, to) ==
  /\ mutex = NULL
  /\ Goto(t, "lock", to)
  /\ mutex' = t

(* pthread_cond_signal(&m_queueCond): only ThreadDeal ever waits on it. *)
Signal(t) ==
  /\ pc[t] = "signal"
  /\ pc' = [u \in Threads |->
              IF u = t THEN "idle"
              ELSE IF u = Dealer /\ pc[u] = "wait" THEN "woken" ELSE pc[u]]

-----------------------------------------------------------------------------
(* pushback(newMsg), lines 17-39 *)

PushCall(p, m) ==
  /\ \A i \in 1..Len(accepted) : accepted[i] # m
  /\ \A q \in Producers : newMsg[q] # m
  /\ Goto(p, "idle", "lock")
  /\ newMsg' = [newMsg EXCEPT ![p] = m]
  /\ UNCHANGED <<msgQueue, isCancel, mutex, pFront, accepted, taken>>

PushLock(p) ==
  /\ Lock(p, "size")
  /\ UNCHANGED <<msgQueue, isCancel, newMsg, pFront, accepted, taken>>

(* A plausible bug: the limit is off by one. *)
PushHasRoomOffByOne(p) ==
  /\ Len(msgQueue) <= MAX_QUEUE_NUM
  /\ Goto(p, "size", "push")
  /\ UNCHANGED <<msgQueue, isCancel, mutex, newMsg, pFront, accepted, taken>>

PushHasRoom(p) ==
  /\ Len(msgQueue) < MAX_QUEUE_NUM
  /\ Goto(p, "size", "push")
  /\ UNCHANGED <<msgQueue, isCancel, mutex, newMsg, pFront, accepted, taken>>

(* Queue full: unlock and return -1; the caller deletes the packet. *)
PushFull(p) ==
  /\ ~(Len(msgQueue) < MAX_QUEUE_NUM)
  /\ Goto(p, "size", "idle")
  /\ mutex' = NULL
  /\ newMsg' = [newMsg EXCEPT ![p] = NULL]
  /\ UNCHANGED <<msgQueue, isCancel, pFront, accepted, taken>>

(* A push takes back a cancel that came before it (line 25). *)
PushStore(p) ==
  /\ Goto(p, "push", "signal")
  /\ msgQueue' = Append(msgQueue, newMsg[p])
  /\ isCancel' = FALSE
  /\ mutex' = NULL
  /\ newMsg' = [newMsg EXCEPT ![p] = NULL]
  /\ accepted' = Append(accepted, newMsg[p])
  /\ UNCHANGED <<pFront, taken>>

(* A plausible bug: pushback returns without the signal. *)
PushNoSignal(p) ==
  /\ Goto(p, "signal", "idle")
  /\ UNCHANGED <<msgQueue, isCancel, mutex, newMsg, pFront, accepted, taken>>

PushSignal(p) ==
  /\ Signal(p)
  /\ UNCHANGED <<msgQueue, isCancel, mutex, newMsg, pFront, accepted, taken>>

-----------------------------------------------------------------------------
(* popFront(), lines 41-66 *)

PopCall ==
  /\ Goto(Dealer, "idle", "lock")
  /\ pFront' = NULL
  /\ UNCHANGED <<msgQueue, isCancel, mutex, newMsg, accepted, taken>>

PopLock ==
  /\ Lock(Dealer, "test")
  /\ UNCHANGED <<msgQueue, isCancel, newMsg, pFront, accepted, taken>>

PopTake ==
  /\ msgQueue # << >>
  /\ Goto(Dealer, "test", "unlock")
  /\ pFront' = Head(msgQueue)
  /\ msgQueue' = Tail(msgQueue)
  /\ taken' = Append(taken, Head(msgQueue))
  /\ UNCHANGED <<isCancel, mutex, newMsg, accepted>>

PopCancelled ==
  /\ msgQueue = << >> /\ isCancel
  /\ Goto(Dealer, "test", "unlock")
  /\ UNCHANGED <<msgQueue, isCancel, mutex, newMsg, pFront, accepted, taken>>

PopMustWait ==
  /\ msgQueue = << >> /\ ~isCancel
  /\ Goto(Dealer, "test", "block")
  /\ UNCHANGED <<msgQueue, isCancel, mutex, newMsg, pFront, accepted, taken>>

(* pthread_cond_wait releases the mutex and sleeps in one step ... *)
PopBlock ==
  /\ Goto(Dealer, "block", "wait")
  /\ mutex' = NULL
  /\ UNCHANGED <<msgQueue, isCancel, newMsg, pFront, accepted, taken>>

(* ... may return without a signal ... *)
PopSpuriousWakeup ==
  /\ Goto(Dealer, "wait", "woken")
  /\ UNCHANGED <<msgQueue, isCancel, mutex, newMsg, pFront, accepted, taken>>

(* A plausible bug: one test, no loop around the wait. *)
PopRelockNoLoop ==
  /\ mutex = NULL
  /\ Goto(Dealer, "woken", "unlock")
  /\ mutex' = Dealer
  /\ UNCHANGED <<msgQueue, isCancel, newMsg, pFront, accepted, taken>>

(* ... and takes the mutex again before it returns to the loop condition.  *)
PopRelock ==
  /\ mutex = NULL
  /\ Goto(Dealer, "woken", IF msgQueue # << >> THEN "test" ELSE "unlock")
  /\ mutex' = Dealer
  /\ UNCHANGED <<msgQueue, isCancel, newMsg, pFront, accepted, taken>>

PopReturn ==
  /\ Goto(Dealer, "unlock", "idle")
  /\ mutex' = NULL
  /\ UNCHANGED <<msgQueue, isCancel, newMsg, pFront, accepted, taken>>

-----------------------------------------------------------------------------
(* cancel(), lines 89-97 *)

CancelCall ==
  /\ Goto(Stopper, "idle", "lock")
  /\ UNCHANGED <<msgQueue, isCancel, mutex, newMsg, pFront, accepted, taken>>

CancelLock ==
  /\ Lock(Stopper, "set")
  /\ UNCHANGED <<msgQueue, isCancel, newMsg, pFront, accepted, taken>>

(* A plausible bug: cancel sets the flag without telling the waiter. *)
CancelSetNoSignal ==
  /\ Goto(Stopper, "set", "idle")
  /\ isCancel' = TRUE
  /\ mutex' = NULL
  /\ UNCHANGED <<msgQueue, newMsg, pFront, accepted, taken>>

CancelSet ==
  /\ Goto(Stopper, "set", "signal")
  /\ isCancel' = TRUE
  /\ mutex' = NULL
  /\ UNCHANGED <<msgQueue, newMsg, pFront, accepted, taken>>

CancelSignal ==
  /\ Signal(Stopper)
  /\ UNCHANGED <<msgQueue, isCancel, mutex, newMsg, pFront, accepted, taken>>

-----------------------------------------------------------------------------
Push(p) == \/ \E m \in Packets : PushCall(p, m)
           \/ PushLock(p) \/ PushHasRoom(p) \/ PushFull(p)
           \/ PushStore(p) \/ PushSignal(p)

(* popFront once it is called, short of a spurious wakeup *)
PopFront == \/ PopLock \/ PopTake \/ PopCancelled \/ PopMustWait
            \/ PopBlock \/ PopRelock \/ PopReturn

Cancel == CancelLock \/ CancelSet \/ CancelSignal

Next == \/ \E p \in Producers : Push(p)
        \/ PopCall \/ PopFront \/ PopSpuriousWakeup
        \/ CancelCall \/ Cancel

Spec == Init /\ [][Next]_vars

(***************************************************************************)
(* The scheduler runs every thread that can run, and a thread that waits   *)
(* for a mutex which is free again and again gets it (strong fairness of   *)
(* the two steps of popFront that take it; a producer whose pushes are all *)
(* refused could else starve it).  ThreadDeal calls popFront again and     *)
(* again; nothing obliges anyone to push or to cancel, but a call once     *)
(* made goes on.                                                           *)
(***************************************************************************)
Fairness ==
  /\ WF_vars(PopCall) /\ WF_vars(PopFront)
  /\ SF_vars(PopLock) /\ SF_vars(PopRelock)
  /\ WF_vars(CancelSet) /\ WF_vars(CancelSignal)
  /\ \A p \in Producers :
       /\ WF_vars(PushHasRoom(p) \/ PushFull(p))
       /\ WF_vars(PushStore(p)) /\ WF_vars(PushSignal(p))

FairSpec == Spec /\ Fairness

-----------------------------------------------------------------------------
(* Properties *)

(* Every variable of the queue and of the calls in progress has its type;  *)
(* m_msgQueue's includes its bound, which pushback tests before it pushes. *)
TypeOK ==
  /\ msgQueue \in Seq(Packets) /\ Len(msgQueue) <= MAX_QUEUE_NUM
  /\ isCancel \in BOOLEAN
  /\ mutex \in Threads \cup {NULL}
  /\ pc \in [Threads -> Labels]
  /\ newMsg \in [Producers -> Packets \cup {NULL}]
  /\ pFront \in Packets \cup {NULL}
  /\ accepted \in Seq(Packets) /\ taken \in Seq(Packets)

(* ThreadDeal never sleeps in pthread_cond_wait beside a packet or a       *)
(* cancel, unless the thread that caused it is still on its way to the     *)
(* pthread_cond_signal that both calls make after the unlock.              *)
NoLostWakeup ==
  pc[Dealer] = "wait" /\ (msgQueue # << >> \/ isCancel)
    => \E t \in Threads : pc[t] = "signal"

(* popFront gives up with NULL (woken without a packet, or cancelled) only *)
(* while the queue is empty: packets already accepted are dealt before a   *)
(* cancel is obeyed.                                                       *)
NullOnlyWhenEmpty ==
  pc[Dealer] = "unlock" /\ pFront = NULL => msgQueue = << >>

(* Pushing, popping and cancelling from three threads never lose, repeat   *)
(* or reorder an accepted packet, and never hold more than MAX_QUEUE_NUM.  *)
Fifo == INSTANCE BoundedFifo WITH Capacity <- MAX_QUEUE_NUM
FifoSpec == Fifo!Spec

(* cancel() gets ThreadDeal out of its sleep: XStop, which joins it, can   *)
(* return.                                                                 *)
CancelUnblocks == isCancel /\ pc[Dealer] = "wait" ~> pc[Dealer] # "wait"

(* Every packet pushback accepts is dealt, whatever producers and cancel   *)
(* do meanwhile.                                                           *)
EveryPacketDealt ==
  \A n \in 1..Cardinality(Packets) : Len(accepted) >= n ~> Len(taken) >= n

-----------------------------------------------------------------------------
(***************************************************************************)
(* The inductive invariant.  Exactly the holder of m_queueMutex is between *)
(* lock and unlock; what a thread has tested under the mutex still holds   *)
(* there; and the history says where every accepted packet is.             *)
(***************************************************************************)
MutexInv == \A t \in Threads : pc[t] \in Critical <=> mutex = t

LabelInv == /\ \A p \in Producers : pc[p] \in {"idle", "lock", "size", "push", "signal"}
            /\ pc[Dealer] \in {"idle", "lock", "test", "block", "wait", "woken", "unlock"}
            /\ pc[Stopper] \in {"idle", "lock", "set", "signal"}

ArgInv == \A p \in Producers : pc[p] \in {"lock", "size", "push"} => newMsg[p] \in Packets

RoomInv == \A p \in Producers : pc[p] = "push" => Len(msgQueue) < MAX_QUEUE_NUM

BlockInv == pc[Dealer] = "block" => msgQueue = << >> /\ ~isCancel

HistoryInv == accepted = taken \o msgQueue

IInv == /\ TypeOK /\ MutexInv /\ LabelInv /\ ArgInv /\ RoomInv /\ BlockInv
        /\ HistoryInv /\ NullOnlyWhenEmpty /\ NoLostWakeup
=============================================================================
