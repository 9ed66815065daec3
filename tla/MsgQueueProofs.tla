--------------------------- MODULE MsgQueueProofs ---------------------------
(* CXSMsgQueue for any number of producers, packets and places. *)
EXTENDS MsgQueue, SequenceTheorems, TLAPS

(* The initial state satisfies the inductive invariant. *)
LEMMA InitIInv == Init => IInv
<1> SUFFICES ASSUME Init PROVE IInv
  OBVIOUS
<1> USE MsgQueueAssumption DEF Init
<1>1. TypeOK
  <2>1. << >> \in Seq(Packets) /\ Len(<< >>) = 0 /\ 0 <= MAX_QUEUE_NUM
    BY EmptySeq
  <2>2. /\ pc \in [Threads -> Labels]
        /\ newMsg \in [Producers -> Packets \cup {NULL}]
    BY DEF Labels
  <2> QED
    BY <2>1, <2>2 DEF TypeOK
<1>2. MutexInv /\ LabelInv /\ ArgInv
  BY DEF MutexInv, LabelInv, ArgInv, Threads, Critical
<1>3. RoomInv /\ BlockInv /\ NullOnlyWhenEmpty /\ NoLostWakeup
  BY DEF RoomInv, BlockInv, NullOnlyWhenEmpty, NoLostWakeup, Threads
<1>4. HistoryInv
  BY EmptySeq, ConcatEmptySeq DEF HistoryInv
<1> QED
  BY <1>1, <1>2, <1>3, <1>4 DEF IInv

(* What a packet in the queue, or one more in it, does to the history. *)
LEMMA HistoryPush ==
  ASSUME NEW m \in Packets, TypeOK, HistoryInv
  PROVE  /\ Append(accepted, m) = taken \o Append(msgQueue, m)
         /\ Append(accepted, m) \in Seq(Packets)
         /\ Append(msgQueue, m) \in Seq(Packets)
         /\ Len(Append(msgQueue, m)) = Len(msgQueue) + 1
<1> USE DEF TypeOK, HistoryInv
<1>1. /\ Append(accepted, m) = accepted \o <<m>>
      /\ Append(msgQueue, m) = msgQueue \o <<m>>
      /\ <<m>> \in Seq(Packets)
  BY AppendIsConcat
<1>2. (taken \o msgQueue) \o <<m>> = taken \o (msgQueue \o <<m>>)
  BY <1>1, ConcatAssociative
<1> QED
  BY <1>1, <1>2, AppendProperties

LEMMA HistoryPop ==
  ASSUME TypeOK, HistoryInv, msgQueue # << >>
  PROVE  /\ accepted = Append(taken, Head(msgQueue)) \o Tail(msgQueue)
         /\ Head(msgQueue) \in Packets /\ Tail(msgQueue) \in Seq(Packets)
         /\ Len(Tail(msgQueue)) = Len(msgQueue) - 1
         /\ Append(taken, Head(msgQueue)) \in Seq(Packets)
         /\ Len(taken) < Len(accepted)
         /\ Head(msgQueue) = accepted[Len(taken) + 1]
BY DEF TypeOK, HistoryInv

(* Every step keeps the inductive invariant. *)
LEMMA NextIInv == IInv /\ [Next]_vars => IInv'
<1> SUFFICES ASSUME IInv, [Next]_vars PROVE IInv'
  OBVIOUS
<1> USE MsgQueueAssumption
<1> USE DEF IInv, TypeOK, MutexInv, LabelInv, ArgInv, RoomInv, BlockInv, HistoryInv,
            NullOnlyWhenEmpty, NoLostWakeup, Goto, Threads, Labels, Critical
<1>1. ASSUME NEW p \in Producers, NEW m \in Packets, PushCall(p, m) PROVE IInv'
  BY <1>1 DEF PushCall
<1>2. ASSUME NEW p \in Producers, PushLock(p) PROVE IInv'
  BY <1>2 DEF PushLock, Lock
<1>3. ASSUME NEW p \in Producers, PushHasRoom(p) PROVE IInv'
  BY <1>3 DEF PushHasRoom
<1>4. ASSUME NEW p \in Producers, PushFull(p) PROVE IInv'
  BY <1>4 DEF PushFull
<1>5. ASSUME NEW p \in Producers, PushStore(p) PROVE IInv'
  <2> USE <1>5 DEF PushStore
  <2>1. newMsg[p] \in Packets
    OBVIOUS
  <2>2. /\ msgQueue' \in Seq(Packets) /\ accepted' \in Seq(Packets) /\ HistoryInv'
        /\ Len(msgQueue') = Len(msgQueue) + 1 /\ Len(msgQueue) \in Nat
    BY <2>1, HistoryPush, LenProperties
  <2>5. TypeOK'
    <3>1. pc' \in [Threads -> Labels] /\ mutex' \in Threads \cup {NULL}
      OBVIOUS
    <3>2. newMsg' \in [Producers -> Packets \cup {NULL}] /\ Len(msgQueue') <= MAX_QUEUE_NUM
      BY <2>2
    <3> QED
      BY <2>2, <3>1, <3>2
  <2>3. RoomInv' /\ BlockInv' /\ NullOnlyWhenEmpty'
    BY <2>1, HistoryPush, LenProperties
  <2>4. MutexInv' /\ LabelInv' /\ ArgInv' /\ NoLostWakeup'
    OBVIOUS
  <2> QED
    BY <2>2, <2>3, <2>4, <2>5
<1>6. ASSUME NEW p \in Producers, PushSignal(p) PROVE IInv'
  BY <1>6 DEF PushSignal, Signal
<1>7. CASE PopCall
  BY <1>7 DEF PopCall
<1>8. CASE PopLock
  BY <1>8 DEF PopLock, Lock
<1>9. CASE PopTake
  <2> USE <1>9 DEF PopTake
  <2>1. TypeOK' /\ HistoryInv'
    BY HistoryPop, LenProperties, SMTT(30)
  <2>2. RoomInv' /\ BlockInv' /\ NullOnlyWhenEmpty' /\ NoLostWakeup'
    BY HistoryPop, LenProperties
  <2>3. MutexInv' /\ LabelInv' /\ ArgInv'
    OBVIOUS
  <2> QED
    BY <2>1, <2>2, <2>3
<1>10. CASE PopCancelled
  BY <1>10 DEF PopCancelled
<1>11. CASE PopMustWait
  BY <1>11 DEF PopMustWait
<1>12. CASE PopBlock
  BY <1>12 DEF PopBlock
<1>13. CASE PopSpuriousWakeup
  BY <1>13 DEF PopSpuriousWakeup
<1>14. CASE PopRelock
  BY <1>14 DEF PopRelock
<1>15. CASE PopReturn
  BY <1>15 DEF PopReturn
<1>16. CASE CancelCall
  BY <1>16 DEF CancelCall
<1>17. CASE CancelLock
  BY <1>17 DEF CancelLock, Lock
<1>18. CASE CancelSet
  BY <1>18 DEF CancelSet
<1>19. CASE CancelSignal
  BY <1>19 DEF CancelSignal, Signal
<1>20. CASE UNCHANGED vars
  BY <1>20 DEF vars
<1> QED
  BY <1>1, <1>2, <1>3, <1>4, <1>5, <1>6, <1>7, <1>8, <1>9, <1>10, <1>11, <1>12,
     <1>13, <1>14, <1>15, <1>16, <1>17, <1>18, <1>19, <1>20
     DEF Next, Push, PopFront, Cancel

(* Every reachable state satisfies the inductive invariant. *)
THEOREM AlwaysIInv == Spec => []IInv
<1> QED
  BY InitIInv, NextIInv, PTL DEF Spec

(* The queue's variables keep their types and m_msgQueue its bound, for    *)
(* any number of threads.                                                  *)
THEOREM TypeCorrect == Spec => []TypeOK
<1>1. IInv => TypeOK
  BY DEF IInv
<1> QED
  BY <1>1, AlwaysIInv, PTL

(* The signal that pushback and cancel send after the unlock is never      *)
(* missed by a popFront that is about to sleep.                            *)
THEOREM WakeupNeverLost == Spec => []NoLostWakeup
<1>1. IInv => NoLostWakeup
  BY DEF IInv
<1> QED
  BY <1>1, AlwaysIInv, PTL

(* popFront answers NULL only with the queue empty. *)
THEOREM NullMeansEmpty == Spec => []NullOnlyWhenEmpty
<1>1. IInv => NullOnlyWhenEmpty
  BY DEF IInv
<1> QED
  BY <1>1, AlwaysIInv, PTL

(* The threads' interleaved calls implement a bounded fifo. *)
THEOREM ImplementsFifo == Spec => FifoSpec
<1>1. Init => Fifo!Init
  BY DEF Init, Fifo!Init
<1>2. IInv /\ [Next]_vars => [Fifo!Next]_<<accepted, taken>>
  <2> SUFFICES ASSUME IInv, Next PROVE [Fifo!Next]_<<accepted, taken>>
    BY DEF vars
  <2>1. ASSUME NEW p \in Producers, PushStore(p)
        PROVE  Fifo!Next
    <3>1. pc[p] = "push" /\ Len(msgQueue) < MAX_QUEUE_NUM /\ newMsg[p] \in Packets
      BY <2>1 DEF PushStore, Goto, IInv, RoomInv, ArgInv
    <3>2. Len(accepted) = Len(taken) + Len(msgQueue) /\ Len(taken) \in Nat
          /\ Len(msgQueue) \in Nat
      BY ConcatProperties, LenProperties DEF IInv, TypeOK, HistoryInv
    <3>3. Len(accepted) < Len(taken) + MAX_QUEUE_NUM
      BY <3>1, <3>2, MsgQueueAssumption
    <3> QED
      BY <2>1, <3>1, <3>3 DEF PushStore, Fifo!Accept, Fifo!Next
  <2>2. CASE PopTake
    BY <2>2, HistoryPop DEF PopTake, Fifo!HandOut, Fifo!Next, IInv
  <2>3. CASE ~PopTake /\ ~\E p \in Producers : PushStore(p)
    BY <2>3 DEF Next, Push, PopFront, Cancel, PushCall, PushLock, PushHasRoom,
       PushFull, PushSignal, PopCall, PopLock, PopCancelled, PopMustWait, PopBlock,
       PopSpuriousWakeup, PopRelock, PopReturn, CancelCall, CancelLock, CancelSet,
       CancelSignal
  <2> QED
    BY <2>1, <2>2, <2>3
<1> QED
  BY <1>1, <1>2, AlwaysIInv, PTL DEF Spec, FifoSpec, Fifo!Spec
=============================================================================
