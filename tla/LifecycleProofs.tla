--------------------------- MODULE LifecycleProofs ---------------------------
(***************************************************************************)
(* Lifecycle for any number of senders, objects, descriptors and packets.  *)
(***************************************************************************)
EXTENDS Lifecycle, TLAPS

-----------------------------------------------------------------------------
(***************************************************************************)
(* The inductive invariant.  Where the starting and stopping thread stands *)
(* says what hXSocket points to and whether its threads exist; a thread    *)
(* only reaches the call of the callback while cbFunc is set; a client     *)
(* that has reported the end of its connection leaves its loop; and a      *)
(* thread that can still wait on its socket has it.                        *)
(***************************************************************************)
Started(o) == lpc[o] # "none" /\ dpc[o] # "none"
NotStarted(o) == lpc[o] = "none" /\ dpc[o] = "none"

MainInv ==
  /\ mpc # "idle" => hXSocket # 0
  /\ bConnectFlag => mpc = "idle" /\ hXSocket # 0
  /\ mpc = "null" <=> hXSocket \in deleted
  /\ mpc = "clients" => role[hXSocket] = "server"
  /\ mpc = "idle" /\ ~bConnectFlag /\ hXSocket # 0 => NotStarted(hXSocket)
  /\ mpc \in {"xstart", "closeagain"} => NotStarted(hXSocket)
  /\ mpc = "flag" => Started(hXSocket)
  /\ mpc \in {"joindeal", "delete", "null"} => lpc[hXSocket] = "done"
  /\ mpc \in {"delete", "null"} => dpc[hXSocket] = "done"

ThreadInv ==
  \A o \in Objects : /\ Started(o) \/ NotStarted(o)
                     /\ o > made => NotStarted(o)
                     /\ o \in deleted => Started(o)

(* Only ThreadListen adds packets, one at a time, and only its scan closes *)
(* a client.                                                               *)
PushInv ==
  \A o \in Objects : /\ lpc[o] = "push" => msgs[o] < MaxMsgs
                     /\ lpc[o] = "reset" => at[o] \in Slots

SenderInv ==
  \A s \in Senders : /\ spc[s] # "idle" /\ hXSocket = 0 => deleted # {}
                     /\ spc[s] = "xsend" => this[s] # 0

Stopping == {"clients", "close", "listen", "deal", "cancel", "joinlisten", "joindeal"}
CallbackInv ==
  \A o \in Objects :
    lpc[o] = "cbcall" \/ dpc[o] = "cbcall" => cbFunc \/ mpc \in Stopping

ReportInv ==
  \A o \in Objects :
    reported[o] # 0 => /\ reported[o] = 1 /\ role[o] = "client"
                       /\ \/ lpc[o] \in {"cbdone", "done"}
                          \/ lpc[o] = "test" /\ ~listenLooping[o]

(* Only a server that runs has clients; until it is stopped, they and its  *)
(* listening socket have descriptors of their own, but for the slot whose  *)
(* client the scan has just closed.                                        *)
EmptyTables ==
  \A o \in Objects :
    role[o] = "client" \/ NotStarted(o) => \A slot \in Slots : m_client[o][slot] = 0

OwnSlots(o) ==
  \A slot \in Slots :
    m_client[o][slot] # 0
      => /\ m_client[o][slot] # m_socketFd[o]
         /\ \A other \in Slots : m_client[o][other] = m_client[o][slot] => other = slot
         /\ Own(o, m_client[o][slot]) \/ (lpc[o] = "reset" /\ at[o] = slot)

InCallback(o) == lpc[o] \in {"cbtest", "cbcall", "cbdone"}
SocketInv ==
  \A o \in Objects :
    Unstopped(o)
      => /\ Listening(o) \/ lpc[o] = "reset" \/ (role[o] = "server" /\ InCallback(o))
              => HasSocket(o)
         /\ role[o] = "server" => lpc[o] # "error"
         /\ OwnSlots(o)

IInv == /\ TypeOK /\ MainInv /\ ThreadInv /\ ThreadsHaveTheirObject /\ OnlyFailedStartsLeak
        /\ PushInv /\ SenderInv /\ CallbackInv /\ ReportInv /\ EmptyTables /\ SocketInv
        /\ DiesOnlyThroughStop

-----------------------------------------------------------------------------
LEMMA InitIInv == Init => IInv
<1> SUFFICES ASSUME Init PROVE IInv
  OBVIOUS
<1> USE LifecycleAssumption DEF Init, Objects, Fds, Slots
<1>1. TypeOK
  <2>1. /\ mpc \in MainLabels /\ deleted \subseteq 1..made
        /\ crash \in {"no", "join", "send", "callback"}
    BY DEF MainLabels
  <2>5. bConnectFlag \in BOOLEAN /\ cbFunc \in BOOLEAN
    OBVIOUS
  <2>6. hXSocket \in 0..made /\ made \in 0..MaxObjects /\ file \in 0..MaxFd
    OBVIOUS
  <2>2. /\ spc \in [Senders -> {"idle", "attempt", "xsend"}] /\ this \in [Senders -> 0..made]
        /\ role \in [Objects -> {"server", "client"}] /\ m_socketFd \in [Objects -> 0..MaxFd]
    OBVIOUS
  <2>3. /\ listenLooping \in [Objects -> BOOLEAN] /\ dealLooping \in [Objects -> BOOLEAN]
        /\ isCancel \in [Objects -> BOOLEAN] /\ msgs \in [Objects -> 0..MaxMsgs]
    OBVIOUS
  <2>4. /\ lpc \in [Objects -> ListenLabels] /\ dpc \in [Objects -> DealLabels]
        /\ reported \in [Objects -> Nat] /\ owner \in [Fds -> 0..made \cup {APP}]
    BY DEF ListenLabels, DealLabels
  <2>7. /\ closing \in 1..FD_SETSIZE + 1 /\ at \in [Objects -> 1..FD_SETSIZE + 1]
        /\ m_client \in [Objects -> [Slots -> 0..MaxFd]]
    OBVIOUS
  <2> QED
    BY <2>1, <2>2, <2>3, <2>4, <2>5, <2>6, <2>7 DEF TypeOK
<1>2. MainInv /\ ThreadInv /\ ThreadsHaveTheirObject /\ OnlyFailedStartsLeak
  BY DEF MainInv, ThreadInv, Started, NotStarted, ThreadsHaveTheirObject, OnlyFailedStartsLeak
<1>3. /\ PushInv /\ SenderInv /\ CallbackInv /\ ReportInv /\ SocketInv /\ EmptyTables
      /\ DiesOnlyThroughStop
  BY DEF PushInv, SenderInv, CallbackInv, ReportInv, SocketInv, EmptyTables, Unstopped,
         DiesOnlyThroughStop
<1> QED
  BY <1>1, <1>2, <1>3 DEF IInv

-----------------------------------------------------------------------------
LEMMA TypeFacts ==
  ASSUME TypeOK
  PROVE  /\ hXSocket # 0 => hXSocket \in Objects
         /\ made \in Nat /\ hXSocket \in 0..made /\ deleted \subseteq 1..made
         /\ lpc \in [Objects -> ListenLabels] /\ dpc \in [Objects -> DealLabels]
BY LifecycleAssumption DEF TypeOK, Objects

LEMMA OneMoreTyped ==
  \A A, S, a : \A f \in [A -> S], v \in S : [f EXCEPT ![a] = v] \in [A -> S]
OBVIOUS

(* What the steps of a sender and of the two threads have in common. *)

LEMMA SendShape ==
  ASSUME TypeOK, NEW s \in Senders, Send(s)
  PROVE  /\ UNCHANGED <<globals, mpc, closing, objects, flags, queue, threads, files>>
         /\ spc' \in [Senders -> {"idle", "attempt", "xsend"}]
         /\ this' \in [Senders -> 0..made]
         /\ crash = "no" /\ crash' \in {"no", "send"}
<1> USE DEF TypeOK, SGoto, Running, objects, workers, app, senders, flags, queue, threads, files,
        tables
<1>1. CASE SendTest(s)
  BY <1>1 DEF SendTest
<1>2. CASE SendAttempt(s)
  BY <1>2 DEF SendAttempt, Valid, globals
<1>3. CASE SendReturn(s)
  <2>1. this' \in [Senders -> 0..made]
    BY <1>3, LifecycleAssumption DEF SendReturn
  <2> QED
    BY <1>3, <2>1 DEF SendReturn
<1>4. CASE SendCrash(s)
  BY <1>4 DEF SendCrash
<1> QED
  BY <1>1, <1>2, <1>3, <1>4 DEF Send

ListenStep(o) == ThreadListen(o) \/ Event(o) \/ Accept(o) \/ SelectWakes(o)

LEMMA ListenShape ==
  ASSUME TypeOK, PushInv, ThreadInv, NEW o \in Objects, ListenStep(o)
  PROVE  /\ UNCHANGED <<app, dealLooping, dpc, file, crash>> /\ crash = "no"
         /\ lpc[o] \notin {"none", "done"}
         /\ \E to \in ListenLabels \ {"none", "start"} : lpc' = [lpc EXCEPT ![o] = to]
         /\ listenLooping' \in [Objects -> BOOLEAN] /\ isCancel' \in [Objects -> BOOLEAN]
         /\ msgs' \in [Objects -> 0..MaxMsgs] /\ reported' \in [Objects -> Nat]
         /\ owner' \in [Fds -> 0..made \cup {APP}]
         /\ m_client' \in [Objects -> [Slots -> 0..MaxFd]]
         /\ at' \in [Objects -> 1..FD_SETSIZE + 1]
<1> USE DEF TypeOK, LGoto, Running, ListenLabels, flags, queue, files, tables
<1>1. CASE ListenEnter(o)
  BY <1>1 DEF ListenEnter
<1>2. CASE ListenTest(o)
  BY <1>2 DEF ListenTest
<1>3. CASE ListenSelect(o)
  BY <1>3 DEF ListenSelect
<1>4. CASE ListenPush(o)
  <2>1. msgs' \in [Objects -> 0..MaxMsgs] /\ isCancel' \in [Objects -> BOOLEAN]
    BY <1>4, LifecycleAssumption DEF ListenPush, PushInv
  <2> QED
    BY <1>4, <2>1 DEF ListenPush
<1>5. CASE ListenError(o)
  <2>1. owner' \in [Fds -> 0..made \cup {APP}]
    <3>1. PICK closed : Close(closed)
      BY <1>5 DEF ListenError
    <3> QED
      BY <3>1, LifecycleAssumption DEF Close
  <2> QED
    BY <1>5, <2>1 DEF ListenError
<1>6. CASE ListenCbTest(o)
  BY <1>6 DEF ListenCbTest
<1>7. CASE ListenCbCall(o)
  <2>1. reported' \in [Objects -> Nat]
    BY <1>7 DEF ListenCbCall
  <2> QED
    BY <1>7, <2>1 DEF ListenCbCall
<1>8. CASE ListenCbDone(o)
  BY <1>8 DEF ListenCbDone
<1>9. CASE Event(o)
  BY <1>9 DEF Event, Outcomes
<1>10. CASE SelectWakes(o)
  BY <1>10 DEF SelectWakes
<1>11. CASE Accept(o)
  <2>1. PICK fd \in Fds, row \in [Slots -> 0..MaxFd] :
          /\ owner' = [owner EXCEPT ![fd] = o]
          /\ m_client' = [m_client EXCEPT ![o] = row]
    <3> DEFINE free == {slot \in Slots : m_client[o][slot] = 0}
               first(slot) == slot \in free /\ \A other \in free : slot <= other
               row(fd) == [slot \in Slots |-> IF first(slot) THEN fd ELSE m_client[o][slot]]
    <3>1. PICK fd \in Fds : /\ owner' = [owner EXCEPT ![fd] = o]
                            /\ m_client' = [m_client EXCEPT ![o] = row(fd)]
      BY <1>11 DEF Accept
    <3>2. row(fd) \in [Slots -> 0..MaxFd]
      <4>1. fd \in 0..MaxFd /\ \A slot \in Slots : m_client[o][slot] \in 0..MaxFd
        BY LifecycleAssumption DEF Fds
      <4> QED
        BY <4>1
    <3> HIDE DEF row
    <3> QED
      BY <3>1, <3>2
  <2>3. m_client' \in [Objects -> [Slots -> 0..MaxFd]]
    BY <2>1
  <2>4. o \in 0..made
    <3>1. ~(o > made)
      BY <1>11 DEF Accept, ThreadInv, NotStarted
    <3> QED
      BY <3>1, LifecycleAssumption DEF Objects
  <2>5. owner' \in [Fds -> 0..made \cup {APP}]
    BY <2>1, <2>4
  <2> QED
    BY <1>11, <2>3, <2>5 DEF Accept
<1>13. CASE ScanData(o)
  <2>1. at' \in [Objects -> 1..FD_SETSIZE + 1]
    BY <1>13, LifecycleAssumption DEF ScanData, Slots
  <2> QED
    BY <1>13, <2>1 DEF ScanData
<1>14. CASE ScanClose(o)
  <2>1. at' \in [Objects -> 1..FD_SETSIZE + 1] /\ owner' \in [Fds -> 0..made \cup {APP}]
    BY <1>14, LifecycleAssumption DEF ScanClose, Slots, Close
  <2> QED
    BY <1>14, <2>1 DEF ScanClose
<1>15. CASE ScanReset(o)
  <2>1. at[o] \in Slots
    BY <1>15 DEF ScanReset, PushInv
  <2>2. at' \in [Objects -> 1..FD_SETSIZE + 1]
    BY <1>15, <2>1, LifecycleAssumption, SMTT(30) DEF ScanReset, Slots
  <2>3. m_client' \in [Objects -> [Slots -> 0..MaxFd]]
    BY <1>15, <2>1, LifecycleAssumption DEF ScanReset
  <2> QED
    BY <1>15, <2>2, <2>3 DEF ScanReset
<1>16. CASE ScanEnd(o)
  <2>1. at' \in [Objects -> 1..FD_SETSIZE + 1]
    BY <1>16, LifecycleAssumption DEF ScanEnd
  <2> QED
    BY <1>16, <2>1 DEF ScanEnd
<1> QED
  BY <1>1, <1>2, <1>3, <1>4, <1>5, <1>6, <1>7, <1>8, <1>9, <1>10, <1>11, <1>13, <1>14, <1>15,
     <1>16 DEF ListenStep, ThreadListen

LEMMA DealShape ==
  ASSUME TypeOK, NEW o \in Objects, ThreadDeal(o)
  PROVE  /\ UNCHANGED <<app, listenLooping, isCancel, lpc, reported, files, crash>> /\ crash = "no"
         /\ dpc[o] \notin {"none", "done"}
         /\ \E to \in DealLabels \ {"none", "start"} : dpc' = [dpc EXCEPT ![o] = to]
         /\ dealLooping' \in [Objects -> BOOLEAN] /\ msgs' \in [Objects -> 0..MaxMsgs]
         /\ DealPop(o) \/ UNCHANGED msgs
<1> USE DEF TypeOK, DGoto, Running, DealLabels, flags, queue, files, tables
<1>1. CASE DealEnter(o)
  BY <1>1 DEF DealEnter
<1>2. CASE DealTest(o)
  BY <1>2 DEF DealTest
<1>3. CASE DealPop(o)
  <2>1. msgs' \in [Objects -> 0..MaxMsgs]
    BY <1>3, LifecycleAssumption DEF DealPop
  <2> QED
    BY <1>3, <2>1 DEF DealPop
<1>4. CASE DealCbTest(o)
  BY <1>4 DEF DealCbTest
<1>5. CASE DealCbCall(o)
  BY <1>5 DEF DealCbCall
<1> QED
  BY <1>1, <1>2, <1>3, <1>4, <1>5 DEF ThreadDeal

-----------------------------------------------------------------------------
(* The parts, one by one. *)

(* A step keeps the types. *)
LEMMA TypeStep == IInv /\ [Next]_vars => TypeOK'
<1> SUFFICES ASSUME IInv, [Next]_vars PROVE TypeOK'
  OBVIOUS
<1> USE DEF Goto, Running, globals, flags, queue, files, tables, objects, senders,
        threads, app, workers, TypeOK
<1>0. TypeOK /\ MainInv /\ PushInv /\ ThreadInv
  BY DEF IInv
<1>1. CASE OpenFile
  <2>1. owner' \in [Fds -> 0..made \cup {APP}] /\ file' \in 0..MaxFd
    BY <1>0, <1>1, LifecycleAssumption DEF OpenFile, Lowest, FreeFds, Fds
  <2> QED
    BY <1>0, <2>1, <1>1 DEF OpenFile
<1>2. ASSUME NEW r \in {"server", "client"}, StartNew(r) PROVE TypeOK'
  <2>1. /\ made' \in 0..MaxObjects /\ made < made' /\ hXSocket' \in 0..made'
        /\ role' \in [Objects -> {"server", "client"}] /\ mpc' \in MainLabels
    BY <1>0, <1>2, LifecycleAssumption DEF StartNew, MainLabels, Objects
  <2>2. /\ this \in [Senders -> 0..made'] /\ deleted \subseteq 1..made'
        /\ owner \in [Fds -> 0..made' \cup {APP}]
    <3>1. 0..made \subseteq 0..made' /\ 1..made \subseteq 1..made'
      BY <1>0, <2>1
    <3> QED
      BY <1>0, <3>1
  <2> QED
    BY <1>0, <2>1, <2>2, <1>2 DEF StartNew
<1>3. CASE XStart
  <2>1. PICK fd \in Fds : /\ m_socketFd' = [m_socketFd EXCEPT ![hXSocket] = fd]
                           /\ owner' = [owner EXCEPT ![fd] = hXSocket]
    BY <1>3 DEF XStart
  <2>2. m_socketFd' \in [Objects -> 0..MaxFd] /\ owner' \in [Fds -> 0..made \cup {APP}]
    <3>1. fd \in 0..MaxFd /\ hXSocket \in 0..made \cup {APP}
      BY <1>0, LifecycleAssumption DEF Fds
    <3>2. m_socketFd' \in [Objects -> 0..MaxFd]
      BY <1>0, <2>1, <3>1, OneMoreTyped
    <3>3. owner' \in [Fds -> 0..made \cup {APP}]
      BY <1>0, <2>1, <3>1, OneMoreTyped
    <3> QED
      BY <3>2, <3>3
  <2>3. /\ lpc' \in [Objects -> ListenLabels] /\ dpc' \in [Objects -> DealLabels]
        /\ mpc' \in MainLabels
    BY <1>0, <1>3 DEF XStart, ListenLabels, DealLabels, MainLabels
  <2> QED
    BY <1>0, <2>2, <2>3, <1>3 DEF XStart
<1>4. CASE XStartFails
  <2>1. PICK fd \in Fds : /\ m_socketFd' = [m_socketFd EXCEPT ![hXSocket] = fd]
                           /\ owner' \in {[owner EXCEPT ![fd] = hXSocket], owner}
    BY <1>4 DEF XStartFails
  <2>2. m_socketFd' \in [Objects -> 0..MaxFd] /\ owner' \in [Fds -> 0..made \cup {APP}]
    <3>1. fd \in 0..MaxFd /\ hXSocket \in 0..made \cup {APP}
      BY <1>0, LifecycleAssumption DEF Fds
    <3>2. m_socketFd' \in [Objects -> 0..MaxFd]
      BY <1>0, <2>1, <3>1, OneMoreTyped
    <3>3. owner' \in [Fds -> 0..made \cup {APP}]
      BY <1>0, <2>1, <3>1, OneMoreTyped
    <3> QED
      BY <3>2, <3>3
  <2>3. mpc' \in MainLabels
    BY <1>4 DEF XStartFails, MainLabels
  <2> QED
    BY <1>0, <2>2, <2>3, <1>4 DEF XStartFails
<1>5. CASE XStartCloseAgain
  <2>1. owner' \in [Fds -> 0..made \cup {APP}] /\ mpc' \in MainLabels
    BY <1>0, <1>5, LifecycleAssumption DEF XStartCloseAgain, MainLabels, Close
  <2> QED
    BY <1>0, <2>1, <1>5 DEF XStartCloseAgain
<1>6. CASE XStartNoSocket
  BY <1>0, <1>6 DEF XStartNoSocket, MainLabels
<1>7. CASE StartFlag
  BY <1>0, <1>7 DEF StartFlag, MainLabels
<1>8. CASE StopFlag
  BY <1>0, <1>8 DEF StopFlag, MainLabels
<1>9. CASE StopCallback
  BY <1>0, <1>9 DEF StopCallback, MainLabels
<1>10. CASE XStopClose
  <2>1. owner' \in [Fds -> 0..made \cup {APP}] /\ mpc' \in MainLabels
    BY <1>0, <1>10, LifecycleAssumption DEF XStopCloseClient, XStopClientsClosed,
         XStopClose, MainLabels, Close
  <2> QED
    BY <1>0, <2>1, <1>10 DEF XStopClose
<1>11. CASE XStopListen
  <2>1. listenLooping' \in [Objects -> BOOLEAN] /\ mpc' \in MainLabels
    BY <1>0, <1>11, LifecycleAssumption DEF XStopListen, MainLabels
  <2> QED
    BY <1>0, <2>1, <1>11 DEF XStopListen
<1>12. CASE XStopDeal
  <2>1. dealLooping' \in [Objects -> BOOLEAN] /\ mpc' \in MainLabels
    BY <1>0, <1>12, LifecycleAssumption DEF XStopDeal, MainLabels
  <2> QED
    BY <1>0, <2>1, <1>12 DEF XStopDeal
<1>13. CASE XStopCancel
  <2>1. isCancel' \in [Objects -> BOOLEAN] /\ mpc' \in MainLabels
    BY <1>0, <1>13, LifecycleAssumption DEF XStopCancel, MainLabels
  <2> QED
    BY <1>0, <2>1, <1>13 DEF XStopCancel
<1>14. CASE XStopJoinListen
  BY <1>0, <1>14 DEF XStopJoinListen, MainLabels
<1>15. CASE XStopJoinDeal
  BY <1>0, <1>15 DEF XStopJoinDeal, MainLabels
<1>16. CASE StopDelete
  <2>1. mpc' \in MainLabels /\ deleted' \subseteq 1..made
    BY <1>0, <1>16, LifecycleAssumption DEF MainInv, StopDelete, MainLabels
  <2>2. m_socketFd' \in [Objects -> 0..MaxFd] /\ msgs' \in [Objects -> 0..MaxMsgs]
    BY <1>0, <1>16, OneMoreTyped, LifecycleAssumption DEF StopDelete, Forget
  <2>4. m_client' \in [Objects -> [Slots -> 0..MaxFd]]
    <3>1. [slot \in Slots |-> 0] \in [Slots -> 0..MaxFd]
      BY LifecycleAssumption
    <3> QED
      BY <1>0, <1>16, <3>1 DEF StopDelete, Forget
  <2>3. /\ listenLooping' \in [Objects -> BOOLEAN] /\ dealLooping' \in [Objects -> BOOLEAN]
        /\ isCancel' \in [Objects -> BOOLEAN]
    BY <1>0, <1>16 DEF StopDelete, Forget
  <2> QED
    BY <1>0, <2>1, <2>2, <2>3, <2>4, <1>16 DEF StopDelete
<1>17. CASE StopNull
  <2>1. hXSocket' \in 0..made /\ mpc' \in MainLabels
    BY <1>0, <1>17, LifecycleAssumption DEF StopNull, MainLabels
  <2> QED
    BY <1>0, <2>1, <1>17 DEF StopNull
<1>18. CASE SetCallback \/ XStopJoinNothing
  BY <1>0, <1>18 DEF SetCallback, XStopJoinNothing
<1>24. CASE XStopCloseClient
  <2>1. owner' \in [Fds -> 0..made \cup {APP}] /\ closing' \in 1..FD_SETSIZE + 1
    BY <1>0, <1>24, LifecycleAssumption DEF XStopCloseClient, Close, Slots
  <2> QED
    BY <1>0, <2>1, <1>24 DEF XStopCloseClient
<1>25. CASE XStopClientsClosed
  BY <1>0, <1>25, LifecycleAssumption DEF XStopClientsClosed, MainLabels
<1>19. ASSUME NEW s \in Senders, Send(s) PROVE TypeOK'
  <2>1. /\ UNCHANGED <<globals, mpc, closing, objects, flags, queue, threads, files>>
        /\ spc' \in [Senders -> {"idle", "attempt", "xsend"}]
        /\ this' \in [Senders -> 0..made] /\ crash' \in {"no", "send"}
    BY <1>0, <1>19, SendShape
  <2> QED
    BY <1>0, <2>1
<1>20. ASSUME NEW o \in Objects, ListenStep(o) PROVE TypeOK'
  <2>1. /\ UNCHANGED <<app, dealLooping, dpc, file, crash>>
        /\ listenLooping' \in [Objects -> BOOLEAN] /\ isCancel' \in [Objects -> BOOLEAN]
        /\ msgs' \in [Objects -> 0..MaxMsgs] /\ reported' \in [Objects -> Nat]
        /\ owner' \in [Fds -> 0..made \cup {APP}]
        /\ m_client' \in [Objects -> [Slots -> 0..MaxFd]] /\ at' \in [Objects -> 1..FD_SETSIZE + 1]
    BY <1>0, <1>20, ListenShape
  <2>2. lpc' \in [Objects -> ListenLabels]
    BY <1>0, <1>20, ListenShape
  <2>3. UNCHANGED <<bConnectFlag, hXSocket, cbFunc, mpc, closing, spc, this, made, deleted,
                    role, m_socketFd, dealLooping, dpc, file, crash>>
    BY <2>1
  <2> QED
    BY <1>0, <2>1, <2>2, <2>3
<1>21. ASSUME NEW o \in Objects, ThreadDeal(o) PROVE TypeOK'
  <2>1. /\ UNCHANGED <<app, listenLooping, isCancel, lpc, reported, files, crash>>
        /\ dealLooping' \in [Objects -> BOOLEAN] /\ msgs' \in [Objects -> 0..MaxMsgs]
    BY <1>0, <1>21, DealShape
  <2>2. dpc' \in [Objects -> DealLabels]
    BY <1>0, <1>21, DealShape
  <2>3. UNCHANGED <<bConnectFlag, hXSocket, cbFunc, mpc, closing, spc, this, made, deleted,
                    role, m_socketFd, m_client, at, listenLooping, isCancel, lpc, reported,
                    owner, file, crash>>
    BY <2>1
  <2> QED
    BY <1>0, <2>1, <2>2, <2>3
<1>22. ASSUME NEW o \in Objects, CallbackCrash(o) PROVE TypeOK'
  BY <1>0, <1>22 DEF CallbackCrash
<1>23. CASE UNCHANGED vars
  BY <1>0, <1>23 DEF vars
<1> QED
  BY <1>1, <1>2, <1>3, <1>4, <1>5, <1>6, <1>7, <1>8, <1>9, <1>10, <1>11,
     <1>12, <1>13, <1>14, <1>15, <1>16, <1>17, <1>18, <1>19, <1>20, <1>21,
     <1>22, <1>23, <1>24, <1>25
     DEF Next, StartSteps, StopSteps, ListenStep

(* A step keeps what the position of the starting and stopping thread says. *)
LEMMA MainStep == IInv /\ [Next]_vars => MainInv'
<1> SUFFICES ASSUME IInv, [Next]_vars PROVE MainInv'
  OBVIOUS
<1> USE DEF Goto, Running, globals, flags, queue, files, tables, objects, senders,
        threads, app, workers, MainInv, ThreadInv, Started, NotStarted
<1>0. TypeOK /\ MainInv /\ ThreadInv /\ PushInv
  BY DEF IInv
<1> USE <1>0, TypeFacts
<1>1. ASSUME NEW r \in {"server", "client"}, StartNew(r) PROVE MainInv'
  <2>1. /\ mpc = "idle" /\ mpc' = "xstart" /\ ~bConnectFlag /\ bConnectFlag' = bConnectFlag
        /\ made' = made + 1 /\ hXSocket' = made + 1 /\ UNCHANGED <<deleted, lpc, dpc>>
    BY <1>1 DEF StartNew
  <2>2. /\ made + 1 \in Objects /\ made + 1 \notin deleted /\ made + 1 # 0
        /\ NotStarted(made + 1)
    <3>1. made + 1 \in Objects
      BY <2>1, <1>1, LifecycleAssumption DEF StartNew, Objects
    <3> QED
      BY <3>1
  <2>3. \A o \in Objects : o > made + 1 => o > made
    BY DEF Objects
  <2> QED
    BY <2>1, <2>2, <2>3
<1>2. CASE XStart
  BY <1>0, <1>2 DEF XStart
<1>3. CASE XStartFails
  BY <1>0, <1>3 DEF XStartFails
<1>4. CASE XStartNoSocket
  BY <1>0, <1>4 DEF XStartNoSocket
<1>5. CASE XStartCloseAgain
  BY <1>0, <1>5 DEF XStartCloseAgain
<1>6. CASE StartFlag
  BY <1>0, <1>6 DEF StartFlag
<1>7. CASE StopFlag
  BY <1>0, <1>7 DEF StopFlag
<1>8. CASE StopCallback
  BY <1>0, <1>8 DEF StopCallback
<1>9. CASE XStopCloseClient \/ XStopClientsClosed \/ XStopClose
  BY <1>0, <1>9 DEF XStopCloseClient, XStopClientsClosed, XStopClose
<1>10. CASE XStopListen
  BY <1>0, <1>10 DEF XStopListen
<1>11. CASE XStopDeal
  BY <1>0, <1>11 DEF XStopDeal
<1>12. CASE XStopCancel
  BY <1>0, <1>12 DEF XStopCancel
<1>13. CASE XStopJoinListen
  BY <1>0, <1>13 DEF XStopJoinListen
<1>14. CASE XStopJoinDeal
  BY <1>0, <1>14 DEF XStopJoinDeal
<1>15. CASE StopDelete
  BY <1>0, <1>15 DEF StopDelete
<1>16. CASE StopNull
  BY <1>0, <1>16 DEF StopNull
<1>17. CASE SetCallback
  BY <1>0, <1>17 DEF SetCallback
<1>18. CASE OpenFile
  BY <1>0, <1>18 DEF OpenFile
<1>19. CASE XStopJoinNothing
  BY <1>0, <1>19 DEF XStopJoinNothing
<1>20. ASSUME NEW s \in Senders, Send(s) PROVE MainInv'
  <2>1. UNCHANGED <<mpc, hXSocket, bConnectFlag, deleted, role, lpc, dpc>>
    BY <1>0, <1>20, SendShape
  <2> QED
    BY <1>0, <2>1
<1>21. ASSUME NEW o \in Objects, ListenStep(o) PROVE MainInv'
  <2>1. UNCHANGED <<mpc, hXSocket, bConnectFlag, deleted, role, dpc>> /\ lpc[o] \notin {"none", "done"}
    BY <1>0, <1>21, ListenShape
  <2>2. PICK to \in ListenLabels \ {"none", "start"} : lpc' = [lpc EXCEPT ![o] = to]
    BY <1>0, <1>21, ListenShape
  <2> QED
    BY <1>0, <2>1, <2>2
<1>22. ASSUME NEW o \in Objects, ThreadDeal(o) PROVE MainInv'
  <2>1. UNCHANGED <<mpc, hXSocket, bConnectFlag, deleted, role, lpc>> /\ dpc[o] \notin {"none", "done"}
    BY <1>0, <1>22, DealShape
  <2>2. PICK to \in DealLabels \ {"none", "start"} : dpc' = [dpc EXCEPT ![o] = to]
    BY <1>0, <1>22, DealShape
  <2> QED
    BY <1>0, <2>1, <2>2
<1>23. ASSUME NEW o \in Objects, CallbackCrash(o) PROVE MainInv'
  BY <1>0, <1>23 DEF CallbackCrash
<1>24. CASE UNCHANGED vars
  BY <1>0, <1>24 DEF vars
<1> QED
  BY <1>1, <1>2, <1>3, <1>4, <1>5, <1>6, <1>7, <1>8, <1>9, <1>10, <1>11,
     <1>12, <1>13, <1>14, <1>15, <1>16, <1>17, <1>18, <1>19, <1>20, <1>21,
     <1>22, <1>23, <1>24
     DEF Next, StartSteps, StopSteps, ListenStep

(* Threads are started together, for an object that was made. *)
LEMMA ThreadStep == IInv /\ [Next]_vars => ThreadInv'
<1> SUFFICES ASSUME IInv, [Next]_vars PROVE ThreadInv'
  OBVIOUS
<1> USE DEF Goto, Running, globals, flags, queue, files, tables, objects, senders,
        threads, app, workers, MainInv, ThreadInv, Started, NotStarted
<1>0. TypeOK /\ MainInv /\ ThreadInv /\ PushInv
  BY DEF IInv
<1> USE <1>0, TypeFacts
<1>1. ASSUME NEW r \in {"server", "client"}, StartNew(r) PROVE ThreadInv'
  <2>1. /\ mpc = "idle" /\ mpc' = "xstart" /\ ~bConnectFlag /\ bConnectFlag' = bConnectFlag
        /\ made' = made + 1 /\ hXSocket' = made + 1 /\ UNCHANGED <<deleted, lpc, dpc>>
    BY <1>1 DEF StartNew
  <2>2. /\ made + 1 \in Objects /\ made + 1 \notin deleted /\ made + 1 # 0
        /\ NotStarted(made + 1)
    <3>1. made + 1 \in Objects
      BY <2>1, <1>1, LifecycleAssumption DEF StartNew, Objects
    <3> QED
      BY <3>1
  <2>3. \A o \in Objects : o > made + 1 => o > made
    BY DEF Objects
  <2> QED
    BY <2>1, <2>2, <2>3
<1>2. CASE XStart
  BY <1>0, <1>2 DEF XStart
<1>3. CASE StopDelete
  BY <1>0, <1>3 DEF StopDelete
<1>4. CASE SetCallback \/ OpenFile \/ StopFlag \/ XStartNoSocket \/ XStartFails \/
          XStartCloseAgain \/ StartFlag \/ StopCallback \/ XStopCloseClient \/ XStopClientsClosed \/
          XStopClose \/
          XStopListen \/ XStopDeal \/ XStopCancel \/ XStopJoinListen \/
          XStopJoinNothing \/ XStopJoinDeal \/ StopNull
  BY <1>0, <1>4 DEF SetCallback, OpenFile, StopFlag, XStartNoSocket,
         XStartFails, XStartCloseAgain, StartFlag, StopCallback, XStopCloseClient, XStopClientsClosed,
         XStopClose,
         XStopListen, XStopDeal, XStopCancel, XStopJoinListen,
         XStopJoinNothing, XStopJoinDeal, StopNull
<1>5. ASSUME NEW s \in Senders, Send(s) PROVE ThreadInv'
  <2>1. UNCHANGED <<made, deleted, lpc, dpc>>
    BY <1>0, <1>5, SendShape
  <2> QED
    BY <1>0, <2>1
<1>6. ASSUME NEW o \in Objects, ListenStep(o) PROVE ThreadInv'
  <2>1. UNCHANGED <<made, deleted, dpc>> /\ lpc[o] \notin {"none", "done"}
    BY <1>0, <1>6, ListenShape
  <2>2. PICK to \in ListenLabels \ {"none", "start"} : lpc' = [lpc EXCEPT ![o] = to]
    BY <1>0, <1>6, ListenShape
  <2> QED
    BY <1>0, <2>1, <2>2
<1>7. ASSUME NEW o \in Objects, ThreadDeal(o) PROVE ThreadInv'
  <2>1. UNCHANGED <<made, deleted, lpc>> /\ dpc[o] \notin {"none", "done"}
    BY <1>0, <1>7, DealShape
  <2>2. PICK to \in DealLabels \ {"none", "start"} : dpc' = [dpc EXCEPT ![o] = to]
    BY <1>0, <1>7, DealShape
  <2> QED
    BY <1>0, <2>1, <2>2
<1>8. ASSUME NEW o \in Objects, CallbackCrash(o) PROVE ThreadInv'
  BY <1>0, <1>8 DEF CallbackCrash
<1>9. CASE UNCHANGED vars
  BY <1>0, <1>9 DEF vars
<1> QED
  BY <1>1, <1>2, <1>3, <1>4, <1>5, <1>6, <1>7, <1>8, <1>9
     DEF Next, StartSteps, StopSteps, ListenStep

(* Threads keep their object, and objects their owner. *)
LEMMA ObjectStep == IInv /\ [Next]_vars => (ThreadsHaveTheirObject /\ OnlyFailedStartsLeak)'
<1> SUFFICES ASSUME IInv, [Next]_vars PROVE (ThreadsHaveTheirObject /\ OnlyFailedStartsLeak)'
  OBVIOUS
<1> USE DEF Goto, Running, globals, flags, queue, files, tables, objects, senders,
        threads, app, workers, MainInv, ThreadInv, ThreadsHaveTheirObject,
        OnlyFailedStartsLeak, Started, NotStarted
<1>0. TypeOK /\ MainInv /\ ThreadInv /\ PushInv /\ ThreadsHaveTheirObject /\ OnlyFailedStartsLeak
  BY DEF IInv
<1> USE <1>0, TypeFacts
<1>1. ASSUME NEW r \in {"server", "client"}, StartNew(r) PROVE (ThreadsHaveTheirObject /\ OnlyFailedStartsLeak)'
  <2>1. /\ mpc = "idle" /\ mpc' = "xstart" /\ ~bConnectFlag /\ bConnectFlag' = bConnectFlag
        /\ made' = made + 1 /\ hXSocket' = made + 1 /\ UNCHANGED <<deleted, lpc, dpc>>
    BY <1>1 DEF StartNew
  <2>2. /\ made + 1 \in Objects /\ made + 1 \notin deleted /\ made + 1 # 0
        /\ NotStarted(made + 1)
    <3>1. made + 1 \in Objects
      BY <2>1, <1>1, LifecycleAssumption DEF StartNew, Objects
    <3> QED
      BY <3>1
  <2>3. ASSUME NEW o \in Objects PROVE lpc[o] \in {"none", "done"} /\ dpc[o] \in {"none", "done"}
    <3>1. o # 0
      BY DEF Objects
    <3> QED
      BY <2>1, <3>1
  <2>4. ASSUME NEW o \in 1..made PROVE o \in deleted \/ (lpc[o] = "none" /\ dpc[o] = "none")
    BY <2>1, <2>2
  <2>5. 1..made + 1 = (1..made) \cup {made + 1}
    OBVIOUS
  <2> QED
    BY <2>1, <2>2, <2>3, <2>4, <2>5
<1>2. CASE XStart
  BY <1>0, <1>2 DEF XStart
<1>3. CASE StopDelete
  BY <1>0, <1>3 DEF StopDelete
<1>4. CASE StopNull
  BY <1>0, <1>4 DEF StopNull
<1>5. CASE SetCallback \/ OpenFile \/ StopFlag \/ XStartNoSocket \/ XStartFails \/
          XStartCloseAgain \/ StartFlag \/ StopCallback \/ XStopCloseClient \/ XStopClientsClosed \/
          XStopClose \/
          XStopListen \/ XStopDeal \/ XStopCancel \/ XStopJoinListen \/
          XStopJoinNothing \/ XStopJoinDeal
  BY <1>0, <1>5 DEF SetCallback, OpenFile, StopFlag, XStartNoSocket,
         XStartFails, XStartCloseAgain, StartFlag, StopCallback, XStopCloseClient, XStopClientsClosed,
         XStopClose,
         XStopListen, XStopDeal, XStopCancel, XStopJoinListen,
         XStopJoinNothing, XStopJoinDeal
<1>6. ASSUME NEW s \in Senders, Send(s) PROVE (ThreadsHaveTheirObject /\ OnlyFailedStartsLeak)'
  <2>1. UNCHANGED <<hXSocket, made, deleted, lpc, dpc>>
    BY <1>0, <1>6, SendShape
  <2> QED
    BY <1>0, <2>1
<1>7. ASSUME NEW o \in Objects, ListenStep(o) PROVE (ThreadsHaveTheirObject /\ OnlyFailedStartsLeak)'
  <2>1. UNCHANGED <<hXSocket, made, deleted, dpc>> /\ lpc[o] \notin {"none", "done"}
    BY <1>0, <1>7, ListenShape
  <2>2. PICK to \in ListenLabels \ {"none", "start"} : lpc' = [lpc EXCEPT ![o] = to]
    BY <1>0, <1>7, ListenShape
  <2> QED
    BY <1>0, <2>1, <2>2
<1>8. ASSUME NEW o \in Objects, ThreadDeal(o) PROVE (ThreadsHaveTheirObject /\ OnlyFailedStartsLeak)'
  <2>1. UNCHANGED <<hXSocket, made, deleted, lpc>> /\ dpc[o] \notin {"none", "done"}
    BY <1>0, <1>8, DealShape
  <2>2. PICK to \in DealLabels \ {"none", "start"} : dpc' = [dpc EXCEPT ![o] = to]
    BY <1>0, <1>8, DealShape
  <2> QED
    BY <1>0, <2>1, <2>2
<1>9. ASSUME NEW o \in Objects, CallbackCrash(o) PROVE (ThreadsHaveTheirObject /\ OnlyFailedStartsLeak)'
  BY <1>0, <1>9 DEF CallbackCrash
<1>10. CASE UNCHANGED vars
  BY <1>0, <1>10 DEF vars
<1> QED
  BY <1>1, <1>2, <1>3, <1>4, <1>5, <1>6, <1>7, <1>8, <1>9, <1>10
     DEF Next, StartSteps, StopSteps, ListenStep

(* A sender that has seen an object only misses it after a delete. *)
LEMMA SenderStep == IInv /\ [Next]_vars => SenderInv'
<1> SUFFICES ASSUME IInv, [Next]_vars PROVE SenderInv'
  OBVIOUS
<1> USE DEF Goto, Running, globals, flags, queue, files, tables, objects, senders,
        threads, app, workers, MainInv, SenderInv
<1>0. TypeOK /\ MainInv /\ ThreadInv /\ SenderInv /\ PushInv
  BY DEF IInv
<1> USE <1>0, TypeFacts
<1>1. ASSUME NEW r \in {"server", "client"}, StartNew(r) PROVE SenderInv'
  BY <1>0, <1>1 DEF StartNew
<1>2. CASE StopDelete
  BY <1>0, <1>2 DEF StopDelete
<1>3. CASE StopNull
  BY <1>0, <1>3 DEF StopNull
<1>4. CASE SetCallback \/ OpenFile \/ StopFlag \/ XStart \/ XStartNoSocket \/
          XStartFails \/ XStartCloseAgain \/ StartFlag \/ StopCallback \/
          XStopCloseClient \/ XStopClientsClosed \/
          XStopClose \/ XStopListen \/ XStopDeal \/ XStopCancel \/
          XStopJoinListen \/ XStopJoinNothing \/ XStopJoinDeal
  BY <1>0, <1>4 DEF SetCallback, OpenFile, StopFlag, XStart, XStartNoSocket,
         XStartFails, XStartCloseAgain, StartFlag, StopCallback, XStopCloseClient, XStopClientsClosed,
         XStopClose,
         XStopListen, XStopDeal, XStopCancel, XStopJoinListen,
         XStopJoinNothing, XStopJoinDeal
<1>5. ASSUME NEW s \in Senders, Send(s) PROVE SenderInv'
  <2>1. UNCHANGED <<hXSocket, deleted>>
    BY <1>0, <1>5, SendShape
  <2>2. ASSUME NEW t \in Senders
        PROVE  /\ spc'[t] # "idle" => spc[t] # "idle" \/ hXSocket # 0
               /\ spc'[t] = "xsend" => this'[t] # 0
    BY <1>0, <1>5 DEF Send, SendTest, SendAttempt, SendReturn, SendCrash, SGoto, Valid, TypeOK
  <2> QED
    BY <1>0, <2>1, <2>2
<1>6. ASSUME NEW o \in Objects, ListenStep(o) PROVE SenderInv'
  <2>1. UNCHANGED <<hXSocket, deleted, spc, this>> /\ lpc[o] \notin {"none", "done"}
    BY <1>0, <1>6, ListenShape
  <2>2. PICK to \in ListenLabels \ {"none", "start"} : lpc' = [lpc EXCEPT ![o] = to]
    BY <1>0, <1>6, ListenShape
  <2> QED
    BY <1>0, <2>1, <2>2
<1>7. ASSUME NEW o \in Objects, ThreadDeal(o) PROVE SenderInv'
  <2>1. UNCHANGED <<hXSocket, deleted, spc, this>> /\ dpc[o] \notin {"none", "done"}
    BY <1>0, <1>7, DealShape
  <2>2. PICK to \in DealLabels \ {"none", "start"} : dpc' = [dpc EXCEPT ![o] = to]
    BY <1>0, <1>7, DealShape
  <2> QED
    BY <1>0, <2>1, <2>2
<1>8. ASSUME NEW o \in Objects, CallbackCrash(o) PROVE SenderInv'
  BY <1>0, <1>8 DEF CallbackCrash
<1>9. CASE UNCHANGED vars
  BY <1>0, <1>9 DEF vars
<1> QED
  BY <1>1, <1>2, <1>3, <1>4, <1>5, <1>6, <1>7, <1>8, <1>9
     DEF Next, StartSteps, StopSteps, ListenStep

(* A thread reaches the call of the callback while cbFunc is set. *)
LEMMA CallbackStep == IInv /\ [Next]_vars => CallbackInv'
<1> SUFFICES ASSUME IInv, [Next]_vars PROVE CallbackInv'
  OBVIOUS
<1> USE DEF Goto, Running, globals, flags, queue, files, tables, objects, senders,
        threads, app, workers, MainInv, ThreadInv, ThreadsHaveTheirObject,
        CallbackInv, Stopping
<1>0. TypeOK /\ MainInv /\ ThreadInv /\ PushInv /\ ThreadsHaveTheirObject /\ CallbackInv
  BY DEF IInv
<1> USE <1>0, TypeFacts
<1>1. ASSUME NEW r \in {"server", "client"}, StartNew(r) PROVE CallbackInv'
  BY <1>0, <1>1 DEF StartNew
<1>2. CASE XStart
  BY <1>0, <1>2 DEF XStart
<1>3. CASE StopCallback
  BY <1>0, <1>3 DEF StopCallback
<1>4. CASE XStopJoinDeal
  BY <1>0, <1>4 DEF XStopJoinDeal
<1>5. CASE StopNull
  BY <1>0, <1>5 DEF StopNull
<1>6. CASE SetCallback \/ OpenFile \/ StopFlag \/ XStartNoSocket \/ XStartFails \/
          XStartCloseAgain \/ StartFlag \/ XStopCloseClient \/ XStopClientsClosed \/
          XStopClose \/ XStopListen \/
          XStopDeal \/ XStopCancel \/ XStopJoinListen \/ XStopJoinNothing \/
          StopDelete
  BY <1>0, <1>6 DEF SetCallback, OpenFile, StopFlag, XStartNoSocket,
         XStartFails, XStartCloseAgain, StartFlag, XStopCloseClient, XStopClientsClosed,
         XStopClose, XStopListen,
         XStopDeal, XStopCancel, XStopJoinListen, XStopJoinNothing,
         StopDelete
<1>7. ASSUME NEW s \in Senders, Send(s) PROVE CallbackInv'
  <2>1. UNCHANGED <<mpc, cbFunc, lpc, dpc>>
    BY <1>0, <1>7, SendShape
  <2> QED
    BY <1>0, <2>1
<1>8. ASSUME NEW o \in Objects, ListenStep(o) PROVE CallbackInv'
  <2>1. UNCHANGED <<mpc, cbFunc, dpc>>
    BY <1>0, <1>8, ListenShape
  <2>2. \A p \in Objects : lpc'[p] = "cbcall" => lpc[p] = "cbcall" \/ cbFunc
    BY <1>8 DEF ListenStep, ThreadListen, ListenEnter, ListenTest, ListenSelect, ListenPush, ListenError,
       ListenCbTest, ListenCbCall, ListenCbDone, Event, Outcomes, SelectWakes, Accept, ScanData,
       ScanClose, ScanReset, ScanEnd, LGoto
  <2> QED
    BY <2>1, <2>2
<1>9. ASSUME NEW o \in Objects, ThreadDeal(o) PROVE CallbackInv'
  <2>1. UNCHANGED <<mpc, cbFunc, lpc>>
    BY <1>0, <1>9, DealShape
  <2>2. \A p \in Objects : dpc'[p] = "cbcall" => dpc[p] = "cbcall" \/ cbFunc
    BY <1>9 DEF ThreadDeal, DealEnter, DealTest, DealPop, DealCbTest, DealCbCall, DGoto
  <2> QED
    BY <2>1, <2>2
<1>10. ASSUME NEW o \in Objects, CallbackCrash(o) PROVE CallbackInv'
  BY <1>0, <1>10 DEF CallbackCrash
<1>11. CASE UNCHANGED vars
  BY <1>0, <1>11 DEF vars
<1> QED
  BY <1>1, <1>2, <1>3, <1>4, <1>5, <1>6, <1>7, <1>8, <1>9, <1>10, <1>11
     DEF Next, StartSteps, StopSteps, ListenStep

(* Nobody else fills the queue while ThreadListen goes to push. *)
LEMMA PushStep == IInv /\ [Next]_vars => PushInv'
<1> SUFFICES ASSUME IInv, [Next]_vars PROVE PushInv'
  OBVIOUS
<1> USE DEF Goto, Running, globals, flags, queue, files, tables, objects, senders,
        threads, app, workers, PushInv
<1>0. TypeOK /\ ThreadInv /\ PushInv
  BY DEF IInv
<1> USE <1>0, TypeFacts
<1>1. ASSUME NEW r \in {"server", "client"}, StartNew(r) PROVE PushInv'
  BY <1>0, <1>1 DEF StartNew
<1>2. CASE XStart
  BY <1>0, <1>2 DEF XStart
<1>3. CASE StopDelete
  <2>1. UNCHANGED <<lpc, at>> /\ \A o \in Objects : msgs'[o] \in {0, msgs[o]}
    BY <1>3 DEF StopDelete, Forget, TypeOK
  <2>2. \A o \in Objects : lpc[o] = "push" => 0 < MaxMsgs
    BY LifecycleAssumption DEF TypeOK
  <2> QED
    BY <2>1, <2>2
<1>4. CASE SetCallback \/ OpenFile \/ StopFlag \/ XStartNoSocket \/ XStartFails \/
          XStartCloseAgain \/ StartFlag \/ StopCallback \/ XStopCloseClient \/ XStopClientsClosed \/
          XStopClose \/
          XStopListen \/ XStopDeal \/ XStopCancel \/ XStopJoinListen \/
          XStopJoinNothing \/ XStopJoinDeal \/ StopNull
  BY <1>0, <1>4 DEF SetCallback, OpenFile, StopFlag, XStartNoSocket,
         XStartFails, XStartCloseAgain, StartFlag, StopCallback, XStopCloseClient, XStopClientsClosed,
         XStopClose,
         XStopListen, XStopDeal, XStopCancel, XStopJoinListen,
         XStopJoinNothing, XStopJoinDeal, StopNull
<1>5. ASSUME NEW s \in Senders, Send(s) PROVE PushInv'
  <2>1. UNCHANGED <<lpc, msgs, at>>
    BY <1>0, <1>5, SendShape
  <2> QED
    BY <1>0, <2>1
<1>6. ASSUME NEW o \in Objects, ListenStep(o) PROVE PushInv'
  <2>1. CASE ListenPush(o)
    <3>1. /\ \A p \in Objects : lpc'[p] = "push" => lpc[p] = "push" /\ msgs'[p] = msgs[p]
          /\ UNCHANGED at /\ \A p \in Objects : lpc'[p] = "reset" => lpc[p] = "reset"
      BY <2>1 DEF ListenPush, LGoto, TypeOK
    <3> QED
      BY <3>1
  <2>2. CASE ~ListenPush(o)
    <3>1. \A p \in Objects : lpc'[p] = "push" => lpc[p] = "push" \/ msgs[p] < MaxMsgs
      BY <1>6, <2>2 DEF ListenStep, ThreadListen, ListenEnter, ListenTest, ListenSelect, ListenError,
         ListenCbTest, ListenCbCall, ListenCbDone, Event, SelectWakes, Accept, ScanData,
         ScanClose, ScanReset, ScanEnd, LGoto
    <3>2. UNCHANGED msgs
      BY <1>6, <2>2 DEF ListenStep, ThreadListen, ListenEnter, ListenTest, ListenSelect, ListenError,
         ListenCbTest, ListenCbCall, ListenCbDone, Event, SelectWakes, Accept, ScanData,
         ScanClose, ScanReset, ScanEnd
    <3>3. ASSUME NEW p \in Objects, lpc'[p] = "reset" PROVE at'[p] \in Slots
      <4>1. \A q \in Objects : q # o => UNCHANGED <<lpc[q], at[q]>>
        BY <1>6 DEF ListenStep, ThreadListen, ListenEnter, ListenTest, ListenSelect, ListenPush,
           ListenError, ListenCbTest, ListenCbCall, ListenCbDone, Event, SelectWakes, Accept,
           ScanData, ScanClose, ScanReset, ScanEnd, LGoto, TypeOK
      <4>2. lpc'[o] = "reset" => at'[o] \in Slots
        <5>1. CASE ScanClose(o)
          BY <5>1 DEF ScanClose, TypeOK
        <5>2. CASE ~ScanClose(o)
          <6>1. lpc'[o] # "reset"
            BY <1>6, <2>2, <5>2 DEF ListenStep, ThreadListen, ListenEnter, ListenTest,
               ListenSelect, ListenError, ListenCbTest, ListenCbCall, ListenCbDone, Event,
               Outcomes, SelectWakes, Accept, ScanData, ScanReset, ScanEnd, LGoto, TypeOK
          <6> QED
            BY <6>1
        <5> QED
          BY <5>1, <5>2
      <4> QED
        BY <3>3, <4>1, <4>2
    <3> QED
      BY <3>1, <3>2, <3>3
  <2> QED
    BY <2>1, <2>2
<1>7. ASSUME NEW o \in Objects, ThreadDeal(o) PROVE PushInv'
  <2>1. UNCHANGED <<lpc, at>>
    BY <1>7, DealShape
  <2>2. CASE UNCHANGED msgs
    BY <2>1, <2>2
  <2>3. CASE DealPop(o)
    <3>1. \A p \in Objects : msgs'[p] <= msgs[p] /\ msgs[p] \in Int /\ msgs'[p] \in Int
      BY <2>3, LifecycleAssumption DEF DealPop, TypeOK
    <3> QED
      BY <2>1, <3>1, LifecycleAssumption
  <2> QED
    BY <2>2, <2>3, <1>7, DealShape
<1>8. ASSUME NEW o \in Objects, CallbackCrash(o) PROVE PushInv'
  BY <1>0, <1>8 DEF CallbackCrash
<1>9. CASE UNCHANGED vars
  BY <1>0, <1>9 DEF vars
<1> QED
  BY <1>1, <1>2, <1>3, <1>4, <1>5, <1>6, <1>7, <1>8, <1>9
     DEF Next, StartSteps, StopSteps, ListenStep

(* The end of a connection is reported in the last round of a client's loop. *)
LEMMA ReportStep == IInv /\ [Next]_vars => ReportInv'
<1> SUFFICES ASSUME IInv, [Next]_vars PROVE ReportInv'
  OBVIOUS
<1> USE DEF Goto, Running, globals, flags, queue, files, tables, objects, senders,
        threads, app, workers, MainInv, ThreadInv, ReportInv, Started,
        NotStarted
<1>0. TypeOK /\ MainInv /\ ThreadInv /\ PushInv /\ ReportInv
  BY DEF IInv
<1> USE <1>0, TypeFacts
<1>1. ASSUME NEW r \in {"server", "client"}, StartNew(r) PROVE ReportInv'
  <2>1. /\ mpc = "idle" /\ mpc' = "xstart" /\ ~bConnectFlag /\ bConnectFlag' = bConnectFlag
        /\ made' = made + 1 /\ hXSocket' = made + 1 /\ UNCHANGED <<deleted, lpc, dpc>>
    BY <1>1 DEF StartNew
  <2>2. /\ made + 1 \in Objects /\ made + 1 \notin deleted /\ made + 1 # 0
        /\ NotStarted(made + 1)
    <3>1. made + 1 \in Objects
      BY <2>1, <1>1, LifecycleAssumption DEF StartNew, Objects
    <3> QED
      BY <3>1
  <2>3. UNCHANGED <<reported, listenLooping>> /\ \A o \in Objects : o # made + 1 => role'[o] = role[o]
    BY <1>1 DEF StartNew, TypeOK
  <2> QED
    BY <2>1, <2>2, <2>3
<1>2. CASE XStart
  BY <1>0, <1>2 DEF XStart
<1>3. CASE XStopListen
  BY <1>0, <1>3 DEF XStopListen
<1>4. CASE StopDelete
  <2>1. UNCHANGED <<role, lpc, reported>>
    BY <1>4 DEF StopDelete
  <2>2. \A o \in Objects : listenLooping'[o] => listenLooping[o]
    BY <1>4 DEF StopDelete, Forget, TypeOK
  <2> QED
    BY <2>1, <2>2
<1>5. CASE SetCallback \/ OpenFile \/ StopFlag \/ XStartNoSocket \/ XStartFails \/
          XStartCloseAgain \/ StartFlag \/ StopCallback \/ XStopCloseClient \/ XStopClientsClosed \/
          XStopClose \/
          XStopDeal \/ XStopCancel \/ XStopJoinListen \/ XStopJoinNothing \/
          XStopJoinDeal \/ StopNull
  BY <1>0, <1>5 DEF SetCallback, OpenFile, StopFlag, XStartNoSocket,
         XStartFails, XStartCloseAgain, StartFlag, StopCallback, XStopCloseClient, XStopClientsClosed,
         XStopClose,
         XStopDeal, XStopCancel, XStopJoinListen, XStopJoinNothing,
         XStopJoinDeal, StopNull
<1>6. ASSUME NEW s \in Senders, Send(s) PROVE ReportInv'
  <2>1. UNCHANGED <<role, lpc, reported, listenLooping>>
    BY <1>0, <1>6, SendShape
  <2> QED
    BY <1>0, <2>1
<1>7. ASSUME NEW o \in Objects, ListenStep(o) PROVE ReportInv'
  <2>1. UNCHANGED role
    BY <1>7, ListenShape
  <2>2. ASSUME NEW p \in Objects, p # o
        PROVE  UNCHANGED <<lpc[p], reported[p], listenLooping[p]>>
    BY <1>7, <2>2 DEF ListenStep, ThreadListen, ListenEnter, ListenTest, ListenSelect, ListenPush,
       ListenError, ListenCbTest, ListenCbCall, ListenCbDone, Event, SelectWakes, Accept, ScanData,
         ScanClose, ScanReset, ScanEnd, LGoto, TypeOK
  <2>3. CASE ListenCbCall(o)
    <3>1. /\ lpc[o] = "cbcall" /\ lpc'[o] = "cbdone"
          /\ reported'[o] = IF role[o] = "client" THEN reported[o] + 1 ELSE reported[o]
      BY <2>3 DEF ListenCbCall, LGoto, TypeOK
    <3>2. reported[o] = 0
      BY <3>1
    <3> QED
      BY <2>1, <2>2, <3>1, <3>2
  <2>4. CASE ListenCbDone(o)
    <3>1. /\ lpc[o] = "cbdone" /\ (lpc'[o] = "test" \/ role[o] = "server")
          /\ reported'[o] = reported[o]
          /\ listenLooping'[o] = (listenLooping[o] /\ role[o] = "server")
      BY <2>4 DEF ListenCbDone, LGoto, TypeOK
    <3> QED
      BY <2>1, <2>2, <3>1, ZenonT(30)
  <2>5. CASE ListenTest(o)
    <3>1. /\ lpc[o] = "test" /\ reported'[o] = reported[o]
          /\ lpc'[o] = IF listenLooping[o] THEN "select" ELSE "done"
      BY <2>5 DEF ListenTest, LGoto, TypeOK
    <3> QED
      BY <2>1, <2>2, <3>1
  <2>6. CASE ~(ListenCbCall(o) \/ ListenCbDone(o) \/ ListenTest(o))
    <3>1. lpc[o] \notin {"test", "cbdone", "done"} /\ reported'[o] = reported[o]
      BY <1>7, <2>6 DEF ListenStep, ThreadListen, ListenEnter, ListenSelect, ListenPush,
         ListenError, ListenCbTest, Event, SelectWakes, Accept, ScanData, ScanClose, ScanReset,
         ScanEnd, LGoto
    <3> QED
      BY <2>1, <2>2, <3>1
  <2> QED
    BY <2>3, <2>4, <2>5, <2>6
<1>8. ASSUME NEW o \in Objects, ThreadDeal(o) PROVE ReportInv'
  <2>1. UNCHANGED <<role, lpc, reported, listenLooping>>
    BY <1>8, DealShape
  <2> QED
    BY <2>1
<1>9. ASSUME NEW o \in Objects, CallbackCrash(o) PROVE ReportInv'
  BY <1>0, <1>9 DEF CallbackCrash
<1>10. CASE UNCHANGED vars
  BY <1>0, <1>10 DEF vars
<1> QED
  BY <1>1, <1>2, <1>3, <1>4, <1>5, <1>6, <1>7, <1>8, <1>9, <1>10
     DEF Next, StartSteps, StopSteps, ListenStep

(* Only a server that runs gets clients. *)
LEMMA TableStep == IInv /\ [Next]_vars => EmptyTables'
<1> SUFFICES ASSUME IInv, [Next]_vars PROVE EmptyTables'
  OBVIOUS
<1> USE DEF Goto, Running, globals, flags, queue, files, tables, objects, senders,
        threads, app, workers, EmptyTables, NotStarted
<1>0. TypeOK /\ MainInv /\ ThreadInv /\ PushInv /\ EmptyTables
  BY DEF IInv
<1> USE <1>0, TypeFacts
<1>1. ASSUME NEW r \in {"server", "client"}, StartNew(r) PROVE EmptyTables'
  <2>1. /\ UNCHANGED <<m_client, lpc, dpc>>
        /\ \A o \in Objects : o # made + 1 => role'[o] = role[o]
    BY <1>1 DEF StartNew, TypeOK
  <2>2. \A o \in Objects : o = made + 1 => NotStarted(o)
    BY DEF ThreadInv, Objects
  <2> QED
    BY <2>1, <2>2
<1>2. CASE XStart
  <2>1. /\ UNCHANGED <<m_client, role>>
        /\ \A o \in Objects : NotStarted(o)' => NotStarted(o)
    BY <1>2 DEF XStart, TypeOK
  <2> QED
    BY <2>1
<1>3. CASE StopDelete
  <2>1. UNCHANGED <<role, lpc, dpc>>
    BY <1>3 DEF StopDelete
  <2>2. \A o \in Objects, slot \in Slots : m_client'[o][slot] \in {0, m_client[o][slot]}
    BY <1>3 DEF StopDelete, Forget, TypeOK
  <2> QED
    BY <2>1, <2>2
<1>4. CASE SetCallback \/ OpenFile \/ StopFlag \/ XStartNoSocket \/ XStartFails \/
          XStartCloseAgain \/ StartFlag \/ StopCallback \/ XStopCloseClient \/
          XStopClientsClosed \/ XStopClose \/ XStopListen \/ XStopDeal \/ XStopCancel \/
          XStopJoinListen \/ XStopJoinNothing \/ XStopJoinDeal \/ StopNull
  BY <1>4 DEF SetCallback, OpenFile, StopFlag, XStartNoSocket, XStartFails,
         XStartCloseAgain, StartFlag, StopCallback, XStopCloseClient,
         XStopClientsClosed, XStopClose, XStopListen, XStopDeal, XStopCancel,
         XStopJoinListen, XStopJoinNothing, XStopJoinDeal, StopNull
<1>5. ASSUME NEW s \in Senders, Send(s) PROVE EmptyTables'
  <2>1. UNCHANGED <<role, m_client, lpc, dpc>>
    BY <1>5, SendShape
  <2> QED
    BY <2>1
<1>6. ASSUME NEW o \in Objects, ListenStep(o) PROVE EmptyTables'
  <2>1. UNCHANGED <<role, dpc>> /\ lpc[o] \notin {"none", "done"}
    BY <1>6, ListenShape
  <2>2. PICK to \in ListenLabels \ {"none", "start"} : lpc' = [lpc EXCEPT ![o] = to]
    BY <1>6, ListenShape
  <2>3. \A p \in Objects : NotStarted(p)' => NotStarted(p)
    BY <2>1, <2>2
  <2>4. CASE Accept(o)
    <3>1. role[o] = "server" /\ \A p \in Objects : p # o => m_client'[p] = m_client[p]
      BY <2>4 DEF Accept
    <3>2. ~NotStarted(o)
      BY <2>1
    <3> QED
      BY <2>1, <2>3, <3>1, <3>2
  <2>5. CASE ScanReset(o)
    <3>1. \A p \in Objects, slot \in Slots : m_client'[p][slot] \in {0, m_client[p][slot]}
      BY <2>5 DEF ScanReset, TypeOK
    <3> QED
      BY <2>1, <2>3, <3>1
  <2>6. CASE ~(Accept(o) \/ ScanReset(o))
    <3>1. UNCHANGED m_client
      BY <1>6, <2>6 DEF ListenStep, ThreadListen, ListenEnter, ListenTest, ListenSelect,
         ListenPush, ListenError, ListenCbTest, ListenCbCall, ListenCbDone, Event, SelectWakes,
         ScanData, ScanClose, ScanEnd
    <3> QED
      BY <2>1, <2>3, <3>1
  <2> QED
    BY <2>4, <2>5, <2>6
<1>7. ASSUME NEW o \in Objects, ThreadDeal(o) PROVE EmptyTables'
  <2>1. UNCHANGED <<role, lpc, m_client>> /\ dpc[o] \notin {"none", "done"}
    BY <1>7, DealShape
  <2>2. PICK to \in DealLabels \ {"none", "start"} : dpc' = [dpc EXCEPT ![o] = to]
    BY <1>7, DealShape
  <2> QED
    BY <2>1, <2>2
<1>8. ASSUME NEW o \in Objects, CallbackCrash(o) PROVE EmptyTables'
  BY <1>8 DEF CallbackCrash
<1>9. CASE UNCHANGED vars
  BY <1>9 DEF vars
<1> QED
  BY <1>1, <1>2, <1>3, <1>4, <1>5, <1>6, <1>7, <1>8, <1>9
     DEF Next, StartSteps, StopSteps, ListenStep

(* A descriptor that is free becomes somebody's; the others keep theirs.   *)
LEMMA TakeKeeps ==
  ASSUME NEW fd \in Fds, owner[fd] = 0, NEW who, owner' = [owner EXCEPT ![fd] = who],
         NEW o \in Objects, NEW other, Own(o, other)
  PROVE  Own(o, other)' /\ other # fd
<1>1. o # 0
  BY DEF Objects
<1> QED
  BY <1>1 DEF Own

LEMMA CloseKeeps ==
  ASSUME TypeOK, NEW fd, Close(fd), NEW o \in Objects, NEW other \in 0..MaxFd, other # fd, Own(o, other)
  PROVE  Own(o, other)'
<1>1. other \in Fds
  BY LifecycleAssumption DEF Own, Fds
<1> QED
  BY <1>1 DEF Own, Close

(* What SocketInv says of one object. *)
SocketsOf(o) ==
  /\ Listening(o) \/ lpc[o] = "reset" \/ (role[o] = "server" /\ InCallback(o)) => HasSocket(o)
  /\ role[o] = "server" => lpc[o] # "error"
  /\ OwnSlots(o)

(* Where only the position of ThreadListen changes. *)
LEMMA MovesKeep ==
  ASSUME NEW o \in Objects, SocketsOf(o),
         UNCHANGED <<role[o], m_socketFd[o], m_client[o], owner>>,
         lpc[o] # "reset", HasSocket(o) \/ lpc'[o] = "done" \/ (role[o] = "client" /\ ~Listening(o)'
            /\ lpc'[o] # "reset"),
         role[o] = "server" => lpc'[o] # "error"
  PROVE  SocketsOf(o)'
<1>1. HasSocket(o) => HasSocket(o)'
  BY DEF HasSocket, Own
<1>2. OwnSlots(o)'
  BY DEF SocketsOf, OwnSlots, Own
<1> QED
  BY <1>1, <1>2 DEF SocketsOf, InCallback, Listening

(* The steps of ThreadListen while nobody stops it. *)
LEMMA ListenSockets ==
  ASSUME TypeOK, PushInv, EmptyTables, NEW o \in Objects, ListenStep(o), SocketsOf(o),
         UNCHANGED <<role, m_socketFd>>
  PROVE  SocketsOf(o)'
<1> USE DEF LGoto, TypeOK
<1>1. o # 0 /\ DOMAIN owner = Fds /\ DOMAIN m_client[o] = Slots
  BY SMTT(30) DEF Objects
<1>2. CASE ListenEnter(o) \/ ListenTest(o)
  <2>1. /\ lpc[o] \in {"start", "test"} /\ lpc'[o] \in {"test", "select", "done"}
        /\ UNCHANGED <<m_client, owner>>
        /\ HasSocket(o) \/ lpc'[o] = "done"
    BY <1>2 DEF ListenEnter, ListenTest, SocketsOf, Listening, files, tables
  <2> QED
    BY <2>1, MovesKeep
<1>3. CASE ListenPush(o)
  <2>1. /\ lpc[o] = "push" /\ lpc'[o] \in {"test", "scan"} /\ UNCHANGED <<m_client, owner>>
        /\ HasSocket(o)
    BY <1>3 DEF ListenPush, SocketsOf, Listening, files, tables
  <2> QED
    BY <2>1, MovesKeep
<1>4. ASSUME lpc[o] \in {"select", "blocked"}
      PROVE  HasSocket(o) /\ \A fd \in Watched(o) : Own(o, fd) /\ owner[fd] # 0
  BY <1>1, <1>4 DEF SocketsOf, Listening, OwnSlots, Watched, HasSocket, Own
<1>5. CASE ListenSelect(o)
  <2>1. lpc[o] = "select" /\ lpc'[o] = "blocked" /\ UNCHANGED <<m_client, owner>>
    BY <1>4, <1>5 DEF ListenSelect, files, tables
  <2> QED
    BY <1>4, <2>1, MovesKeep
<1>6. CASE SelectWakes(o)
  BY <1>4, <1>6 DEF SelectWakes
<1>7. CASE Event(o)
  <2>1. /\ lpc[o] = "blocked" /\ lpc'[o] \in Outcomes(o) /\ UNCHANGED <<m_client, owner>>
    BY <1>7 DEF Event, files, tables
  <2>2. role[o] = "server" => lpc'[o] # "error"
    BY <2>1 DEF Outcomes
  <2> QED
    BY <1>4, <2>1, <2>2, MovesKeep
<1>8. CASE ListenCbTest(o) \/ ListenCbCall(o)
  <2>1. /\ lpc[o] \in {"cbtest", "cbcall"} /\ lpc'[o] \in {"cbcall", "cbdone"}
        /\ UNCHANGED <<m_client, owner>>
    BY <1>8 DEF ListenCbTest, ListenCbCall, files, tables
  <2>2. HasSocket(o) \/ (role[o] = "client" /\ ~Listening(o)' /\ lpc'[o] # "reset")
    BY <2>1 DEF SocketsOf, InCallback, Listening
  <2> QED
    BY <2>1, <2>2, MovesKeep
<1>9. CASE ListenCbDone(o)
  <2>1. /\ lpc[o] = "cbdone" /\ lpc'[o] \in {"test", "scan"} /\ UNCHANGED <<m_client, owner>>
        /\ lpc'[o] = "scan" => role[o] = "server"
        /\ listenLooping'[o] = (listenLooping[o] /\ role[o] = "server")
    BY <1>9 DEF ListenCbDone, files, tables
  <2>2. HasSocket(o) \/ (role[o] = "client" /\ ~Listening(o)' /\ lpc'[o] # "reset")
    BY <2>1 DEF SocketsOf, InCallback, Listening
  <2> QED
    BY <2>1, <2>2, MovesKeep
<1>10. CASE ListenError(o)
  <2>1. role[o] = "client" /\ lpc'[o] = "cbtest" /\ UNCHANGED m_client
    BY <1>10 DEF ListenError, SocketsOf, tables
  <2>2. \A slot \in Slots : m_client'[o][slot] = 0
    BY <2>1 DEF EmptyTables
  <2> QED
    BY <2>1, <2>2 DEF SocketsOf, OwnSlots, Listening
<1>11. CASE Accept(o)
  <2> DEFINE free == {slot \in Slots : m_client[o][slot] = 0}
             first(slot) == slot \in free /\ \A other \in free : slot <= other
  <2>1. PICK fd \in Fds :
          /\ owner[fd] = 0 /\ owner' = [owner EXCEPT ![fd] = o]
          /\ m_client' = [m_client EXCEPT ![o] =
                            [slot \in Slots |-> IF first(slot) THEN fd ELSE m_client[o][slot]]]
    BY <1>11 DEF Accept, Lowest, FreeFds
  <2>2. lpc[o] = "blocked" /\ lpc'[o] = "cbtest" /\ role[o] = "server"
    BY <1>11 DEF Accept
  <2>3. HasSocket(o)' /\ fd # m_socketFd[o]
    BY <1>4, <2>1, <2>2, TakeKeeps DEF HasSocket
  <2>4. \A slot \in Slots :
          m_client[o][slot] # 0 => Own(o, m_client[o][slot])' /\ m_client[o][slot] # fd
    BY <2>1, <2>2, TakeKeeps DEF SocketsOf, OwnSlots
  <2>5. Own(o, fd)'
    BY <1>1, <2>1 DEF Own, Fds
  <2>6. \A slot \in Slots :
          m_client'[o][slot] = IF first(slot) THEN fd ELSE m_client[o][slot]
    BY <2>1
  <2>7. \A slot, other \in Slots : first(slot) /\ first(other) => slot = other
    BY DEF Slots
  <2> HIDE DEF first
  <2>8. OwnSlots(o)'
    BY <2>3, <2>4, <2>5, <2>6, <2>7 DEF SocketsOf, OwnSlots
  <2> QED
    BY <2>2, <2>3, <2>8 DEF SocketsOf
<1>12. CASE ScanData(o)
  <2>1. lpc[o] = "scan" /\ lpc'[o] = "push" /\ UNCHANGED <<m_client, owner>> /\ HasSocket(o)
    BY <1>12 DEF ScanData, SocketsOf, Listening
  <2> QED
    BY <2>1, MovesKeep
<1>13. CASE ScanClose(o)
  <2>1. PICK slot \in Slots : /\ m_client[o][slot] # 0 /\ at'[o] = slot
                             /\ Close(m_client[o][slot])
    BY <1>13 DEF ScanClose
  <2>2. lpc[o] = "scan" /\ lpc'[o] = "reset" /\ UNCHANGED m_client /\ HasSocket(o)
    BY <1>13 DEF ScanClose, SocketsOf, Listening
  <2>3. m_socketFd[o] # m_client[o][slot] /\ m_socketFd[o] \in 0..MaxFd
    BY <2>1 DEF SocketsOf, OwnSlots
  <2>4. HasSocket(o)'
    BY <2>1, <2>2, <2>3, CloseKeeps DEF HasSocket
  <2>5. ASSUME NEW other \in Slots, other # slot, m_client[o][other] # 0
        PROVE  Own(o, m_client[o][other])'
    <3>1. Own(o, m_client[o][other]) /\ m_client[o][other] # m_client[o][slot]
      BY <2>1, <2>2, <2>5 DEF SocketsOf, OwnSlots
    <3>2. m_client[o][other] \in 0..MaxFd /\ UNCHANGED m_client
      BY <2>2
    <3> QED
      BY <2>1, <3>1, <3>2, CloseKeeps
  <2>6. OwnSlots(o)'
    BY <2>1, <2>2, <2>5 DEF SocketsOf, OwnSlots
  <2> QED
    BY <2>2, <2>4, <2>6 DEF SocketsOf
<1>14. CASE ScanReset(o)
  <2>1. /\ lpc[o] = "reset" /\ lpc'[o] = "scan" /\ UNCHANGED owner /\ HasSocket(o)
        /\ at[o] \in Slots
        /\ \A slot \in Slots : m_client'[o][slot] = IF slot = at[o] THEN 0 ELSE m_client[o][slot]
    BY <1>14 DEF ScanReset, SocketsOf, PushInv
  <2>2. OwnSlots(o)'
    BY <2>1 DEF SocketsOf, OwnSlots, Own
  <2> QED
    BY <2>1, <2>2 DEF SocketsOf, HasSocket, Own
<1>15. CASE ScanEnd(o)
  <2>1. lpc[o] = "scan" /\ lpc'[o] = "test" /\ UNCHANGED <<m_client, owner>> /\ HasSocket(o)
    BY <1>15 DEF ScanEnd, SocketsOf, Listening
  <2> QED
    BY <2>1, MovesKeep
<1> QED
  BY <1>2, <1>3, <1>5, <1>6, <1>7, <1>8, <1>9, <1>10, <1>11, <1>12, <1>13, <1>14, <1>15
     DEF ListenStep, ThreadListen

(* Closes and opens leave a live connection its sockets. *)
LEMMA SocketStep == IInv /\ [Next]_vars => SocketInv'
<1> SUFFICES ASSUME IInv, [Next]_vars, NEW o \in Objects, Unstopped(o)' PROVE SocketsOf(o)'
  BY DEF SocketInv, SocketsOf
<1> USE DEF Goto, Running, globals, flags, queue, files, tables, objects, senders,
        threads, app, workers, Unstopped
<1>0. TypeOK /\ MainInv /\ ThreadInv /\ PushInv /\ ThreadsHaveTheirObject /\ EmptyTables
  BY DEF IInv
<1>1. Unstopped(o) => SocketsOf(o)
  BY DEF IInv, SocketInv, SocketsOf
<1> USE <1>0, TypeFacts
<1>2. ASSUME Unstopped(o), UNCHANGED <<lpc, listenLooping, role, m_socketFd, m_client, at, owner>>
      PROVE  SocketsOf(o)'
  BY <1>1, <1>2 DEF SocketsOf, Listening, InCallback, HasSocket, OwnSlots, Own
<1>3. ASSUME NotStarted(o), UNCHANGED <<lpc, m_client>> PROVE SocketsOf(o)'
  BY <1>3 DEF SocketsOf, Listening, InCallback, OwnSlots, EmptyTables, NotStarted
<1>4. CASE OpenFile
  <2>1. PICK fd \in Fds : owner[fd] = 0 /\ owner' = [owner EXCEPT ![fd] = APP]
    BY <1>4 DEF OpenFile, Lowest, FreeFds
  <2>2. /\ UNCHANGED <<hXSocket, mpc, lpc, listenLooping, role, m_socketFd, m_client, at>>
        /\ Unstopped(o)
    BY <1>4 DEF OpenFile
  <2>3. HasSocket(o) => HasSocket(o)'
    BY <2>1, <2>2, TakeKeeps DEF HasSocket
  <2>4. \A slot \in Slots : Own(o, m_client[o][slot]) => Own(o, m_client[o][slot])'
    BY <2>1, <2>2, TakeKeeps
  <2> QED
    BY <1>1, <2>2, <2>3, <2>4 DEF SocketsOf, Listening, InCallback, OwnSlots
<1>5. CASE XStart
  <2>1. PICK fd \in Fds : /\ m_socketFd' = [m_socketFd EXCEPT ![hXSocket] = fd]
                          /\ owner' = [owner EXCEPT ![fd] = hXSocket]
    BY <1>5 DEF XStart
  <2>2. /\ hXSocket = o /\ NotStarted(o) /\ lpc' = [lpc EXCEPT ![o] = "start"]
        /\ UNCHANGED <<m_client, role>>
    BY <1>5 DEF XStart, MainInv
  <2>3. fd # 0 /\ fd \in DOMAIN owner /\ o \in DOMAIN m_socketFd /\ lpc'[o] = "start"
    BY <2>2 DEF Fds, TypeOK
  <2>4. HasSocket(o)'
    BY <2>1, <2>2, <2>3 DEF HasSocket, Own
  <2>5. OwnSlots(o)'
    BY <2>2 DEF OwnSlots, EmptyTables
  <2> QED
    BY <2>3, <2>4, <2>5 DEF SocketsOf
<1>6. CASE XStartFails \/ XStartNoSocket \/ XStartCloseAgain
  <2>1. UNCHANGED <<lpc, m_client, hXSocket>> /\ mpc \in {"xstart", "closeagain"}
    BY <1>6 DEF XStartFails, XStartNoSocket, XStartCloseAgain
  <2> QED
    BY <1>3, <2>1 DEF MainInv
<1>7. CASE StopNull
  BY <1>7 DEF StopNull, Objects
<1>8. CASE SetCallback \/ StopFlag \/ StartFlag \/ StopCallback
  BY <1>2, <1>8 DEF SetCallback, StopFlag, StartFlag, StopCallback
<1>9. CASE XStopClientsClosed
  BY <1>9 DEF XStopClientsClosed, MainInv
<1>10. CASE XStopCloseClient \/ XStopClose \/ XStopListen \/ XStopDeal \/ XStopCancel \/
           XStopJoinListen \/ XStopJoinNothing \/ XStopJoinDeal \/ StopDelete
  BY <1>10 DEF XStopCloseClient, XStopClose, XStopListen, XStopDeal, XStopCancel,
         XStopJoinListen, XStopJoinNothing, XStopJoinDeal, StopDelete
<1>11. ASSUME NEW r \in {"server", "client"}, StartNew(r) PROVE SocketsOf(o)'
  BY <1>11 DEF StartNew
<1>12. ASSUME NEW s \in Senders, Send(s) PROVE SocketsOf(o)'
  <2>1. UNCHANGED <<hXSocket, mpc, lpc, listenLooping, role, m_socketFd, m_client, at, owner>>
    BY <1>12, SendShape
  <2> QED
    BY <1>2, <2>1
<1>13. ASSUME NEW p \in Objects, ListenStep(p) PROVE SocketsOf(o)'
  <2>1. lpc[p] \notin {"none", "done"} /\ hXSocket = p
    BY <1>13, ListenShape DEF ThreadsHaveTheirObject
  <2>2. UNCHANGED <<hXSocket, mpc, role, m_socketFd>>
    BY <1>13, ListenShape
  <2>3. p = o /\ SocketsOf(o)
    BY <1>1, <2>1, <2>2
  <2> QED
    BY <1>13, <2>2, <2>3, ListenSockets
<1>14. ASSUME NEW p \in Objects, ThreadDeal(p) PROVE SocketsOf(o)'
  <2>1. UNCHANGED <<hXSocket, mpc, lpc, listenLooping, role, m_socketFd, m_client, at, owner>>
    BY <1>14, DealShape
  <2> QED
    BY <1>2, <2>1
<1>15. ASSUME NEW p \in Objects, CallbackCrash(p) PROVE SocketsOf(o)'
  BY <1>2, <1>15 DEF CallbackCrash
<1>16. CASE UNCHANGED vars
  BY <1>2, <1>16 DEF vars
<1> QED
  BY <1>4, <1>5, <1>6, <1>7, <1>8, <1>9, <1>10, <1>11, <1>12, <1>13, <1>14, <1>15, <1>16
     DEF Next, StartSteps, StopSteps, ListenStep

(* Each death has the cause that is claimed. *)
LEMMA DiesStep == IInv /\ [Next]_vars => DiesOnlyThroughStop'
<1> SUFFICES ASSUME IInv, [Next]_vars PROVE DiesOnlyThroughStop'
  OBVIOUS
<1> USE DEF Goto, Running, globals, flags, queue, files, tables, objects, senders,
        threads, app, workers, MainInv, SenderInv, CallbackInv, Stopping,
        DiesOnlyThroughStop
<1>0. TypeOK /\ MainInv /\ ThreadInv /\ PushInv /\ SenderInv /\ CallbackInv /\ DiesOnlyThroughStop
  BY DEF IInv
<1> USE <1>0, TypeFacts
<1>1. CASE XStopJoinNothing
  BY <1>0, <1>1 DEF XStopJoinNothing
<1>2. CASE SetCallback \/ OpenFile \/ StopFlag \/ XStart \/ XStartNoSocket \/
          XStartFails \/ XStartCloseAgain \/ StartFlag \/ StopCallback \/
          XStopCloseClient \/ XStopClientsClosed \/
          XStopClose \/ XStopListen \/ XStopDeal \/ XStopCancel \/
          XStopJoinListen \/ XStopJoinDeal \/ StopDelete \/ StopNull
  BY <1>0, <1>2 DEF SetCallback, OpenFile, StopFlag, XStart, XStartNoSocket,
         XStartFails, XStartCloseAgain, StartFlag, StopCallback, XStopCloseClient, XStopClientsClosed,
         XStopClose,
         XStopListen, XStopDeal, XStopCancel, XStopJoinListen, XStopJoinDeal,
         StopDelete, StopNull
<1>3. ASSUME NEW r \in {"server", "client"}, StartNew(r) PROVE DiesOnlyThroughStop'
  BY <1>0, <1>3 DEF StartNew
<1>4. ASSUME NEW s \in Senders, Send(s) PROVE DiesOnlyThroughStop'
  <2>1. UNCHANGED <<deleted, hXSocket>> /\ crash' \in {"no", "send"}
    BY <1>4, SendShape
  <2>2. ASSUME SendCrash(s) PROVE deleted # {}
    <3>1. \/ spc[s] = "attempt" /\ (hXSocket = 0 \/ hXSocket \in deleted)
          \/ spc[s] = "xsend" /\ (this[s] = 0 \/ this[s] \in deleted)
      BY <2>2 DEF SendCrash, Valid
    <3> QED
      BY <3>1
  <2>3. ~SendCrash(s) => crash' = "no"
    BY <1>4, SendShape DEF Send, SendTest, SendAttempt, SendReturn, SGoto
  <2> QED
    BY <2>1, <2>2, <2>3
<1>5. ASSUME NEW o \in Objects, ListenStep(o) PROVE DiesOnlyThroughStop'
  <2>1. crash' = "no"
    BY <1>5, ListenShape
  <2> QED
    BY <2>1
<1>6. ASSUME NEW o \in Objects, ThreadDeal(o) PROVE DiesOnlyThroughStop'
  <2>1. crash' = "no"
    BY <1>6, DealShape
  <2> QED
    BY <2>1
<1>7. ASSUME NEW o \in Objects, CallbackCrash(o) PROVE DiesOnlyThroughStop'
  BY <1>0, <1>7 DEF CallbackCrash
<1>8. CASE UNCHANGED vars
  BY <1>0, <1>8 DEF vars
<1> QED
  BY <1>1, <1>2, <1>3, <1>4, <1>5, <1>6, <1>7, <1>8
     DEF Next, StartSteps, StopSteps, ListenStep

-----------------------------------------------------------------------------
LEMMA NextIInv == IInv /\ [Next]_vars => IInv'
BY TypeStep, MainStep, ThreadStep, ObjectStep, PushStep, SenderStep, CallbackStep, ReportStep,
   TableStep, SocketStep, DiesStep DEF IInv

LEMMA AlwaysIInv == Spec => []IInv
BY InitIInv, NextIInv, PTL DEF Spec

(* The variables of the process, its objects and descriptors keep their    *)
(* types through every start, stop, failure and send.                      *)
THEOREM TypeCorrect == Spec => []TypeOK
<1>1. IInv => TypeOK
  BY DEF IInv
<1> QED
  BY <1>1, AlwaysIInv, PTL

(* The library's own threads never run on an object that stopConnect has   *)
(* deleted or that hXSocket does not point to.                             *)
THEOREM NoThreadOnDeletedObject == Spec => []ThreadsHaveTheirObject
<1>1. IInv => ThreadsHaveTheirObject
  BY DEF IInv
<1> QED
  BY <1>1, AlwaysIInv, PTL

(* Only a startConnect that failed leaves an object behind.                *)
THEOREM OnlyFailuresLeak == Spec => []OnlyFailedStartsLeak
<1>1. IInv => OnlyFailedStartsLeak
  BY DEF IInv
<1> QED
  BY <1>1, AlwaysIInv, PTL

(* A client's application is told once that its connection has ended.      *)
THEOREM ReportedOnce == Spec => []ClosedOnce
<1>1. IInv => ClosedOnce
  BY DEF IInv, ReportInv, ClosedOnce
<1> QED
  BY <1>1, AlwaysIInv, PTL

(* The causes of death of the process that DiesOnlyThroughStop names are   *)
(* all there are.                                                          *)
THEOREM CausesOfDeath == Spec => []DiesOnlyThroughStop
<1>1. IInv => DiesOnlyThroughStop
  BY DEF IInv
<1> QED
  BY <1>1, AlwaysIInv, PTL

(* Until it is stopped, a ThreadListen waits on its own socket, and every  *)
(* descriptor in m_client is the server's own.                             *)
THEOREM LiveSocketKept == Spec => []LiveSocketIsOwn
<1>1. IInv => LiveSocketIsOwn
  BY DEF IInv, SocketInv, OwnSlots, Listening, LiveSocketIsOwn
<1> QED
  BY <1>1, AlwaysIInv, PTL
=============================================================================
