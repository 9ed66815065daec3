------------------------------ MODULE Lifecycle ------------------------------
(***************************************************************************)
(* Start and stop of a connection in one process: the globals of           *)
(* XSocket.cpp, the objects behind hXSocket, XStart and XStop, and the     *)
(* control flow of the two threads an object runs.  One application thread *)
(* starts and stops, as in test/main.cpp; others send.  What the threads   *)
(* do with data is Session's; here a message is only something that keeps  *)
(* ThreadDeal busy.                                                        *)
(*                                                                         *)
(* File descriptors are numbers of the process, which it reuses: socket(), *)
(* accept() and the application's own open() take the lowest free one.     *)
(***************************************************************************)
EXTENDS Integers, FiniteSets

CONSTANTS Senders,           \* application threads that call sendData
          MaxObjects,        \* bound: calls of startConnect that get as far as new
          MaxFd,             \* bound: file descriptors of the process
          MaxMsgs,           \* bound: packets waiting in a MsgQ
          FD_SETSIZE,        \* slots of a server's table
          APP

ASSUME LifecycleAssumption ==
  /\ MaxObjects \in Nat /\ MaxFd \in Nat \ {0} /\ MaxMsgs \in Nat
  /\ FD_SETSIZE \in Nat /\ APP \notin Nat

Objects == 1..MaxObjects
Fds == 1..MaxFd
Slots == 1..FD_SETSIZE

VARIABLES
  bConnectFlag, hXSocket,   \* globals; hXSocket = 0 is NULL
  cbFunc,                   \* m_cbRecvFuncParam.cbFunc is not NULL
  mpc,                      \* where the starting and stopping thread is
  closing,                  \* the slot XStop's loop over m_client has come to
  spc, this,                \* where a sender is, and the object its XSend runs on
  made, deleted,            \* objects new and delete were called for
  role,                     \* "server" or "client"
  m_socketFd,               \* 0 is -1
  m_client,                 \* a server's accepted descriptors by slot; 0 is -1
  at,                       \* the slot ThreadListen's scan of m_client has come to
  listenLooping, dealLooping,  \* no constructor sets them; a thread does before it looks
  isCancel, msgs,           \* the MsgQ
  lpc, dpc,                 \* where ThreadListen and ThreadDeal are
  reported,                 \* history: ERR_CODE_CLOSED callbacks of an object
  owner,                    \* who a descriptor belongs to; 0: nobody
  file,                     \* the descriptor of the application's own file, or 0
  crash                     \* "no", or what the process died of

globals == <<bConnectFlag, hXSocket, cbFunc>>
flags == <<listenLooping, dealLooping>>
queue == <<isCancel, msgs>>
tables == <<m_client, at>>
files == <<owner, file, tables>>
objects == <<made, deleted, role, m_socketFd>>
senders == <<spc, this>>
threads == <<lpc, dpc, reported>>
app == <<globals, mpc, closing, senders, objects>>
workers == <<flags, queue, threads, files, crash>>
vars == <<globals, mpc, closing, senders, objects, flags, queue, threads, files, crash>>

Init ==
  /\ bConnectFlag = FALSE /\ hXSocket = 0 /\ cbFunc = FALSE
  /\ mpc = "idle" /\ closing = 1
  /\ m_client = [o \in Objects |-> [slot \in Slots |-> 0]] /\ at = [o \in Objects |-> 1]
  /\ spc = [s \in Senders |-> "idle"] /\ this = [s \in Senders |-> 0]
  /\ made = 0 /\ deleted = {}
  /\ role = [o \in Objects |-> "client"] /\ m_socketFd = [o \in Objects |-> 0]
  /\ listenLooping = [o \in Objects |-> FALSE] /\ dealLooping = [o \in Objects |-> FALSE]
  /\ isCancel = [o \in Objects |-> FALSE] /\ msgs = [o \in Objects |-> 0]
  /\ lpc = [o \in Objects |-> "none"] /\ dpc = [o \in Objects |-> "none"]
  /\ reported = [o \in Objects |-> 0]
  /\ owner = [fd \in Fds |-> 0] /\ file = 0
  /\ crash = "no"

Running == crash = "no"
Goto(from, to) == Running /\ mpc = from /\ mpc' = to /\ UNCHANGED closing

FreeFds == {fd \in Fds : owner[fd] = 0}
Lowest(fd) == fd \in FreeFds /\ \A other \in FreeFds : fd <= other
Valid(o) == o # 0 /\ o \notin deleted

(* close(fd): the number is free again, whoever had it. *)
Close(fd) == owner' = [other \in Fds |-> IF other = fd THEN 0 ELSE owner[other]]

-----------------------------------------------------------------------------
(* The application: setCallback, and a file of its own *)

SetCallback ==
  /\ Running /\ mpc = "idle"
  /\ cbFunc' = TRUE
  /\ UNCHANGED <<bConnectFlag, hXSocket, mpc, closing, senders, objects, workers>>

OpenFile ==
  /\ Running /\ file = 0
  /\ \E fd \in Fds : /\ Lowest(fd)
                     /\ file' = fd
                     /\ owner' = [owner EXCEPT ![fd] = APP]
  /\ UNCHANGED <<app, flags, queue, threads, tables, crash>>

-----------------------------------------------------------------------------
(* xStartConnect, XSocket.cpp 21-52, and XStart *)

(* An hXSocket that a failed start has left is overwritten. *)
StartNew(r) ==
  /\ ~bConnectFlag /\ made < MaxObjects
  /\ Goto("idle", "xstart")
  /\ made' = made + 1 /\ hXSocket' = made + 1
  /\ role' = [role EXCEPT ![made + 1] = r]
  /\ UNCHANGED <<bConnectFlag, cbFunc, senders, deleted, m_socketFd, workers>>

(* socket() succeeds, and so does all the rest. *)
XStart ==
  /\ Goto("xstart", "flag")
  /\ \E fd \in Fds : /\ Lowest(fd)
                     /\ m_socketFd' = [m_socketFd EXCEPT ![hXSocket] = fd]
                     /\ owner' = [owner EXCEPT ![fd] = hXSocket]
  /\ lpc' = [lpc EXCEPT ![hXSocket] = "start"]
  /\ dpc' = [dpc EXCEPT ![hXSocket] = "start"]
  /\ UNCHANGED <<globals, senders, made, deleted, role, flags, queue,
                 reported, file, tables, crash>>

(* socket() fails. *)
XStartNoSocket ==
  /\ Goto("xstart", "idle")
  /\ UNCHANGED <<globals, senders, objects, workers>>

(* bind, listen or connect fails: the server leaves the socket open, the   *)
(* client closes it -- twice, if its select has closed it before.          *)
XStartFails ==
  /\ \/ Goto("xstart", "idle")
     \/ Goto("xstart", "closeagain") /\ role[hXSocket] = "client"
  /\ \E fd \in Fds :
       /\ Lowest(fd)
       /\ m_socketFd' = [m_socketFd EXCEPT ![hXSocket] = fd]
       /\ owner' = IF role[hXSocket] = "server"
                   THEN [owner EXCEPT ![fd] = hXSocket] ELSE owner
  /\ UNCHANGED <<globals, senders, made, deleted, role, flags, queue, threads,
                 file, tables, crash>>

XStartCloseAgain ==
  /\ Goto("closeagain", "idle")
  /\ Close(m_socketFd[hXSocket])
  /\ UNCHANGED <<globals, senders, objects, flags, queue, threads, file, tables, crash>>

StartFlag ==
  /\ Goto("flag", "idle")
  /\ bConnectFlag' = TRUE
  /\ UNCHANGED <<hXSocket, cbFunc, senders, objects, workers>>

-----------------------------------------------------------------------------
(* xStopConnect, XSocket.cpp 98-113, and XStop *)

StopFlag ==
  /\ hXSocket # 0
  /\ Goto("idle", "callback")
  /\ bConnectFlag' = FALSE
  /\ UNCHANGED <<hXSocket, cbFunc, senders, objects, workers>>

StopCallback ==
  /\ Goto("callback", IF role[hXSocket] = "server" THEN "clients" ELSE "close")
  /\ cbFunc' = FALSE
  /\ UNCHANGED <<bConnectFlag, hXSocket, senders, objects, workers>>

(* A server first closes whatever descriptors it finds in m_client, while  *)
(* ThreadListen goes on using them.                                        *)
XStopCloseClient ==
  /\ Running /\ mpc = "clients" /\ closing \in Slots
  /\ closing' = closing + 1
  /\ Close(m_client[hXSocket][closing])
  /\ UNCHANGED <<globals, mpc, senders, objects, flags, queue, threads, file, tables, crash>>

XStopClientsClosed ==
  /\ Running /\ mpc = "clients" /\ closing \notin Slots
  /\ mpc' = "close" /\ closing' = 1
  /\ UNCHANGED <<globals, senders, objects, workers>>

XStopClose ==
  /\ Goto("close", "listen")
  /\ Close(m_socketFd[hXSocket])
  /\ UNCHANGED <<globals, senders, objects, flags, queue, threads, file, tables, crash>>

XStopListen ==
  /\ Goto("listen", "deal")
  /\ listenLooping' = [listenLooping EXCEPT ![hXSocket] = FALSE]
  /\ UNCHANGED <<globals, senders, objects, dealLooping, queue, threads,
                 files, crash>>

XStopDeal ==
  /\ Goto("deal", "cancel")
  /\ dealLooping' = [dealLooping EXCEPT ![hXSocket] = FALSE]
  /\ UNCHANGED <<globals, senders, objects, listenLooping, queue, threads,
                 files, crash>>

(* A plausible bug: MsgQ is not cancelled. *)
XStopNoCancel ==
  /\ Goto("cancel", "joinlisten")
  /\ UNCHANGED <<globals, senders, objects, workers>>

XStopCancel ==
  /\ Goto("cancel", "joinlisten")
  /\ isCancel' = [isCancel EXCEPT ![hXSocket] = TRUE]
  /\ UNCHANGED <<globals, senders, objects, flags, msgs, threads, files, crash>>

XStopJoinListen ==
  /\ Goto("joinlisten", "joindeal")
  /\ lpc[hXSocket] = "done"
  /\ UNCHANGED <<globals, senders, objects, workers>>

(* pthread_join of the m_threadListen = 0 of an object XStart failed for *)
XStopJoinNothing ==
  /\ Running /\ mpc = "joinlisten" /\ lpc[hXSocket] = "none"
  /\ crash' = "join"
  /\ UNCHANGED <<app, flags, queue, threads, files>>

(* A plausible bug: ThreadDeal is not waited for. *)
XStopNoJoinDeal ==
  /\ Goto("joindeal", "delete")
  /\ UNCHANGED <<globals, senders, objects, workers>>

XStopJoinDeal ==
  /\ Goto("joindeal", "delete")
  /\ dpc[hXSocket] = "done"
  /\ UNCHANGED <<globals, senders, objects, workers>>

(* The fields of the deleted object go with it. *)
Forget(o) ==
  /\ m_socketFd' = [m_socketFd EXCEPT ![o] = 0]
  /\ listenLooping' = [listenLooping EXCEPT ![o] = FALSE]
  /\ dealLooping' = [dealLooping EXCEPT ![o] = FALSE]
  /\ isCancel' = [isCancel EXCEPT ![o] = FALSE] /\ msgs' = [msgs EXCEPT ![o] = 0]
  /\ m_client' = [m_client EXCEPT ![o] = [slot \in Slots |-> 0]]

(* A plausible bug: hXSocket is set to NULL before its object is deleted. *)
StopDeleteNull ==
  /\ Goto("delete", "null")
  /\ hXSocket' = 0
  /\ deleted' = deleted \cup {hXSocket'}
  /\ Forget(hXSocket)
  /\ UNCHANGED <<bConnectFlag, cbFunc, senders, made, role, threads, owner, file, at, crash>>

(* A plausible bug: the object is neither deleted nor kept. *)
StopDeleteLeaks ==
  /\ Goto("delete", "null")
  /\ UNCHANGED <<globals, senders, objects, workers>>

StopDelete ==
  /\ Goto("delete", "null")
  /\ deleted' = deleted \cup {hXSocket}
  /\ Forget(hXSocket)
  /\ UNCHANGED <<globals, senders, made, role, threads, owner, file, at, crash>>

StopNull ==
  /\ Goto("null", "idle")
  /\ hXSocket' = 0
  /\ UNCHANGED <<bConnectFlag, cbFunc, senders, objects, workers>>

-----------------------------------------------------------------------------
(* sendData of another thread, XSocket.cpp 54-81 *)

SGoto(s, from, to) == Running /\ spc[s] = from /\ spc' = [spc EXCEPT ![s] = to]

SendTest(s) ==
  /\ hXSocket # 0
  /\ SGoto(s, "idle", "attempt")
  /\ UNCHANGED <<globals, mpc, closing, this, objects, workers>>

SendAttempt(s) ==
  /\ Valid(hXSocket)
  /\ SGoto(s, "attempt", "xsend")
  /\ this' = [this EXCEPT ![s] = hXSocket]
  /\ UNCHANGED <<globals, mpc, closing, objects, workers>>

(* XSend returns, after using the object again: an ack, or one more attempt *)
(* that failed.  Session counts the attempts.                              *)
SendReturn(s) ==
  /\ Valid(this[s])
  /\ SGoto(s, "xsend", "idle") \/ SGoto(s, "xsend", "attempt")
  /\ this' = [this EXCEPT ![s] = 0]
  /\ UNCHANGED <<globals, mpc, closing, objects, workers>>

(* hXSocket, or the object XSend runs on, is gone. *)
SendCrash(s) ==
  /\ Running
  /\ \/ spc[s] = "attempt" /\ ~Valid(hXSocket)
     \/ spc[s] = "xsend" /\ ~Valid(this[s])
  /\ crash' = "send"
  /\ UNCHANGED <<app, flags, queue, threads, files>>

-----------------------------------------------------------------------------
(* ThreadListen *)

LGoto(o, from, to) == Running /\ lpc[o] = from /\ lpc' = [lpc EXCEPT ![o] = to]

ListenEnter(o) ==
  /\ LGoto(o, "start", "test")
  /\ listenLooping' = [listenLooping EXCEPT ![o] = TRUE]
  /\ UNCHANGED <<app, dealLooping, queue, dpc, reported, files, crash>>

ListenTest(o) ==
  /\ LGoto(o, "test", IF listenLooping[o] THEN "select" ELSE "done")
  /\ UNCHANGED <<app, flags, queue, dpc, reported, files, crash>>

Own(o, fd) == fd # 0 /\ owner[fd] = o
HasSocket(o) == Own(o, m_socketFd[o])
Watched(o) == ({m_socketFd[o]} \cup {m_client[o][slot] : slot \in Slots}) \ {0}

(* select fails for a descriptor that is closed, and takes one that was    *)
(* closed and given to somebody else for its own.                          *)
ListenSelect(o) ==
  /\ LGoto(o, "select", IF \A fd \in Watched(o) : owner[fd] # 0 THEN "blocked" ELSE "error")
  /\ UNCHANGED <<app, flags, queue, dpc, reported, files, crash>>

(* Something happens on the sockets.  A client receives data, or the end   *)
(* of the connection; a server looks at its clients, or its accept fails.  *)
(* On a descriptor that is not its own any more, a client's recv fails and *)
(* a server's accept does.                                                 *)
Outcomes(o) ==
  IF role[o] = "client"
  THEN {"error"} \cup (IF HasSocket(o) THEN {"push", "test"} ELSE {})
  ELSE {"test", "scan"}

Event(o) ==
  /\ \E to \in Outcomes(o) : /\ to = "push" => msgs[o] < MaxMsgs
                            /\ LGoto(o, "blocked", to)
  /\ UNCHANGED <<app, flags, queue, dpc, reported, files, crash>>

(* A server accepts: the descriptor goes into the first free slot, if      *)
(* there is one, and the callback hears of it.                             *)
Accept(o) ==
  /\ role[o] = "server" /\ HasSocket(o)
  /\ LGoto(o, "blocked", "cbtest")
  /\ LET free == {slot \in Slots : m_client[o][slot] = 0}
         first(slot) == slot \in free /\ \A other \in free : slot <= other
     IN  \E fd \in Fds :
           /\ Lowest(fd)
           /\ owner' = [owner EXCEPT ![fd] = o]
           /\ m_client' = [m_client EXCEPT ![o] =
                             [slot \in Slots |-> IF first(slot) THEN fd ELSE @[slot]]]
  /\ UNCHANGED <<app, flags, queue, dpc, reported, file, at, crash>>

(* close() may end another thread's select, or not: POSIX leaves it open,  *)
(* and Linux lets the thread wait.                                         *)
SelectWakes(o) ==
  /\ \E fd \in Watched(o) : ~Own(o, fd)
  /\ LGoto(o, "blocked", "error")
  /\ UNCHANGED <<app, flags, queue, dpc, reported, files, crash>>

(* The scan of m_client: data of a client, ...                             *)
ScanData(o) ==
  /\ msgs[o] < MaxMsgs
  /\ \E slot \in Slots :
       /\ slot >= at[o] /\ Own(o, m_client[o][slot])
       /\ at' = [at EXCEPT ![o] = slot + 1]
  /\ LGoto(o, "scan", "push")
  /\ UNCHANGED <<app, flags, queue, dpc, reported, owner, file, m_client, crash>>

(* ... the end of one, or an error, since XStop has closed its descriptor: *)
(* it is closed, whosever it is by now, ...                                *)
ScanClose(o) ==
  /\ \E slot \in Slots :
       /\ slot >= at[o] /\ m_client[o][slot] # 0
       /\ at' = [at EXCEPT ![o] = slot]
       /\ Close(m_client[o][slot])
  /\ LGoto(o, "scan", "reset")
  /\ UNCHANGED <<app, flags, queue, dpc, reported, file, m_client, crash>>

(* A plausible bug: m_client keeps the closed descriptor. *)
ScanResetForgets(o) ==
  /\ LGoto(o, "reset", "scan")
  /\ at' = [at EXCEPT ![o] = @ + 1]
  /\ UNCHANGED <<app, flags, queue, dpc, reported, owner, file, m_client, crash>>

ScanReset(o) ==
  /\ LGoto(o, "reset", "scan")
  /\ m_client' = [m_client EXCEPT ![o][at[o]] = 0]
  /\ at' = [at EXCEPT ![o] = @ + 1]
  /\ UNCHANGED <<app, flags, queue, dpc, reported, owner, file, crash>>

(* ... and, at the end of the table or of selectRet, the next select.      *)
ScanEnd(o) ==
  /\ LGoto(o, "scan", "test")
  /\ at' = [at EXCEPT ![o] = 1]
  /\ UNCHANGED <<app, flags, queue, dpc, reported, owner, file, m_client, crash>>

(* OnRecvMsg; pushback takes the cancellation back. *)
ListenPush(o) ==
  /\ LGoto(o, "push", IF role[o] = "client" THEN "test" ELSE "scan")
  /\ msgs' = [msgs EXCEPT ![o] = @ + 1]
  /\ isCancel' = [isCancel EXCEPT ![o] = FALSE]
  /\ UNCHANGED <<app, flags, dpc, reported, files, crash>>

(* Client: XSocketClose closes m_socketFd and reports.  Server: a failed   *)
(* select closes sockfd, which may not have been set.                      *)
ListenError(o) ==
  /\ IF role[o] = "client"
     THEN LGoto(o, "error", "cbtest") /\ Close(m_socketFd[o])
     ELSE LGoto(o, "error", "test") /\ \E sockfd \in 0..MaxFd : Close(sockfd)
  /\ UNCHANGED <<app, flags, queue, dpc, reported, file, tables, crash>>

(* A plausible bug: cbFunc is called without a look at it. *)
ListenCbNoTest(o) ==
  /\ LGoto(o, "cbtest", "cbcall")
  /\ UNCHANGED <<app, flags, queue, dpc, reported, files, crash>>

(* xRecvCb looks at cbFunc, then calls it. *)
ListenCbTest(o) ==
  /\ LGoto(o, "cbtest", IF cbFunc THEN "cbcall" ELSE "cbdone")
  /\ UNCHANGED <<app, flags, queue, dpc, reported, files, crash>>

ListenCbCall(o) ==
  /\ cbFunc
  /\ LGoto(o, "cbcall", "cbdone")
  /\ reported' = [reported EXCEPT ![o] = IF role[o] = "client" THEN @ + 1 ELSE @]
  /\ UNCHANGED <<app, flags, queue, dpc, files, crash>>

(* A plausible bug: XSocketClose does not end the loop. *)
ListenCbDoneLoops(o) ==
  /\ LGoto(o, "cbdone", "test")
  /\ UNCHANGED <<app, flags, queue, dpc, reported, files, crash>>

(* The client's XSocketClose ends its loop; a server goes on to the scan,   *)
(* or nothing is left of selectRet.                                        *)
ListenCbDone(o) ==
  /\ \/ LGoto(o, "cbdone", "test")
     \/ LGoto(o, "cbdone", "scan") /\ role[o] = "server"
  /\ listenLooping' = [listenLooping EXCEPT ![o] = @ /\ role[o] = "server"]
  /\ UNCHANGED <<app, dealLooping, queue, dpc, reported, files, crash>>

-----------------------------------------------------------------------------
(* ThreadDeal *)

DGoto(o, from, to) == Running /\ dpc[o] = from /\ dpc' = [dpc EXCEPT ![o] = to]

DealEnter(o) ==
  /\ DGoto(o, "start", "test")
  /\ dealLooping' = [dealLooping EXCEPT ![o] = TRUE]
  /\ UNCHANGED <<app, listenLooping, queue, lpc, reported, files, crash>>

DealTest(o) ==
  /\ DGoto(o, "test", IF dealLooping[o] THEN "pop" ELSE "done")
  /\ UNCHANGED <<app, flags, queue, lpc, reported, files, crash>>

(* popFront: a request, a response, or NULL when cancelled. *)
DealPop(o) ==
  /\ \/ /\ msgs[o] > 0 /\ msgs' = [msgs EXCEPT ![o] = @ - 1]
        /\ DGoto(o, "pop", "cbtest") \/ DGoto(o, "pop", "test")
     \/ /\ msgs[o] = 0 /\ isCancel[o] /\ UNCHANGED msgs
        /\ DGoto(o, "pop", "test")
  /\ UNCHANGED <<app, flags, isCancel, lpc, reported, files, crash>>

DealCbTest(o) ==
  /\ DGoto(o, "cbtest", IF cbFunc THEN "cbcall" ELSE "test")
  /\ UNCHANGED <<app, flags, queue, lpc, reported, files, crash>>

DealCbCall(o) ==
  /\ cbFunc
  /\ DGoto(o, "cbcall", "test")
  /\ UNCHANGED <<app, flags, queue, lpc, reported, files, crash>>

(* cbFunc was set to NULL between the test and the call. *)
CallbackCrash(o) ==
  /\ Running /\ ~cbFunc
  /\ lpc[o] = "cbcall" \/ dpc[o] = "cbcall"
  /\ crash' = "callback"
  /\ UNCHANGED <<app, flags, queue, threads, files>>

-----------------------------------------------------------------------------
StartSteps == XStart \/ XStartNoSocket \/ XStartFails \/ XStartCloseAgain \/ StartFlag

StopSteps == \/ StopCallback \/ XStopCloseClient \/ XStopClientsClosed \/ XStopClose
             \/ XStopListen \/ XStopDeal \/ XStopCancel
             \/ XStopJoinListen \/ XStopJoinNothing \/ XStopJoinDeal
             \/ StopDelete \/ StopNull

Send(s) == SendTest(s) \/ SendAttempt(s) \/ SendReturn(s) \/ SendCrash(s)

ThreadListen(o) == \/ ListenEnter(o) \/ ListenTest(o) \/ ListenSelect(o)
                   \/ ScanData(o) \/ ScanClose(o) \/ ScanReset(o) \/ ScanEnd(o)
                   \/ ListenPush(o) \/ ListenError(o)
                   \/ ListenCbTest(o) \/ ListenCbCall(o) \/ ListenCbDone(o)

ThreadDeal(o) == DealEnter(o) \/ DealTest(o) \/ DealPop(o) \/ DealCbTest(o) \/ DealCbCall(o)

Next ==
  \/ SetCallback \/ OpenFile
  \/ \E r \in {"server", "client"} : StartNew(r)
  \/ StopFlag
  \/ StartSteps \/ StopSteps
  \/ \E s \in Senders : Send(s)
  \/ \E o \in Objects : \/ ThreadListen(o) \/ Event(o) \/ Accept(o) \/ SelectWakes(o)
                       \/ ThreadDeal(o) \/ CallbackCrash(o)

Spec == Init /\ [][Next]_vars

(* The library's threads and calls go on; nothing has to arrive, and       *)
(* nobody has to call.                                                     *)
Fairness ==
  /\ WF_vars(StartSteps) /\ WF_vars(StopSteps)
  /\ \A o \in Objects : /\ WF_vars(ThreadListen(o)) /\ WF_vars(ThreadDeal(o))
                        /\ WF_vars(CallbackCrash(o))

FairSpec == Spec /\ Fairness

(* In addition, whoever is connected goes on talking. *)
TalkingPeerSpec == FairSpec /\ \A o \in Objects : WF_vars(Event(o))

-----------------------------------------------------------------------------
(* Properties *)

MainLabels == {"idle", "xstart", "closeagain", "flag", "callback", "clients", "close",
               "listen", "deal", "cancel", "joinlisten", "joindeal", "delete", "null"}
ListenLabels == {"none", "start", "test", "select", "blocked", "scan", "reset", "push", "error",
                 "cbtest", "cbcall", "cbdone", "done"}
DealLabels == {"none", "start", "test", "pop", "cbtest", "cbcall", "done"}

(* Every variable has its type, and a descriptor belongs to an object that *)
(* was made, to the application or to nobody.                              *)
TypeOK ==
  /\ bConnectFlag \in BOOLEAN /\ cbFunc \in BOOLEAN /\ hXSocket \in 0..made
  /\ mpc \in MainLabels /\ closing \in 1..FD_SETSIZE + 1
  /\ spc \in [Senders -> {"idle", "attempt", "xsend"}] /\ this \in [Senders -> 0..made]
  /\ made \in 0..MaxObjects /\ deleted \subseteq 1..made
  /\ role \in [Objects -> {"server", "client"}] /\ m_socketFd \in [Objects -> 0..MaxFd]
  /\ listenLooping \in [Objects -> BOOLEAN] /\ dealLooping \in [Objects -> BOOLEAN]
  /\ isCancel \in [Objects -> BOOLEAN] /\ msgs \in [Objects -> 0..MaxMsgs]
  /\ lpc \in [Objects -> ListenLabels] /\ dpc \in [Objects -> DealLabels]
  /\ reported \in [Objects -> Nat]
  /\ m_client \in [Objects -> [Slots -> 0..MaxFd]] /\ at \in [Objects -> 1..FD_SETSIZE + 1]
  /\ owner \in [Fds -> 0..made \cup {APP}] /\ file \in 0..MaxFd
  /\ crash \in {"no", "join", "send", "callback"}

(* ThreadListen and ThreadDeal never run on a deleted object, nor on one   *)
(* that hXSocket does not point to: one connection at a time, and          *)
(* stopConnect deletes nothing that is in use by the library itself.       *)
ThreadsHaveTheirObject ==
  \A o \in Objects :
    lpc[o] \notin {"none", "done"} \/ dpc[o] \notin {"none", "done"}
      => hXSocket = o /\ o \notin deleted

(* An object that is neither deleted nor in hXSocket is one that XStart    *)
(* has failed for: only a failed startConnect leaks.                       *)
OnlyFailedStartsLeak ==
  \A o \in 1..made :
    o \in deleted \/ o = hXSocket \/ (lpc[o] = "none" /\ dpc[o] = "none")

(* The end of its connection is reported once to the application of a      *)
(* client, however the threads and stopConnect interleave.                 *)
ClosedOnce == \A o \in Objects : reported[o] <= 1

(* What, of the steps this module has, can kill the process, and when (it  *)
(* can also die of a late ack, of data without an X and of SIGPIPE, which  *)
(* no step here stands for): a NULL callback is only called while          *)
(* stopConnect has not yet joined the threads; threads that do not exist   *)
(* are only joined for an object XStart has failed for; sendData only      *)
(* meets a deleted object or none after a stopConnect.                     *)
DiesOnlyThroughStop ==
  /\ crash = "callback" => mpc \in {"clients", "close", "listen", "deal",
                                   "cancel", "joinlisten", "joindeal"}
  /\ crash = "join" => lpc[hXSocket] = "none" /\ ~bConnectFlag
  /\ crash = "send" => deleted # {}

(* Until stopConnect begins to close, a ThreadListen that goes to select,  *)
(* waits there or scans its clients has its own listening or connected     *)
(* socket, and every descriptor in m_client is its own too: no close of a  *)
(* failed start, of a connection before this one or of the thread itself   *)
(* takes one away.  Nothing of the kind is said of the application's files: *)
(* a failed start and a stop do close them.                                *)
Listening(o) == \/ lpc[o] \in {"start", "select", "blocked", "scan", "push"}
                \/ lpc[o] = "test" /\ listenLooping[o]
Unstopped(o) ==
  hXSocket = o /\ (mpc \in {"flag", "idle", "callback"} \/ (mpc = "close" /\ role[o] = "client"))
LiveSocketIsOwn ==
  \A o \in Objects :
    Unstopped(o) /\ Listening(o)
      => /\ HasSocket(o)
         /\ \A slot \in Slots : m_client[o][slot] # 0 => Own(o, m_client[o][slot])

(* stopConnect returns when both threads had entered their loops before it *)
(* and the peer goes on talking.                                           *)
Looping(o) == lpc[o] \notin {"none", "start"} /\ dpc[o] \notin {"none", "start"}
StopReturnsWhenLooping ==
  (mpc = "close" /\ hXSocket # 0 /\ Looping(hXSocket)) ~> (mpc = "idle" \/ crash # "no")

-----------------------------------------------------------------------------
(* What the documentation, the tests or the code's own guards say and the  *)
(* code does not do. *)

(* XSocket.h:94: stopConnect closes the communication synchronously: it    *)
(* comes back.                                                             *)
StopReturns == mpc = "close" ~> mpc = "idle" \/ crash # "no"
=============================================================================
