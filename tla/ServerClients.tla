---------------------------- MODULE ServerClients ----------------------------
(***************************************************************************)
(* A server with several clients: ThreadListen's select loop with m_client *)
(* and the descriptors it reuses, the parser and the preSeq all clients    *)
(* share, and acks that go to a descriptor, by then perhaps another        *)
(* client's.  A client is one connection, with one thread in sendData; one *)
(* that has restarted is another client, and counts from 1 again.          *)
(*                                                                         *)
(* All frames have one length and are cut in the middle: the parser sees   *)
(* halves, and a read returns as many of them as SOCKET_MAX_SIZE holds, or *)
(* fewer.  What the server sends of its own accord is left to Session;     *)
(* here it is only of interest whom m_curClientFd names.  Left to Session  *)
(* too: a write that fails, an XSend that wakes of itself, and an ack that *)
(* meets hSend while it is packed or just deleted (which ends the client,  *)
(* here as in Leave).                                                      *)
(***************************************************************************)
EXTENDS Integers, Sequences, FiniteSets

CONSTANTS Clients, Nobody, Application,
          NOFILE,             \* descriptors, the library's and the process's own aside
          FD_SETSIZE,
          ReadMax,            \* halves that SOCKET_MAX_SIZE bytes hold
          REPEAT_SEND_TIMES,  \* 3 for every client
          Files,              \* bound: files the application has open at once
          Calls,              \* bound: calls of sendData of each client
          Leavers             \* bound: clients whose connection may end

Fds == 1..NOFILE              \* for clients and files of the application
LISTEN == 0
Slots == 0..FD_SETSIZE - 1

ASSUME ServerAssumption ==
  /\ NOFILE \in Nat \ {0} /\ FD_SETSIZE \in Nat /\ ReadMax \in Nat
  /\ REPEAT_SEND_TIMES \in [Clients -> Nat \ {0}]
  /\ NOFILE <= FD_SETSIZE     \* FD_SET takes no larger descriptor
  /\ Calls \in [Clients -> 0..9999]  \* so that iSeq does not wrap
  /\ Leavers \subseteq Clients
  /\ Nobody \notin Clients /\ Application \notin Clients /\ Application # Nobody

VARIABLES
  conn,         \* of a client: "out", "up" or "left"
  iSeq, count,  \* of a client: number and attempts of its call; no attempts: no call
  pc,           \* of a client: where its XSend is; hSend is set unless "idle"
  hit,          \* of a client: ThreadDeal has found its ack, and will signal
  done,         \* of a client: how many calls have returned 0
  net, acks,    \* of a client: halves and acks on their way
  backlog,      \* connections not accepted yet
  owner,        \* what a descriptor is: a client's connection, the application's file
  m_client, m_curClientFd, allset,
  lpc, rset, selectRet, maxi, i,  \* ThreadListen
  buffer,       \* m_xsProtocolBuffer
  rest,         \* pParseBuffer: the read from where OnRecvMsg's loop stands
  queue,        \* MsgQ, of [head, tail, fd]: head and tail say whose half it is
  preSeq,       \* of ThreadDeal
  dealt,        \* history: whose packets, by their heads, reached the callback
  newest,       \* history: the client accepted last
  mixed,        \* history: a read of one client found bytes of another in buffer
  again         \* history: clients of whose reads a part was appended twice

call == <<iSeq, count, pc, hit, done>>
client == <<conn, call>>
table == <<backlog, owner, m_client, m_curClientFd, allset, maxi, newest>>
loop == <<lpc, rset, selectRet, i>>
parser == <<buffer, rest, mixed, again>>
deal == <<preSeq, dealt>>
vars == <<client, net, acks, table, loop, parser, queue, deal>>

(* The constructor leaves m_curClientFd alone: it may be any number, -1    *)
(* here for all that no client's descriptor will have.                     *)
Init ==
  /\ conn = [c \in Clients |-> "out"] /\ iSeq = [c \in Clients |-> 0]
  /\ count = [c \in Clients |-> 0] /\ done = [c \in Clients |-> 0]
  /\ pc = [c \in Clients |-> "idle"] /\ hit = [c \in Clients |-> FALSE]
  /\ net = [c \in Clients |-> << >>] /\ acks = [c \in Clients |-> << >>]
  /\ backlog = << >> /\ owner = [fd \in Fds |-> Nobody]
  /\ m_client = [j \in Slots |-> -1] /\ m_curClientFd \in Fds \cup {-1}
  /\ allset = {LISTEN} /\ maxi = -1 /\ newest = Nobody
  /\ lpc = "select" /\ rset = {} /\ selectRet = 0 /\ i = 0
  /\ buffer = << >> /\ rest = << >> /\ mixed = FALSE /\ again = {}
  /\ queue = << >> /\ preSeq = 0 /\ dealt = << >>

-----------------------------------------------------------------------------
(* Clients *)

Connect(c) ==
  /\ conn[c] = "out" /\ conn' = [conn EXCEPT ![c] = "up"]
  /\ backlog' = Append(backlog, c)
  /\ UNCHANGED <<call, net, acks, owner, m_client, m_curClientFd, allset, maxi, newest,
                 loop, parser, queue, deal>>

(* XSend writes the frame of packet k, and waits; n is the attempt. *)
Attempt(c, k, n) ==
  /\ conn[c] = "up" /\ pc[c] = "idle"
  /\ pc' = [pc EXCEPT ![c] = "wait"] /\ count' = [count EXCEPT ![c] = n]
  /\ net' = [net EXCEPT ![c] = @ \o << [of |-> <<c, k>>, part |-> "head"],
                                       [of |-> <<c, k>>, part |-> "tail"] >>]
  /\ UNCHANGED <<conn, hit, done, acks, table, loop, parser, queue, deal>>

SendData(c) ==
  /\ count[c] = 0 /\ iSeq[c] < Calls[c]
  /\ iSeq' = [iSeq EXCEPT ![c] = @ + 1]
  /\ Attempt(c, iSeq[c] + 1, 1)

Repeat(c) ==
  /\ count[c] \in 1..REPEAT_SEND_TIMES[c] - 1
  /\ Attempt(c, iSeq[c], count[c] + 1) /\ UNCHANGED iSeq

Goto(c, from, to) == conn[c] = "up" /\ pc[c] = from /\ pc' = [pc EXCEPT ![c] = to]

(* The wait is over and XSend returns -1; of the last attempt the call too. *)
XSendTimedOut(c) ==
  /\ Goto(c, "wait", "idle") \/ Goto(c, "timedout", "idle")
  /\ count' = [count EXCEPT ![c] = IF @ = REPEAT_SEND_TIMES[c] THEN 0 ELSE @]
  /\ UNCHANGED <<conn, iSeq, hit, done, net, acks, table, loop, parser, queue, deal>>

XSendAcked(c) ==
  /\ Goto(c, "woken", "idle")
  /\ count' = [count EXCEPT ![c] = 0] /\ done' = [done EXCEPT ![c] = @ + 1]
  /\ UNCHANGED <<conn, iSeq, hit, net, acks, table, loop, parser, queue, deal>>

(* The client's ThreadDeal pops an ack and compares it with hSend, of      *)
(* which it looks at the number only.                                      *)
RecvAck(c) ==
  /\ conn[c] = "up" /\ acks[c] # << >> /\ ~hit[c]
  /\ acks' = [acks EXCEPT ![c] = Tail(@)]
  /\ hit' = [hit EXCEPT ![c] = pc[c] # "idle" /\ Head(acks[c])[2] = iSeq[c]]
  /\ UNCHANGED <<conn, iSeq, count, pc, done, net, table, loop, parser, queue, deal>>

(* The signal wakes the XSend that waits now.  It is lost if none does, or *)
(* if the time of the one that waits is up and only m_mutex keeps it.      *)
SignalAck(c) ==
  /\ conn[c] = "up" /\ hit[c]
  /\ hit' = [hit EXCEPT ![c] = FALSE]
  /\ \/ pc[c] # "wait" /\ UNCHANGED pc
     \/ Goto(c, "wait", "woken")
     \/ Goto(c, "wait", "timedout")
  /\ UNCHANGED <<conn, iSeq, count, done, net, acks, table, loop, parser, queue, deal>>

(* The client ends, in the middle of a call or not; of it remains what it  *)
(* has written.                                                            *)
Leave(c) ==
  /\ c \in Leavers /\ conn[c] = "up" /\ conn' = [conn EXCEPT ![c] = "left"]
  /\ pc' = [pc EXCEPT ![c] = "idle"] /\ hit' = [hit EXCEPT ![c] = FALSE]
  /\ count' = [count EXCEPT ![c] = 0] /\ acks' = [acks EXCEPT ![c] = << >>]
  /\ UNCHANGED <<iSeq, done, net, table, loop, parser, queue, deal>>

-----------------------------------------------------------------------------
(* Descriptors: a new one is the lowest free.  The application opens and   *)
(* closes files of its own, which take and free the same numbers.          *)

LowestFree(fd) == owner[fd] = Nobody /\ \A g \in Fds : g < fd => owner[g] # Nobody
Full == \A fd \in Fds : owner[fd] # Nobody

Open(fd) ==
  /\ Cardinality({g \in Fds : owner[g] = Application}) < Files
  /\ LowestFree(fd) /\ owner' = [owner EXCEPT ![fd] = Application]
  /\ UNCHANGED <<client, net, acks, backlog, m_client, m_curClientFd, allset, maxi, newest,
                 loop, parser, queue, deal>>

CloseFile(fd) ==
  /\ owner[fd] = Application /\ owner' = [owner EXCEPT ![fd] = Nobody]
  /\ UNCHANGED <<client, net, acks, backlog, m_client, m_curClientFd, allset, maxi, newest,
                 loop, parser, queue, deal>>

-----------------------------------------------------------------------------
(* ThreadListen *)

(* What select finds readable: data or the end of a connection *)
Readable(fd) ==
  IF fd = LISTEN THEN backlog # << >>
  ELSE owner[fd] \in Clients /\ (net[owner[fd]] # << >> \/ conn[owner[fd]] = "left")

(* The scan stands at the slot s, the next whose client is ready. *)
Due(s) == /\ s \in i..maxi /\ m_client[s] \in rset
          /\ \A j \in i..s - 1 : m_client[j] \notin rset

PassIsOver == lpc = "select" \/ (lpc = "scan" /\ \A s \in i..maxi : m_client[s] \notin rset)

Select ==
  /\ PassIsOver
  /\ rset' = {fd \in allset : Readable(fd)} /\ rset' # {}
  /\ selectRet' = Cardinality(rset') /\ i' = 0
  /\ lpc' = IF LISTEN \in rset' THEN "accept" ELSE "scan"
  /\ UNCHANGED <<client, net, acks, table, parser, queue, deal>>

(* The next pass writes rset, selectRet and i anew. *)
EndPass == lpc' = "select" /\ rset' = {} /\ selectRet' = 0 /\ i' = 0

(* A plausible bug: the slot behind the one just read is left out. *)
ServedSkips(next) ==
  IF selectRet - 1 <= 0 THEN EndPass
  ELSE lpc' = "scan" /\ selectRet' = selectRet - 1 /\ i' = next + 1 /\ UNCHANGED rset

(* --selectRet <= 0 ends the pass. *)
Served(next) ==
  IF selectRet - 1 <= 0 THEN EndPass
  ELSE lpc' = "scan" /\ selectRet' = selectRet - 1 /\ i' = next /\ UNCHANGED rset

(* EMFILE; continue leaves the clients of this pass unread. *)
AcceptFails ==
  /\ lpc = "accept" /\ Full
  /\ EndPass
  /\ UNCHANGED <<client, net, acks, table, parser, queue, deal>>

(* Where the search of the table for a free slot ends; FD_SETSIZE if there *)
(* is none                                                                 *)
SlotFor(s) == /\ \A j \in Slots : j < s => m_client[j] >= 0
              /\ s < FD_SETSIZE => m_client[s] < 0

(* A plausible bug: a number of slots instead of the last one's. *)
HighestIsCount(s) == IF s >= maxi THEN s + 1 ELSE maxi

(* A plausible bug: only the first client moves it. *)
HighestStays(s) == IF maxi < 0 THEN s ELSE maxi

Highest(s) == IF s > maxi THEN s ELSE maxi

(* A plausible bug: only a client in the first slot is remembered. *)
CurrentFirst(fd, s) == IF s = 0 THEN fd ELSE m_curClientFd

Current(fd, s) == IF s < FD_SETSIZE THEN fd ELSE m_curClientFd

Accept ==
  /\ lpc = "accept" /\ backlog # << >>
  /\ \E fd \in Fds : \E s \in 0..FD_SETSIZE :
       /\ LowestFree(fd) /\ SlotFor(s)
       /\ owner' = [owner EXCEPT ![fd] = Head(backlog)]
       /\ m_client' = IF s < FD_SETSIZE THEN [m_client EXCEPT ![s] = fd] ELSE m_client
       /\ m_curClientFd' = Current(fd, s)
       /\ allset' = allset \cup {fd}
       /\ maxi' = Highest(s)
  /\ newest' = Head(backlog) /\ backlog' = Tail(backlog)
  /\ Served(0)
  /\ UNCHANGED <<client, net, acks, parser, queue, deal>>

(* HandleChunkedRead: what stands before a head goes; two heads are a      *)
(* frame without its tail, and the first is given up.  f is the frame.     *)
Parse(b, fd) ==
  LET heads == {j \in 1..Len(b) : b[j].part = "head"}
      h == CHOOSE j \in heads : \A l \in heads : j <= l
  IN  IF heads = {} THEN [left |-> b, out |-> << >>]
      ELSE IF h = Len(b) THEN [left |-> SubSeq(b, h, h), out |-> << >>]
      ELSE IF b[h + 1].part = "head" THEN [left |-> SubSeq(b, h + 1, Len(b)), out |-> << >>]
      ELSE [left |-> SubSeq(b, h + 2, Len(b)),
            out |-> <<[head |-> b[h].of, tail |-> b[h + 1].of, fd |-> fd]>>]

(* A plausible bug: a frame overtakes those that wait. *)
PushFront(frames) == queue' = frames \o queue

Push(frames) == queue' = queue \o frames

(* recv; OnRecvMsg begins, and appends the whole read. *)
ReadData(s) ==
  /\ lpc = "scan" /\ Due(s)
  /\ LET c == owner[m_client[s]]
     IN  \E n \in 1..ReadMax :
           /\ n <= Len(net[c])
           /\ rest' = SubSeq(net[c], 1, n) /\ buffer' = buffer \o SubSeq(net[c], 1, n)
           /\ net' = [net EXCEPT ![c] = SubSeq(@, n + 1, Len(@))]
           /\ mixed' = (mixed \/ \E j \in 1..Len(buffer) : buffer[j].of[1] # c)
  /\ lpc' = "parse" /\ i' = s
  /\ UNCHANGED <<client, acks, table, rset, selectRet, again, queue, deal>>

Round == Parse(buffer, m_client[i])

(* A frame is complete, and the read was longer than one. *)
MoreThanAFrame == Round.out # << >> /\ Len(rest) > 2

(* The frame goes to MsgQ, and what is behind its length in the read is    *)
(* appended once more.                                                     *)
ParseNext ==
  /\ lpc = "parse" /\ MoreThanAFrame
  /\ Push(Round.out)
  /\ rest' = SubSeq(rest, 3, Len(rest)) /\ buffer' = Round.left \o rest'
  /\ again' = again \cup {owner[m_client[i]]}
  /\ UNCHANGED <<client, net, acks, table, loop, mixed, deal>>

(* OnRecvMsg returns. *)
ParseLast ==
  /\ lpc = "parse" /\ ~MoreThanAFrame
  /\ Push(Round.out)
  /\ rest' = << >> /\ buffer' = Round.left
  /\ Served(i + 1)
  /\ UNCHANGED <<client, net, acks, table, mixed, again, deal>>

(* A plausible bug: the descriptor stays in allset and in the table. *)
CloseOnly(s) ==
  /\ owner' = [owner EXCEPT ![m_client[s]] = Nobody]
  /\ UNCHANGED <<allset, m_client>>

Close(s) ==
  /\ owner' = [owner EXCEPT ![m_client[s]] = Nobody]
  /\ allset' = allset \ {m_client[s]}
  /\ m_client' = [m_client EXCEPT ![s] = -1]

(* recv returns 0, or fails on a connection that was reset, whose data is  *)
(* lost.  The parser keeps what it has.                                    *)
ReadEnd(s) ==
  /\ lpc = "scan" /\ Due(s)
  /\ conn[owner[m_client[s]]] = "left"
  /\ Close(s) /\ Served(s + 1)
  /\ UNCHANGED <<client, net, acks, backlog, m_curClientFd, maxi, newest, parser, queue,
                 deal>>

-----------------------------------------------------------------------------
(* ThreadDeal *)

Fresh == Head(queue).head[2] # preSeq

AckTo(to, number) ==
  acks' = IF to \in Clients /\ conn[to] = "up"
          THEN [acks EXCEPT ![to] = Append(@, number)] ELSE acks

(* A plausible bug: the ack goes where the server's own packets go. *)
AckToCurrent(p) ==
  AckTo(IF m_curClientFd \in Fds THEN owner[m_curClientFd] ELSE Nobody, p.head)

(* XSocketSend to the descriptor the frame was read from, whosever it is   *)
(* by now                                                                  *)
Ack(p) == AckTo(owner[p.fd], p.head)

(* A plausible bug: the number is not remembered. *)
DealRequestForgets ==
  /\ queue # << >> /\ Fresh
  /\ queue' = Tail(queue) /\ preSeq' = preSeq
  /\ Ack(Head(queue)) /\ dealt' = Append(dealt, Head(queue).head)
  /\ UNCHANGED <<client, net, table, loop, parser>>

(* Ack and callback; the callback is not late for anyone here. *)
DealRequest ==
  /\ queue # << >> /\ Fresh
  /\ queue' = Tail(queue) /\ preSeq' = Head(queue).head[2]
  /\ Ack(Head(queue)) /\ dealt' = Append(dealt, Head(queue).head)
  /\ UNCHANGED <<client, net, table, loop, parser>>

(* A plausible bug, or repair: duplicates are acknowledged again. *)
DealDuplicateAck ==
  /\ queue # << >> /\ ~Fresh
  /\ queue' = Tail(queue) /\ Ack(Head(queue))
  /\ UNCHANGED <<client, net, table, loop, parser, deal>>

(* No ack, and no callback. *)
DealDuplicate ==
  /\ queue # << >> /\ ~Fresh
  /\ queue' = Tail(queue)
  /\ UNCHANGED <<client, net, acks, table, loop, parser, deal>>

-----------------------------------------------------------------------------
ThreadListen == \/ Select \/ AcceptFails \/ Accept \/ ParseNext \/ ParseLast
                \/ \E s \in Slots : ReadData(s) \/ ReadEnd(s)
ThreadDeal == DealRequest \/ DealDuplicate

Next == \/ \E c \in Clients : \/ Connect(c) \/ SendData(c) \/ Repeat(c)
                              \/ XSendTimedOut(c) \/ XSendAcked(c)
                              \/ RecvAck(c) \/ SignalAck(c) \/ Leave(c)
        \/ \E fd \in Fds : Open(fd) \/ CloseFile(fd)
        \/ ThreadListen \/ ThreadDeal

Spec == Init /\ [][Next]_vars

(* A thread that can run does; of ThreadDeal and the clients nothing is    *)
(* asked.                                                                  *)
FairSpec == Spec /\ WF_vars(ThreadListen)

-----------------------------------------------------------------------------
Half == [of : Clients \X Nat, part : {"head", "tail"}]
Frame == [head : Clients \X Nat, tail : Clients \X Nat, fd : Fds]

(* Types.  maxi never reaches FD_SETSIZE, which would be no slot. *)
TypeOK ==
  /\ conn \in [Clients -> {"out", "up", "left"}]
  /\ iSeq \in [Clients -> Nat] /\ count \in [Clients -> Nat]
  /\ \A c \in Clients : count[c] <= REPEAT_SEND_TIMES[c]
  /\ pc \in [Clients -> {"idle", "wait", "woken", "timedout"}]
  /\ hit \in [Clients -> BOOLEAN] /\ done \in [Clients -> Nat]
  /\ net \in [Clients -> Seq(Half)] /\ acks \in [Clients -> Seq(Clients \X Nat)]
  /\ backlog \in Seq(Clients) /\ newest \in Clients \cup {Nobody}
  /\ owner \in [Fds -> Clients \cup {Nobody, Application}] /\ m_client \in [Slots -> Fds \cup {-1}]
  /\ m_curClientFd \in Fds \cup {-1} /\ allset \subseteq {LISTEN} \cup Fds
  /\ rset \subseteq {LISTEN} \cup Fds /\ selectRet \in Int /\ i \in Nat
  /\ maxi \in -1..FD_SETSIZE - 1 /\ lpc \in {"select", "accept", "scan", "parse"}
  /\ buffer \in Seq(Half) /\ rest \in Seq(Half)
  /\ mixed \in BOOLEAN /\ again \subseteq Clients
  /\ queue \in Seq(Frame) /\ preSeq \in Nat /\ dealt \in Seq(Clients \X Nat)

(* An open connection is in select's set and in just one slot, one the     *)
(* scan reaches; every connection accepted finds room in the table.        *)
TableIsExact ==
  /\ \A fd \in Fds : /\ owner[fd] \in Clients <=> fd \in allset
                     /\ owner[fd] \in Clients => \E s \in 0..maxi : m_client[s] = fd
  /\ \A s \in Slots : m_client[s] # -1 =>
       /\ owner[m_client[s]] \in Clients
       /\ \A t \in Slots : m_client[t] = m_client[s] => t = s

(* The pass and its counter agree: what select found ready is just what    *)
(* the rest of the scan finds, so nobody ready waits for another pass.     *)
NobodyPassedOver ==
  lpc = "scan" => selectRet = Cardinality({s \in i..maxi : m_client[s] \in rset})

(* What the server sends goes to no other client than the newest, though   *)
(* m_curClientFd is not cleared when that client closes, and is any number *)
(* before the first accept.  It may go to nobody, or into a file of the    *)
(* application's.                                                          *)
CurIsNewest ==
  m_curClientFd \in Fds => owner[m_curClientFd] \in {newest, Nobody, Application}

(* An ack reaches another client than the one that sent the packet only if *)
(* bytes of two clients met in the parser, or the sender had left and its  *)
(* descriptor was taken again.                                             *)
AckGoesHome ==
  \A c \in Clients : \A k \in 1..Len(acks[c]) :
    LET of == acks[c][k][1] IN of = c \/ mixed \/ conn[of] = "left"

(* The packets of a client that reached the callback *)
DealtOf(c) == {d \in 1..Len(dealt) : dealt[d][1] = c}

(* Of a client's calls no more return 0 than packets of it reached the     *)
(* callback, be an ack late, and its signal for another call (then it is   *)
(* the wrong one that returns 0); unless acks were another client's in one *)
(* of the two ways above.                                                  *)
SuccessesAreDealt ==
  mixed \/ (\E c \in Clients : conn[c] = "left") \/
  \A c \in Clients : done[c] <= Cardinality(DealtOf(c))

(* The callbacks of a client never go back to an earlier packet, unless a  *)
(* read of its own, longer than a frame, was appended twice; what the      *)
(* other clients' reads were does not matter.                              *)
CallbacksInOrder ==
  \A d, e \in 1..Len(dealt) :
    d < e /\ dealt[d][1] = dealt[e][1] /\ dealt[d][1] \notin again
      => dealt[d][2] <= dealt[e][2]

(* A packet reaches the callback again only if another client's came in    *)
(* between and took the one preSeq, or a read of its client was appended   *)
(* twice.                                                                  *)
RepeatsNeedAnotherClient ==
  \A d, e \in 1..Len(dealt) :
    d < e /\ dealt[d] = dealt[e] /\ dealt[d][1] \notin again
      => \E m \in d + 1..e - 1 : dealt[m][1] # dealt[d][1]

(* What an accepted client has written is read, unless the process is out  *)
(* of descriptors while another connection waits: accept then fails in     *)
(* every pass, and nobody is read.                                         *)
Unread(c) == net[c] # << >> /\ \E fd \in Fds : owner[fd] = c
EveryClientServed ==
  \A c \in Clients : Unread(c) ~> ~Unread(c) \/ (Full /\ backlog # << >>)
=============================================================================
