------------------------- MODULE ServerClientsProofs -------------------------
(***************************************************************************)
(* The server's table and the way of a packet through it, for any number   *)
(* of clients, calls and attempts and any number of descriptors up to      *)
(* FD_SETSIZE.                                                             *)
(***************************************************************************)
EXTENDS ServerClients, SequenceTheorems, FiniteSetTheorems, FunctionTheorems,
        WellFoundedInduction, TLAPS

(* An open connection is in one slot below maxi, and a slot that is taken  *)
(* is one of an open connection.                                           *)
TableInv ==
  /\ \A fd \in Fds : owner[fd] \in Clients <=> fd \in allset
  /\ \A fd \in Fds : owner[fd] \in Clients => \E s \in Slots : m_client[s] = fd
  /\ \A s \in Slots : m_client[s] # -1 => s <= maxi /\ owner[m_client[s]] \in Clients
  /\ \A s, t \in Slots : m_client[s] # -1 /\ m_client[s] = m_client[t] => s = t

(* What is left of the pass: before the accept, the whole of rset; in the  *)
(* scan, and in the read it stands at, what the slots from i on hold of it. *)
LoopInv ==
  /\ lpc = "accept" => /\ LISTEN \in rset /\ rset \subseteq allset /\ i = 0
                       /\ selectRet = Cardinality(rset)
  /\ lpc = "parse" => /\ i \in Slots /\ i \in 0..maxi /\ m_client[i] \in rset
                      /\ selectRet = Cardinality({s \in i..maxi : m_client[s] \in rset})
  /\ NobodyPassedOver

(* The client whose read is being parsed: what is left of the read is its, *)
(* and so is the buffer unless bytes of two have met.                      *)
ReaderInv ==
  lpc = "parse" =>
    /\ m_client[i] \in Fds /\ owner[m_client[i]] \in Clients
    /\ \A j \in 1..Len(rest) : rest[j].of[1] = owner[m_client[i]]
    /\ mixed \/ \A j \in 1..Len(buffer) : buffer[j].of[1] = owner[m_client[i]]

(* Before: a packet, and one that may only be behind it in the stream of a *)
(* client; of the clients in g nothing is said.                            *)
Before(g, a, b) == a[1] = b[1] => a[1] \in g \/ a[2] <= b[2]

(* The stages a packet passes: net, buffer, queue, dealt.  In each its     *)
(* number is one the client has given, and what is further on is not       *)
(* younger.                                                                *)
NumberInv ==
  /\ \A c \in Clients : \A j \in 1..Len(net[c]) :
       net[c][j].of[1] = c /\ net[c][j].of[2] <= iSeq[c]
  /\ \A j \in 1..Len(buffer) : buffer[j].of[2] <= iSeq[buffer[j].of[1]]
  /\ \A j \in 1..Len(rest) : rest[j].of[2] <= iSeq[rest[j].of[1]]
  /\ \A j \in 1..Len(queue) : queue[j].head[2] <= iSeq[queue[j].head[1]]
  /\ \A j \in 1..Len(dealt) : dealt[j][2] <= iSeq[dealt[j][1]]

NetOrder ==
  \A c \in Clients : \A j, k \in 1..Len(net[c]) :
    j < k => Before(again, net[c][j].of, net[c][k].of)

BufferOrder ==
  /\ \A j, k \in 1..Len(buffer) : j < k => Before(again, buffer[j].of, buffer[k].of)
  /\ \A j \in 1..Len(buffer) : \A c \in Clients : \A k \in 1..Len(net[c]) :
       Before(again, buffer[j].of, net[c][k].of)

QueueOrder ==
  /\ \A j, k \in 1..Len(queue) : j < k => Before(again, queue[j].head, queue[k].head)
  /\ \A j \in 1..Len(queue) : \A k \in 1..Len(buffer) : Before(again, queue[j].head, buffer[k].of)
  /\ \A j \in 1..Len(queue) : \A c \in Clients : \A k \in 1..Len(net[c]) :
       Before(again, queue[j].head, net[c][k].of)

DealtOrder ==
  /\ \A j, k \in 1..Len(dealt) : j < k => Before(again, dealt[j], dealt[k])
  /\ \A j \in 1..Len(dealt) : \A k \in 1..Len(queue) : Before(again, dealt[j], queue[k].head)
  /\ \A j \in 1..Len(dealt) : \A k \in 1..Len(buffer) : Before(again, dealt[j], buffer[k].of)
  /\ \A j \in 1..Len(dealt) : \A c \in Clients : \A k \in 1..Len(net[c]) :
       Before(again, dealt[j], net[c][k].of)

(* A frame that waits leads back to the client that sent it.               *)
HomeInv ==
  \A j \in 1..Len(queue) :
    \/ mixed \/ conn[queue[j].head[1]] = "left"
    \/ owner[queue[j].fd] = queue[j].head[1]

(* The callbacks of a client's packets pay for its successes, the wakeup   *)
(* and the signal under way, and the acks that have not reached it.        *)
Claims(c) == done[c] + (IF pc[c] = "woken" THEN 1 ELSE 0) + (IF hit[c] THEN 1 ELSE 0)
             + Len(acks[c])

ClaimsInv ==
  mixed \/ (\E c \in Clients : conn[c] = "left") \/
  \A c \in Clients : Claims(c) <= Cardinality(DealtOf(c))

SeqInv == dealt # << >> => preSeq = dealt[Len(dealt)][2]

IInv ==
  /\ TypeOK /\ TableInv /\ LoopInv /\ ReaderInv /\ CurIsNewest
  /\ NumberInv /\ NetOrder /\ BufferOrder /\ QueueOrder /\ DealtOrder
  /\ HomeInv /\ AckGoesHome /\ ClaimsInv /\ SeqInv /\ RepeatsNeedAnotherClient

-----------------------------------------------------------------------------
LEMMA Constants ==
  /\ NOFILE \in Nat \ {0} /\ FD_SETSIZE \in Nat \ {0} /\ NOFILE <= FD_SETSIZE
  /\ Nobody \notin Clients /\ Application \notin Clients /\ Application # Nobody
  /\ LISTEN \notin Fds /\ -1 \notin Fds /\ LISTEN # -1
  /\ REPEAT_SEND_TIMES \in [Clients -> Nat \ {0}]
  /\ ReadMax \in Nat
  /\ Fds \subseteq Nat /\ Slots \subseteq Nat
BY ServerAssumption DEF Fds, Slots, LISTEN

(* A nonempty set of numbers has a least one. *)
LEMMA Least ==
  ASSUME NEW T \in SUBSET Nat, T # {}
  PROVE  \E x \in T : \A y \in T : x <= y
<1>1. IsWellFoundedOn(OpToRel(<, Nat), Nat)
  BY NatLessThanWellFounded
<1>2. \A x, y \in Nat : y < x => <<y, x>> \in OpToRel(<, Nat)
  BY DEF OpToRel
<1>3. PICK x \in T : \A y \in T : ~ (<<y, x>> \in OpToRel(<, Nat))
  BY <1>1, WFMin
<1>4. ASSUME NEW y \in T PROVE x <= y
  <2>1. x \in Nat /\ y \in Nat
    OBVIOUS
  <2>2. ~ (y < x)
    BY <1>2, <1>3, <2>1
  <2> QED
    BY <2>1, <2>2
<1> QED
  BY <1>4

(* What is taken from the front of a sequence, and what stays *)
LEMMA Split ==
  ASSUME NEW S, NEW s \in Seq(S), NEW n \in 0..Len(s)
  PROVE  /\ SubSeq(s, 1, n) \in Seq(S) /\ Len(SubSeq(s, 1, n)) = n
         /\ \A j \in 1..n : SubSeq(s, 1, n)[j] = s[j]
         /\ SubSeq(s, n + 1, Len(s)) \in Seq(S) /\ Len(SubSeq(s, n + 1, Len(s))) = Len(s) - n
         /\ \A j \in 1..Len(s) - n : SubSeq(s, n + 1, Len(s))[j] = s[n + j]
<1>1. Len(s) \in Nat /\ \A j \in 1..Len(s) : s[j] \in S
  BY LenProperties, ElementOfSeq
<1>2. n \in Nat /\ n <= Len(s)
  BY <1>1
<1>3. \A j \in 1..n : s[j] \in S
  BY <1>1, <1>2
<1>4. /\ SubSeq(s, 1, n) \in Seq(S) /\ Len(SubSeq(s, 1, n)) = n
      /\ \A j \in 1..n : SubSeq(s, 1, n)[j] = s[j]
  BY <1>2, <1>3, SubSeqProperties
<1>5. \A j \in n + 1..Len(s) : s[j] \in S
  BY <1>1, <1>2
<1>6. /\ SubSeq(s, n + 1, Len(s)) \in Seq(S) /\ Len(SubSeq(s, n + 1, Len(s))) = Len(s) - n
      /\ \A j \in 1..Len(s) - n : SubSeq(s, n + 1, Len(s))[j] = s[n + j]
  BY <1>1, <1>2, <1>5, SubSeqProperties
<1> QED
  BY <1>4, <1>6

(* HandleChunkedRead leaves an end of the buffer and gives at most one     *)
(* frame, of halves in front of it.                                        *)
LEMMA Parsed ==
  ASSUME NEW b \in Seq(Half), NEW fd \in Fds
  PROVE  \E a \in 0..Len(b) :
           /\ Parse(b, fd).left = SubSeq(b, a + 1, Len(b))
           /\ \/ Parse(b, fd).out = << >>
              \/ \E h \in 1..a : /\ h + 1 \in 1..Len(b)
                                 /\ Parse(b, fd).out = <<[head |-> b[h].of, tail |-> b[h + 1].of, fd |-> fd]>>
<1> DEFINE heads == {j \in 1..Len(b) : b[j].part = "head"}
           h == CHOOSE j \in heads : \A l \in heads : j <= l
<1>1. Len(b) \in Nat
  BY LenProperties
<1>2. CASE heads = {}
  <2>1. Parse(b, fd) = [left |-> b, out |-> << >>]
    BY <1>2 DEF Parse
  <2>2. 0 \in 0..Len(b) /\ SubSeq(b, 0 + 1, Len(b)) = b
    <3>1. /\ SubSeq(b, 0 + 1, Len(b)) \in Seq(Half) /\ Len(SubSeq(b, 0 + 1, Len(b))) = Len(b) - 0
          /\ \A j \in 1..Len(b) - 0 : SubSeq(b, 0 + 1, Len(b))[j] = b[0 + j]
      BY <1>1, Split
    <3>2. \A j \in 1..Len(b) : SubSeq(b, 0 + 1, Len(b))[j] = b[j]
      BY <1>1, <3>1
    <3> QED
      BY <1>1, <3>1, <3>2, SeqEqual
  <2> QED
    BY <2>1, <2>2
<1>3. CASE heads # {}
  <2>1. heads \in SUBSET Nat
    BY <1>1
  <2>2. \E j \in heads : \A l \in heads : j <= l
    BY <1>3, <2>1, Least
  <2>3. h \in heads
    BY <2>2
  <2>4. h \in 1..Len(b)
    BY <2>3
  <2> HIDE DEF h
  <2>5. Parse(b, fd) =
          IF h = Len(b) THEN [left |-> SubSeq(b, h, h), out |-> << >>]
          ELSE IF b[h + 1].part = "head" THEN [left |-> SubSeq(b, h + 1, Len(b)), out |-> << >>]
          ELSE [left |-> SubSeq(b, h + 2, Len(b)),
                out |-> <<[head |-> b[h].of, tail |-> b[h + 1].of, fd |-> fd]>>]
    BY <1>3 DEF Parse, h
  <2>6. CASE h = Len(b)
    <3>1. h - 1 \in 0..Len(b) /\ (h - 1) + 1 = h
      BY <1>1, <2>4
    <3>2. Parse(b, fd).left = SubSeq(b, (h - 1) + 1, Len(b)) /\ Parse(b, fd).out = << >>
      BY <2>5, <2>6, <3>1
    <3> QED
      BY <3>1, <3>2
  <2>7. CASE h # Len(b) /\ b[h + 1].part = "head"
    <3>1. h \in 0..Len(b)
      BY <1>1, <2>4
    <3>2. Parse(b, fd) = [left |-> SubSeq(b, h + 1, Len(b)), out |-> << >>]
      BY <2>5, <2>7, Zenon
    <3> QED
      BY <3>1, <3>2
  <2>8. CASE h # Len(b) /\ b[h + 1].part # "head"
    <3>1. h + 1 \in 0..Len(b) /\ h \in 1..h + 1 /\ h + 1 \in 1..Len(b) /\ (h + 1) + 1 = h + 2
      BY <1>1, <2>4, <2>8
    <3> DEFINE l == SubSeq(b, h + 2, Len(b))
               o == <<[head |-> b[h].of, tail |-> b[h + 1].of, fd |-> fd]>>
    <3>2. Parse(b, fd) = [left |-> l, out |-> o]
      BY <2>5, <2>8, Zenon
    <3>3. l = SubSeq(b, (h + 1) + 1, Len(b))
      BY <3>1
    <3>4. o = <<[head |-> b[h].of, tail |-> b[h + 1].of, fd |-> fd]>>
      OBVIOUS
    <3> HIDE DEF l, o
    <3>5. Parse(b, fd).left = l /\ Parse(b, fd).out = o
      BY <3>2
    <3> QED
      BY <3>1, <3>3, <3>4, <3>5
  <2> QED
    BY <2>6, <2>7, <2>8
<1> QED
  BY <1>2, <1>3

-----------------------------------------------------------------------------
(* A free descriptor leaves room in the table: every slot taken is another *)
(* descriptor's, and there are no more of these than slots.                *)
LEMMA RoomInTable ==
  ASSUME TypeOK, TableInv, NEW fd \in Fds, owner[fd] = Nobody,
         NEW s \in 0..FD_SETSIZE, SlotFor(s)
  PROVE  s \in Slots /\ m_client[s] = -1
<1>1. m_client \in [Slots -> Fds \cup {-1}]
  BY DEF TypeOK
<1>2. CASE s = FD_SETSIZE
  <2>1. \A j \in Slots : m_client[j] \in Fds \ {fd}
    <3> SUFFICES ASSUME NEW j \in Slots PROVE m_client[j] \in Fds \ {fd}
      OBVIOUS
    <3>1. m_client[j] >= 0
      BY <1>2, Constants DEF SlotFor, Slots
    <3>2. m_client[j] \in Fds \cup {-1} /\ m_client[j] # -1
      BY <1>1, <3>1
    <3>3. owner[m_client[j]] \in Clients
      BY <3>2 DEF TableInv
    <3> QED
      BY <3>2, <3>3, Constants
  <2>2. m_client \in [Slots -> Fds \ {fd}]
    BY <1>1, <2>1
  <2>3. IsFiniteSet(Slots) /\ Cardinality(Slots) = FD_SETSIZE
    <3>1. 0 \in Int /\ FD_SETSIZE - 1 \in Int /\ ~(0 > FD_SETSIZE - 1)
          /\ (FD_SETSIZE - 1) - 0 + 1 = FD_SETSIZE
      BY Constants
    <3> QED
      BY <3>1, FS_Interval DEF Slots
  <2>4. IsFiniteSet(Fds) /\ Cardinality(Fds) = NOFILE
    <3>1. 1 \in Int /\ NOFILE \in Int /\ ~(1 > NOFILE) /\ NOFILE - 1 + 1 = NOFILE
      BY Constants
    <3> QED
      BY <3>1, FS_Interval DEF Fds
  <2>5. IsFiniteSet(Fds \ {fd}) /\ Cardinality(Fds \ {fd}) = NOFILE - 1
    BY <2>4, FS_RemoveElement
  <2>6. Cardinality(Fds \ {fd}) < Cardinality(Slots)
    BY <2>3, <2>5, Constants
  <2>7. \E x, y \in Slots : x # y /\ m_client[x] = m_client[y]
    BY <2>2, <2>3, <2>5, <2>6, FS_PigeonHole
  <2>8. \A x \in Slots : m_client[x] # -1
    BY <2>1, Constants
  <2> QED
    BY <2>7, <2>8 DEF TableInv
<1>3. CASE s # FD_SETSIZE
  <2>1. s \in Slots /\ s < FD_SETSIZE
    BY <1>3, Constants DEF Slots
  <2>2. m_client[s] < 0
    BY <2>1 DEF SlotFor
  <2>3. m_client[s] \in Fds \cup {-1}
    BY <1>1, <2>1
  <2>4. m_client[s] \notin Nat
    BY <2>2
  <2> QED
    BY <2>1, <2>3, <2>4, Constants
<1> QED
  BY <1>2, <1>3

(* The accept *)
LEMMA AcceptShape ==
  ASSUME TypeOK, TableInv, Accept
  PROVE  \E fd \in Fds, s \in Slots, c \in Clients :
           /\ owner[fd] = Nobody /\ m_client[s] = -1 /\ lpc = "accept"
           /\ owner' = [owner EXCEPT ![fd] = c]
           /\ m_client' = [m_client EXCEPT ![s] = fd]
           /\ m_curClientFd' = fd /\ allset' = allset \cup {fd}
           /\ maxi' = Highest(s) /\ newest' = c /\ backlog' \in Seq(Clients)
           /\ Served(0)
<1>1. PICK fd \in Fds, s \in 0..FD_SETSIZE :
        /\ LowestFree(fd) /\ SlotFor(s)
        /\ owner' = [owner EXCEPT ![fd] = Head(backlog)]
        /\ m_client' = IF s < FD_SETSIZE THEN [m_client EXCEPT ![s] = fd] ELSE m_client
        /\ m_curClientFd' = Current(fd, s)
        /\ allset' = allset \cup {fd}
        /\ maxi' = Highest(s)
  BY DEF Accept
<1>2. owner[fd] = Nobody
  BY <1>1 DEF LowestFree
<1>3. s \in Slots /\ m_client[s] = -1
  BY <1>1, <1>2, RoomInTable
<1>4. s < FD_SETSIZE
  BY <1>3, Constants DEF Slots
<1>5. m_client' = [m_client EXCEPT ![s] = fd] /\ m_curClientFd' = fd
  BY <1>1, <1>4 DEF Current
<1>6. /\ lpc = "accept" /\ backlog # << >> /\ newest' = Head(backlog)
      /\ backlog' = Tail(backlog) /\ Served(0)
  BY DEF Accept
<1>7. backlog \in Seq(Clients)
  BY DEF TypeOK
<1>8. Head(backlog) \in Clients /\ Tail(backlog) \in Seq(Clients)
  BY <1>6, <1>7, HeadTailProperties
<1> QED
  BY <1>1, <1>2, <1>3, <1>5, <1>6, <1>8

(* The slot the scan stands at is of an open connection. *)
LEMMA DueShape ==
  ASSUME TypeOK, TableInv, NEW s \in Slots, Due(s)
  PROVE  /\ m_client[s] \in Fds /\ m_client[s] \in rset /\ owner[m_client[s]] \in Clients
         /\ s \in i..maxi
<1>1. m_client[s] \in rset /\ s \in i..maxi
  BY DEF Due
<1>2. rset \subseteq {LISTEN} \cup Fds /\ m_client[s] \in Fds \cup {-1}
      /\ owner \in [Fds -> Clients \cup {Nobody, Application}]
  BY DEF TypeOK
<1>3. m_client[s] \in Fds
  BY <1>1, <1>2, Constants
<1>4. m_client[s] # -1
  BY <1>3, Constants
<1>5. owner[m_client[s]] \in Clients
  BY <1>4 DEF TableInv
<1> QED
  BY <1>1, <1>3, <1>5

(* A read: n halves of client c come behind the buffer. *)
LEMMA ReadShape ==
  ASSUME TypeOK, TableInv, NEW s \in Slots, ReadData(s)
  PROVE  \E c \in Clients, n \in Nat :
           /\ n \in 0..Len(net[c]) /\ m_client[s] \in Fds /\ owner[m_client[s]] = c
           /\ rest' = SubSeq(net[c], 1, n) /\ buffer' = buffer \o SubSeq(net[c], 1, n)
           /\ net' = [net EXCEPT ![c] = SubSeq(@, n + 1, Len(@))]
           /\ mixed' = (mixed \/ \E j \in 1..Len(buffer) : buffer[j].of[1] # c)
<1>1. Due(s)
  BY DEF ReadData
<1> DEFINE fd == m_client[s]
           c == owner[fd]
<1>2. fd \in Fds /\ c \in Clients
  BY <1>1, DueShape
<1>3. PICK n \in 1..ReadMax :
        /\ n <= Len(net[c])
        /\ rest' = SubSeq(net[c], 1, n) /\ buffer' = buffer \o SubSeq(net[c], 1, n)
        /\ net' = [net EXCEPT ![c] = SubSeq(@, n + 1, Len(@))]
        /\ mixed' = (mixed \/ \E j \in 1..Len(buffer) : buffer[j].of[1] # c)
  BY DEF ReadData
<1>4. net[c] \in Seq(Half)
  BY <1>2 DEF TypeOK
<1>5. n \in Nat /\ n \in 0..Len(net[c])
  BY <1>3, <1>4, LenProperties, Constants
<1> QED
  BY <1>2, <1>3, <1>5

(* A round of OnRecvMsg: a halves of the buffer go, with them, perhaps, a  *)
(* frame that begins at the h-th; and what is left of the read comes       *)
(* behind, if the round is not the last.                                   *)
LEMMA ParseShape ==
  ASSUME TypeOK, lpc = "parse", m_client[i] \in Fds, ParseNext \/ ParseLast
  PROVE  \E a \in 0..Len(buffer), t \in Seq(Half) :
           /\ buffer' = SubSeq(buffer, a + 1, Len(buffer)) \o t
           /\ rest' = t
           /\ \/ ParseLast /\ t = << >> /\ again' = again
              \/ /\ ParseNext /\ Len(rest) > 2 /\ t = SubSeq(rest, 3, Len(rest))
                 /\ again' = again \cup {owner[m_client[i]]}
           /\ \/ queue' = queue
              \/ \E h \in 1..a : \E f \in Frame :
                   /\ f.head = buffer[h].of /\ f.fd = m_client[i]
                   /\ queue' = Append(queue, f)
<1> DEFINE fd == m_client[i]
           b == buffer
<1>1. b \in Seq(Half) /\ queue \in Seq(Frame) /\ rest \in Seq(Half)
  BY DEF TypeOK
<1>2. fd \in Fds
  OBVIOUS
<1>3. Round = Parse(b, fd) /\ queue' = queue \o Parse(b, fd).out
  BY DEF Round, ParseNext, ParseLast, Push
<1>4. \/ ParseLast /\ buffer' = Parse(b, fd).left /\ rest' = << >> /\ again' = again
      \/ /\ ParseNext /\ Len(rest) > 2 /\ rest' = SubSeq(rest, 3, Len(rest))
         /\ buffer' = Parse(b, fd).left \o rest'
         /\ again' = again \cup {owner[m_client[i]]}
  BY <1>3 DEF ParseNext, ParseLast, MoreThanAFrame
<1>5. PICK a \in 0..Len(b) :
        /\ Parse(b, fd).left = SubSeq(b, a + 1, Len(b))
        /\ \/ Parse(b, fd).out = << >>
           \/ \E h \in 1..a : /\ h + 1 \in 1..Len(b)
                              /\ Parse(b, fd).out = <<[head |-> b[h].of, tail |-> b[h + 1].of, fd |-> fd]>>
  BY <1>1, <1>2, Parsed
<1> HIDE DEF fd
<1>6. \/ queue' = queue
      \/ \E h \in 1..a : \E f \in Frame :
           /\ f.head = b[h].of /\ f.fd = fd
           /\ queue' = Append(queue, f)
  <2>1. CASE Parse(b, fd).out = << >>
    BY <1>1, <1>3, <2>1, ConcatEmptySeq
  <2>2. ASSUME NEW h \in 1..a, h + 1 \in 1..Len(b),
               Parse(b, fd).out = <<[head |-> b[h].of, tail |-> b[h + 1].of, fd |-> fd]>>
        PROVE  \E f \in Frame :
                 /\ f.head = b[h].of /\ f.fd = fd
                 /\ queue' = Append(queue, f)
    <3> DEFINE f == [head |-> b[h].of, tail |-> b[h + 1].of, fd |-> fd]
    <3>1. h \in 1..Len(b) /\ Len(b) \in Nat
      BY <1>1, <2>2, LenProperties
    <3>2. b[h] \in Half /\ b[h + 1] \in Half
      BY <1>1, <2>2, <3>1, ElementOfSeq
    <3>3. f \in Frame /\ f.head = b[h].of /\ f.fd = fd
      BY <1>2, <3>2 DEF Half, Frame
    <3>4. queue' = queue \o <<f>>
      BY <1>3, <2>2
    <3> HIDE DEF f
    <3>5. queue' = Append(queue, f)
      BY <1>1, <3>3, <3>4, AppendIsConcat
    <3> QED
      BY <3>3, <3>5
  <2> QED
    BY <1>5, <2>1, <2>2
<1> DEFINE l == SubSeq(b, a + 1, Len(b))
<1>7. l \in Seq(Half) /\ << >> \in Seq(Half) /\ l \o << >> = l
  BY <1>1, Split, ConcatEmptySeq, EmptySeq
<1>8. CASE ParseLast /\ buffer' = Parse(b, fd).left /\ rest' = << >> /\ again' = again
  <2>1. buffer' = l \o << >>
    BY <1>5, <1>7, <1>8
  <2> QED
    BY <1>6, <1>7, <1>8, <2>1 DEF fd
<1>9. CASE /\ ParseNext /\ Len(rest) > 2 /\ rest' = SubSeq(rest, 3, Len(rest))
           /\ buffer' = Parse(b, fd).left \o rest'
           /\ again' = again \cup {owner[m_client[i]]}
  <2>1. 2 \in 0..Len(rest) /\ 2 + 1 = 3
    BY <1>1, <1>9, LenProperties
  <2>2. SubSeq(rest, 2 + 1, Len(rest)) \in Seq(Half)
    BY <1>1, <2>1, Split
  <2>3. rest' \in Seq(Half)
    BY <1>9, <2>1, <2>2
  <2>4. buffer' = l \o rest'
    BY <1>5, <1>9
  <2> QED
    BY <1>6, <1>9, <2>3, <2>4 DEF fd
<1> QED
  BY <1>4, <1>8, <1>9

-----------------------------------------------------------------------------
(* TypeOK by the actors it is about *)
ClientTypes ==
  /\ conn \in [Clients -> {"out", "up", "left"}]
  /\ iSeq \in [Clients -> Nat] /\ count \in [Clients -> Nat]
  /\ \A c \in Clients : count[c] <= REPEAT_SEND_TIMES[c]
  /\ pc \in [Clients -> {"idle", "wait", "woken", "timedout"}]
  /\ hit \in [Clients -> BOOLEAN] /\ done \in [Clients -> Nat]
WireTypes == net \in [Clients -> Seq(Half)] /\ acks \in [Clients -> Seq(Clients \X Nat)]
TableTypes ==
  /\ backlog \in Seq(Clients) /\ newest \in Clients \cup {Nobody}
  /\ owner \in [Fds -> Clients \cup {Nobody, Application}] /\ m_client \in [Slots -> Fds \cup {-1}]
  /\ m_curClientFd \in Fds \cup {-1} /\ allset \subseteq {LISTEN} \cup Fds
  /\ maxi \in -1..FD_SETSIZE - 1
LoopTypes ==
  /\ rset \subseteq {LISTEN} \cup Fds /\ selectRet \in Int /\ i \in Nat
  /\ lpc \in {"select", "accept", "scan", "parse"}
ParserTypes ==
  /\ buffer \in Seq(Half) /\ rest \in Seq(Half)
  /\ mixed \in BOOLEAN /\ again \subseteq Clients
PacketTypes == queue \in Seq(Frame) /\ preSeq \in Nat /\ dealt \in Seq(Clients \X Nat)

-----------------------------------------------------------------------------
LEMMA InitIInv == Init => IInv
<1> SUFFICES ASSUME Init PROVE IInv
  OBVIOUS
<1>1. TypeOK
  <2>1. /\ \A S : << >> \in Seq(S)
        /\ Cardinality({}) = 0
    BY EmptySeq, FS_EmptySet
  <2>2. -1 \in -1..FD_SETSIZE - 1
    BY Constants
  <2>3. ClientTypes /\ WireTypes
    BY <2>1, Constants DEF Init, ClientTypes, WireTypes
  <2>4. TableTypes
    BY <2>1, <2>2, Constants DEF Init, TableTypes
  <2>5. LoopTypes /\ ParserTypes /\ PacketTypes
    <3>1. << >> \in Seq(Half) /\ << >> \in Seq(Frame) /\ << >> \in Seq(Clients \X Nat)
      BY <2>1
    <3>2. PacketTypes /\ ParserTypes
      BY <3>1 DEF Init, PacketTypes, ParserTypes
    <3>3. LoopTypes
      BY DEF Init, LoopTypes
    <3> QED
      BY <3>2, <3>3
  <2> QED
    BY <2>3, <2>4, <2>5
    DEF TypeOK, ClientTypes, WireTypes, TableTypes, LoopTypes, ParserTypes, PacketTypes
<1>2. TableInv /\ LoopInv /\ ReaderInv /\ CurIsNewest
  BY Constants DEF Init, TableInv, LoopInv, ReaderInv, NobodyPassedOver, CurIsNewest
<1>3. \A c \in Clients : net[c] = << >> /\ acks[c] = << >>
  BY DEF Init
<1>4. buffer = << >> /\ rest = << >> /\ queue = << >> /\ dealt = << >> /\ Len(<< >>) = 0
  BY EmptySeq DEF Init
<1>5. NumberInv /\ NetOrder /\ BufferOrder /\ QueueOrder /\ DealtOrder
  BY <1>3, <1>4 DEF NumberInv, NetOrder, BufferOrder, QueueOrder, DealtOrder
<1>6. HomeInv /\ AckGoesHome /\ SeqInv /\ RepeatsNeedAnotherClient
  BY <1>3, <1>4 DEF HomeInv, AckGoesHome, SeqInv, RepeatsNeedAnotherClient
<1>7. ClaimsInv
  <2>1. ASSUME NEW c \in Clients PROVE Claims(c) = 0 /\ Cardinality(DealtOf(c)) = 0
    <3>1. done[c] = 0 /\ pc[c] = "idle" /\ hit[c] = FALSE /\ Len(acks[c]) = 0
      BY <1>3, <1>4 DEF Init
    <3>2. DealtOf(c) = {}
      BY <1>4 DEF DealtOf
    <3> QED
      BY <3>1, <3>2, FS_EmptySet DEF Claims
  <2> QED
    BY <2>1 DEF ClaimsInv
<1> QED
  BY <1>1, <1>2, <1>5, <1>6, <1>7 DEF IInv

(* Which steps touch what. *)
LEMMA Effects ==
  ASSUME [Next]_vars
  PROVE  /\ \/ UNCHANGED <<owner, m_client, allset, maxi, m_curClientFd, newest>>
            \/ Accept \/ \E s \in Slots : ReadEnd(s)
            \/ \E fd \in Fds : Open(fd) \/ CloseFile(fd)
         /\ UNCHANGED <<lpc, rset, selectRet, i>> \/ ThreadListen
         /\ \/ UNCHANGED <<iSeq, net>>
            \/ \E c \in Clients : SendData(c) \/ Repeat(c)
            \/ \E s \in Slots : ReadData(s)
         /\ \/ UNCHANGED <<buffer, rest, mixed, again>>
            \/ ParseNext \/ ParseLast \/ \E s \in Slots : ReadData(s)
         /\ UNCHANGED queue \/ DealRequest \/ DealDuplicate \/ ParseNext \/ ParseLast
         /\ UNCHANGED acks \/ DealRequest \/ \E c \in Clients : RecvAck(c) \/ Leave(c)
         /\ UNCHANGED <<preSeq, dealt>> \/ DealRequest
         /\ UNCHANGED conn \/ \E c \in Clients : Connect(c) \/ Leave(c)
         /\ \/ UNCHANGED <<done, pc, hit>>
            \/ \E c \in Clients : \/ SendData(c) \/ Repeat(c) \/ XSendTimedOut(c)
                                   \/ XSendAcked(c) \/ RecvAck(c) \/ SignalAck(c) \/ Leave(c)
<1>1. ASSUME NEW c \in Clients, Connect(c)
      PROVE  UNCHANGED <<owner, m_client, allset, maxi, m_curClientFd, newest, loop, call, net,
                         acks, parser, queue, deal>>
  BY <1>1 DEF Connect
<1>2. ASSUME NEW c \in Clients, SendData(c) \/ Repeat(c)
      PROVE  UNCHANGED <<table, loop, parser, queue, acks, deal, conn>>
  BY <1>2 DEF SendData, Repeat, Attempt
<1>3. ASSUME NEW c \in Clients,
             XSendTimedOut(c) \/ XSendAcked(c) \/ SignalAck(c) \/ RecvAck(c) \/ Leave(c)
      PROVE  /\ UNCHANGED <<table, loop, iSeq, net, parser, queue, deal>>
             /\ UNCHANGED acks \/ RecvAck(c) \/ Leave(c)
             /\ UNCHANGED conn \/ Leave(c)
  BY <1>3 DEF XSendTimedOut, XSendAcked, SignalAck, RecvAck, Leave
<1>4. ASSUME Select \/ AcceptFails
      PROVE  UNCHANGED <<client, table, net, parser, queue, acks, deal>>
  BY <1>4 DEF Select, AcceptFails
<1>5. ASSUME Accept PROVE UNCHANGED <<client, net, parser, queue, acks, deal>>
  BY <1>5 DEF Accept
<1>6. ASSUME NEW s \in Slots, ReadData(s) PROVE UNCHANGED <<client, table, acks, queue, deal>>
  BY <1>6 DEF ReadData
<1>7. ASSUME NEW s \in Slots, ReadEnd(s)
      PROVE  UNCHANGED <<client, net, parser, queue, acks, deal>>
  BY <1>7 DEF ReadEnd
<1>8. ASSUME ParseNext \/ ParseLast PROVE UNCHANGED <<client, net, acks, table, deal>>
  BY <1>8 DEF ParseNext, ParseLast
<1>9. ASSUME DealRequest PROVE UNCHANGED <<client, net, table, loop, parser>>
  BY <1>9 DEF DealRequest
<1>10. ASSUME DealDuplicate PROVE UNCHANGED <<client, net, acks, table, loop, parser, deal>>
  BY <1>10 DEF DealDuplicate
<1>11. ASSUME NEW fd \in Fds, Open(fd) \/ CloseFile(fd)
       PROVE  UNCHANGED <<client, net, acks, loop, parser, queue, deal>>
  BY <1>11 DEF Open, CloseFile
<1>12. CASE UNCHANGED vars
  BY <1>12 DEF vars, client, call, table, loop, parser, deal
<1>13. CASE \E c \in Clients : \/ Connect(c) \/ SendData(c) \/ Repeat(c)
                               \/ XSendTimedOut(c) \/ XSendAcked(c)
                               \/ RecvAck(c) \/ SignalAck(c) \/ Leave(c)
  <2> PICK c \in Clients : \/ Connect(c) \/ SendData(c) \/ Repeat(c)
                           \/ XSendTimedOut(c) \/ XSendAcked(c)
                           \/ RecvAck(c) \/ SignalAck(c) \/ Leave(c)
    BY <1>13
  <2>1. CASE Connect(c)
    BY <1>1, <2>1 DEF loop, call, parser, deal
  <2>2. CASE SendData(c) \/ Repeat(c)
    BY <1>2, <2>2 DEF table, loop, parser, deal
  <2>3. CASE XSendTimedOut(c) \/ XSendAcked(c) \/ SignalAck(c) \/ RecvAck(c) \/ Leave(c)
    BY <1>3, <2>3 DEF table, loop, parser, deal
  <2> QED
    BY <2>1, <2>2, <2>3
<1>14. CASE ThreadListen
  <2>1. CASE Select \/ AcceptFails
    BY <1>4, <1>14, <2>1 DEF client, call, table, parser, deal
  <2>2. CASE Accept
    BY <1>5, <1>14, <2>2 DEF client, call, parser, deal
  <2>3. CASE \E s \in Slots : ReadData(s)
    BY <1>6, <1>14, <2>3 DEF client, call, table, deal
  <2>4. CASE \E s \in Slots : ReadEnd(s)
    BY <1>7, <1>14, <2>4 DEF client, call, parser, deal
  <2>5. CASE ParseNext \/ ParseLast
    BY <1>8, <1>14, <2>5 DEF client, call, table, deal
  <2> QED
    BY <1>14, <2>1, <2>2, <2>3, <2>4, <2>5 DEF ThreadListen
<1>15. CASE ThreadDeal
  BY <1>9, <1>10, <1>15 DEF ThreadDeal, client, call, table, loop, parser, deal
<1>16. CASE \E fd \in Fds : Open(fd) \/ CloseFile(fd)
  BY <1>11, <1>16 DEF client, call, loop, parser, deal
<1> QED
  BY <1>12, <1>13, <1>14, <1>15, <1>16 DEF Next

-----------------------------------------------------------------------------
LEMMA TypeStep == IInv /\ [Next]_vars => TypeOK'
<1> SUFFICES ASSUME IInv, [Next]_vars PROVE TypeOK'
  OBVIOUS
<1>1. TypeOK /\ TableInv /\ (lpc = "parse" => i \in Slots /\ m_client[i] \in Fds /\ owner[m_client[i]] \in Clients)
  BY DEF IInv, LoopInv, ReaderInv
<1>2. ClientTypes /\ WireTypes /\ TableTypes /\ LoopTypes /\ ParserTypes /\ PacketTypes
  BY <1>1 DEF TypeOK, ClientTypes, WireTypes, TableTypes, LoopTypes, ParserTypes, PacketTypes
<1> DEFINE Goal == /\ ClientTypes' /\ WireTypes' /\ TableTypes' /\ LoopTypes'
                   /\ ParserTypes' /\ PacketTypes'
<1>3. ASSUME UNCHANGED client PROVE ClientTypes'
  BY <1>2, <1>3 DEF client, call, ClientTypes
<1>4. ASSUME UNCHANGED <<net, acks>> PROVE WireTypes'
  BY <1>2, <1>4 DEF WireTypes
<1>5. ASSUME UNCHANGED table PROVE TableTypes'
  BY <1>2, <1>5 DEF table, TableTypes
<1>6. ASSUME UNCHANGED loop PROVE LoopTypes'
  BY <1>2, <1>6 DEF loop, LoopTypes
<1>7. ASSUME UNCHANGED <<queue, deal>> PROVE PacketTypes'
  BY <1>2, <1>7 DEF deal, PacketTypes
<1>8. ASSUME UNCHANGED parser PROVE ParserTypes'
  BY <1>2, <1>8 DEF parser, ParserTypes
<1>9. \A next \in Nat : Served(next) => LoopTypes'
  BY <1>2 DEF Served, EndPass, LoopTypes
<1>10. ASSUME queue # << >> PROVE Head(queue) \in Frame /\ Tail(queue) \in Seq(Frame)
  BY <1>2, <1>10, HeadTailProperties DEF PacketTypes
<1>11. ASSUME NEW c \in Clients, Connect(c) PROVE Goal
  <2>1. Append(backlog, c) \in Seq(Clients)
    BY <1>2, AppendProperties DEF TableTypes
  <2>2. TableTypes'
    BY <1>2, <1>11, <2>1 DEF TableTypes, Connect
  <2>3. ClientTypes'
    BY <1>2, <1>11 DEF ClientTypes, Connect, call
  <2>4. UNCHANGED <<net, acks, loop, parser, queue, deal>>
    BY <1>11 DEF Connect
  <2> QED
    BY <1>4, <1>6, <1>7, <1>8, <2>2, <2>3, <2>4
<1>12. ASSUME NEW c \in Clients, NEW k \in Nat, NEW n \in Nat, n <= REPEAT_SEND_TIMES[c],
              Attempt(c, k, n), iSeq' \in [Clients -> Nat]
       PROVE  Goal
  <2> DEFINE two == << [of |-> <<c, k>>, part |-> "head"], [of |-> <<c, k>>, part |-> "tail"] >>
  <2>1. net' = [net EXCEPT ![c] = net[c] \o two]
    BY <1>12 DEF Attempt
  <2>2. two \in Seq(Half)
    BY DEF Half
  <2> HIDE DEF two
  <2>3. net' \in [Clients -> Seq(Half)]
    BY <1>2, <2>1, <2>2, ConcatProperties DEF WireTypes
  <2>4. UNCHANGED <<conn, hit, done, acks, table, loop, parser, queue, deal>>
        /\ count' = [count EXCEPT ![c] = n] /\ pc' = [pc EXCEPT ![c] = "wait"]
    BY <1>12 DEF Attempt
  <2>5. ClientTypes'
    BY <1>2, <1>12, <2>4 DEF ClientTypes
  <2>6. WireTypes'
    BY <1>2, <2>3, <2>4 DEF WireTypes
  <2> QED
    BY <1>5, <1>6, <1>7, <1>8, <2>4, <2>5, <2>6
<1>13. ASSUME NEW c \in Clients, SendData(c) PROVE Goal
  <2>1. iSeq[c] + 1 \in Nat /\ 1 \in Nat /\ 1 <= REPEAT_SEND_TIMES[c]
    BY <1>2, Constants DEF ClientTypes
  <2>2. iSeq' = [iSeq EXCEPT ![c] = iSeq[c] + 1] /\ Attempt(c, iSeq[c] + 1, 1)
    BY <1>13 DEF SendData
  <2>3. iSeq' \in [Clients -> Nat]
    BY <1>2, <2>1, <2>2 DEF ClientTypes
  <2> QED
    BY <1>12, <2>1, <2>2, <2>3
<1>14. ASSUME NEW c \in Clients, Repeat(c) PROVE Goal
  <2>1. iSeq[c] \in Nat /\ count[c] \in Nat /\ REPEAT_SEND_TIMES[c] \in Nat
    BY <1>2, Constants DEF ClientTypes
  <2>2. /\ count[c] \in 1..REPEAT_SEND_TIMES[c] - 1 /\ iSeq' = iSeq
        /\ Attempt(c, iSeq[c], count[c] + 1)
    BY <1>14 DEF Repeat
  <2>3. count[c] + 1 \in Nat /\ count[c] + 1 <= REPEAT_SEND_TIMES[c]
    BY <2>1, <2>2
  <2>4. iSeq' \in [Clients -> Nat]
    BY <1>2, <2>2 DEF ClientTypes
  <2> QED
    BY <1>12, <2>1, <2>2, <2>3, <2>4
(* The steps of XSend and of the client's ThreadDeal *)
<1>15. ASSUME NEW c \in Clients,
              XSendTimedOut(c) \/ XSendAcked(c) \/ SignalAck(c) \/ RecvAck(c) \/ Leave(c)
       PROVE  Goal
  <2>1. /\ conn' = conn \/ conn' = [conn EXCEPT ![c] = "left"]
        /\ iSeq' = iSeq
        /\ count' \in {count, [count EXCEPT ![c] = 0]}
        /\ pc' = pc \/ \E to \in {"idle", "woken", "timedout"} : pc' = [pc EXCEPT ![c] = to]
        /\ done' = done \/ done' = [done EXCEPT ![c] = done[c] + 1]
    <3>1. CASE XSendTimedOut(c)
      <4>1. count[c] = REPEAT_SEND_TIMES[c] \/ count' = count
        BY <1>2, <3>1 DEF XSendTimedOut, ClientTypes
      <4> QED
        BY <3>1, <4>1 DEF XSendTimedOut, Goto
    <3>2. CASE XSendAcked(c) \/ SignalAck(c)
      BY <3>2 DEF XSendAcked, SignalAck, Goto
    <3>3. CASE RecvAck(c) \/ Leave(c)
      BY <3>3 DEF RecvAck, Leave
    <3> QED
      BY <1>15, <3>1, <3>2, <3>3
  <2>2. hit' = hit \/ \E h \in BOOLEAN : hit' = [hit EXCEPT ![c] = h]
    <3>1. CASE RecvAck(c)
      <4> DEFINE h == pc[c] # "idle" /\ Head(acks[c])[2] = iSeq[c]
      <4>1. hit' = [hit EXCEPT ![c] = h]
        BY <3>1 DEF RecvAck
      <4>2. h \in BOOLEAN
        OBVIOUS
      <4> QED
        BY <4>1, <4>2
    <3>2. CASE ~RecvAck(c)
      BY <1>15, <3>2 DEF XSendTimedOut, XSendAcked, SignalAck, Leave
    <3> QED
      BY <3>1, <3>2
  <2>3. acks' = acks \/ (acks[c] # << >> /\ acks' = [acks EXCEPT ![c] = Tail(acks[c])])
        \/ acks' = [acks EXCEPT ![c] = << >>]
    BY <1>15 DEF XSendTimedOut, XSendAcked, SignalAck, RecvAck, Leave
  <2>4. UNCHANGED <<net, table, loop, parser, queue, deal>>
    BY <1>15 DEF XSendTimedOut, XSendAcked, SignalAck, RecvAck, Leave
  <2>5. 0 <= REPEAT_SEND_TIMES[c] /\ done[c] + 1 \in Nat
    BY <1>2, Constants DEF ClientTypes
  <2>6. count' \in [Clients -> Nat] /\ \A x \in Clients : count'[x] <= REPEAT_SEND_TIMES[x]
    BY <1>2, <2>1, <2>5 DEF ClientTypes
  <2>7. /\ conn' \in [Clients -> {"out", "up", "left"}] /\ iSeq' \in [Clients -> Nat]
        /\ pc' \in [Clients -> {"idle", "wait", "woken", "timedout"}]
        /\ done' \in [Clients -> Nat]
    BY <1>2, <2>1, <2>5 DEF ClientTypes
  <2>8. hit' \in [Clients -> BOOLEAN]
    BY <1>2, <2>2 DEF ClientTypes
  <2>9. ClientTypes'
    BY <2>6, <2>7, <2>8 DEF ClientTypes
  <2>10. acks' \in [Clients -> Seq(Clients \X Nat)]
    <3>1. acks[c] \in Seq(Clients \X Nat) /\ << >> \in Seq(Clients \X Nat)
      BY <1>2, EmptySeq DEF WireTypes
    <3>2. acks[c] # << >> => Tail(acks[c]) \in Seq(Clients \X Nat)
      BY <3>1, HeadTailProperties
    <3> QED
      BY <1>2, <2>3, <3>1, <3>2 DEF WireTypes
  <2>11. WireTypes'
    BY <1>2, <2>4, <2>10 DEF WireTypes
  <2> QED
    BY <1>5, <1>6, <1>7, <1>8, <2>4, <2>9, <2>11
<1>16. ASSUME Select PROVE Goal
  <2>1. rset' \subseteq {LISTEN} \cup Fds
    BY <1>2, <1>16 DEF TableTypes, Select
  <2>2. Cardinality(rset') \in Int
    <3>1. IsFiniteSet(Fds)
      BY Constants, FS_Interval DEF Fds
    <3>2. IsFiniteSet(Fds \cup {LISTEN})
      BY <3>1, FS_AddElement
    <3>3. IsFiniteSet(rset')
      BY <2>1, <3>2, FS_Subset
    <3> QED
      BY <3>3, FS_CardinalityType
  <2>3. /\ selectRet' = Cardinality(rset') /\ i' = 0 /\ lpc' \in {"accept", "scan"}
        /\ UNCHANGED <<client, net, acks, table, parser, queue, deal>>
    BY <1>16 DEF Select
  <2>4. LoopTypes'
    BY <2>1, <2>2, <2>3 DEF LoopTypes
  <2> QED
    BY <1>3, <1>4, <1>5, <1>7, <1>8, <2>3, <2>4
<1>17. ASSUME AcceptFails PROVE Goal
  <2>1. EndPass /\ UNCHANGED <<client, net, acks, table, parser, queue, deal>>
    BY <1>17 DEF AcceptFails
  <2>2. LoopTypes'
    BY <1>2, <2>1 DEF LoopTypes, EndPass
  <2> QED
    BY <1>3, <1>4, <1>5, <1>7, <1>8, <2>1, <2>2
<1>18. ASSUME Accept PROVE Goal
  <2>1. PICK fd \in Fds, s \in Slots, c \in Clients :
           /\ owner[fd] = Nobody /\ m_client[s] = -1 /\ lpc = "accept"
           /\ owner' = [owner EXCEPT ![fd] = c]
           /\ m_client' = [m_client EXCEPT ![s] = fd]
           /\ m_curClientFd' = fd /\ allset' = allset \cup {fd}
           /\ maxi' = Highest(s) /\ newest' = c /\ backlog' \in Seq(Clients)
           /\ Served(0)
    BY <1>1, <1>18, AcceptShape
  <2>2. maxi' \in -1..FD_SETSIZE - 1
    BY <1>2, <2>1, Constants DEF TableTypes, Highest, Slots
  <2>3. UNCHANGED <<client, net, acks, parser, queue, deal>>
    BY <1>18 DEF Accept
  <2>4. TableTypes'
    BY <1>2, <2>1, <2>2 DEF TableTypes
  <2>5. 0 \in Nat
    OBVIOUS
  <2> QED
    BY <1>3, <1>4, <1>7, <1>8, <1>9, <2>1, <2>3, <2>4, <2>5
<1>19. ASSUME NEW s \in Slots, ReadData(s) PROVE Goal
  <2>1. PICK c \in Clients, n \in Nat :
           /\ n \in 0..Len(net[c]) /\ m_client[s] \in Fds /\ owner[m_client[s]] = c
           /\ rest' = SubSeq(net[c], 1, n) /\ buffer' = buffer \o SubSeq(net[c], 1, n)
           /\ net' = [net EXCEPT ![c] = SubSeq(@, n + 1, Len(@))]
           /\ mixed' = (mixed \/ \E j \in 1..Len(buffer) : buffer[j].of[1] # c)
    BY <1>1, <1>19, ReadShape
  <2>2. net[c] \in Seq(Half)
    BY <1>2 DEF WireTypes
  <2>3. /\ SubSeq(net[c], 1, n) \in Seq(Half) /\ SubSeq(net[c], n + 1, Len(net[c])) \in Seq(Half)
    BY <2>1, <2>2, Split
  <2>4. rest' \in Seq(Half) /\ buffer' \in Seq(Half)
    BY <1>2, <2>1, <2>3, ConcatProperties DEF ParserTypes
  <2>5. net' \in [Clients -> Seq(Half)]
    BY <1>2, <2>1, <2>3 DEF WireTypes
  <2>6. mixed' \in BOOLEAN
    BY <1>2, <2>1 DEF ParserTypes
  <2>7. /\ lpc' = "parse" /\ i' = s
        /\ UNCHANGED <<client, acks, table, rset, selectRet, again, queue, deal>>
    BY <1>19 DEF ReadData
  <2>8. WireTypes' /\ ParserTypes'
    BY <1>2, <2>4, <2>5, <2>6, <2>7 DEF WireTypes, ParserTypes
  <2>9. LoopTypes'
    BY <1>2, <2>7, Constants DEF LoopTypes
  <2> QED
    BY <1>3, <1>5, <1>7, <2>7, <2>8, <2>9
<1>20. ASSUME NEW s \in Slots, ReadEnd(s) PROVE Goal
  <2>1. Close(s) /\ Served(s + 1) /\ s + 1 \in Nat
    BY <1>20, Constants DEF ReadEnd
  <2>2. UNCHANGED <<client, net, acks, backlog, m_curClientFd, maxi, newest, parser, queue, deal>>
    BY <1>20 DEF ReadEnd
  <2>3. TableTypes'
    BY <1>2, <2>1, <2>2 DEF TableTypes, Close
  <2> QED
    BY <1>3, <1>4, <1>7, <1>8, <1>9, <2>1, <2>2, <2>3
<1>21. ASSUME ParseNext \/ ParseLast PROVE Goal
  <2>1. lpc = "parse" /\ i \in Slots /\ m_client[i] \in Fds /\ owner[m_client[i]] \in Clients
    BY <1>1, <1>21 DEF ParseNext, ParseLast
  <2>2. PICK a \in 0..Len(buffer), t \in Seq(Half) :
           /\ buffer' = SubSeq(buffer, a + 1, Len(buffer)) \o t
           /\ rest' = t
           /\ again' = again \/ again' = again \cup {owner[m_client[i]]}
           /\ queue' = queue \/ \E f \in Frame : queue' = Append(queue, f)
    BY <1>1, <1>21, <2>1, ParseShape
  <2>3. SubSeq(buffer, a + 1, Len(buffer)) \in Seq(Half)
    BY <1>2, Split DEF ParserTypes
  <2>4. buffer' \in Seq(Half) /\ rest' \in Seq(Half)
    BY <2>2, <2>3, ConcatProperties
  <2>5. queue \in Seq(Frame) /\ \A f \in Frame : Append(queue, f) \in Seq(Frame)
    BY <1>2, AppendProperties DEF PacketTypes
  <2>6. queue' \in Seq(Frame)
    BY <2>2, <2>5
  <2>7. UNCHANGED <<client, net, acks, table, mixed, deal>>
    BY <1>21 DEF ParseNext, ParseLast
  <2>8. ParserTypes' /\ PacketTypes'
    BY <1>2, <2>1, <2>2, <2>4, <2>6, <2>7 DEF ParserTypes, PacketTypes, deal
  <2>9. LoopTypes'
    <3>1. CASE ParseNext
      BY <1>6, <3>1 DEF ParseNext
    <3>2. CASE ParseLast
      <4>1. Served(i + 1) /\ i + 1 \in Nat
        BY <2>1, <3>2, Constants DEF ParseLast
      <4> QED
        BY <1>9, <4>1
    <3> QED
      BY <1>21, <3>1, <3>2
  <2> QED
    BY <1>3, <1>4, <1>5, <2>7, <2>8, <2>9
<1>22. ASSUME DealRequest PROVE Goal
  <2>1. Head(queue) \in Frame /\ Tail(queue) \in Seq(Frame)
    BY <1>10, <1>22 DEF DealRequest
  <2>2. Head(queue).head \in Clients \X Nat /\ Head(queue).head[2] \in Nat
    BY <2>1 DEF Frame
  <2>3. Append(dealt, Head(queue).head) \in Seq(Clients \X Nat)
    BY <1>2, <2>2, AppendProperties DEF PacketTypes
  <2>4. acks' \in [Clients -> Seq(Clients \X Nat)]
    <3>1. acks \in [Clients -> Seq(Clients \X Nat)]
      BY <1>2 DEF WireTypes
    <3>2. \A c \in Clients : Append(acks[c], Head(queue).head) \in Seq(Clients \X Nat)
      BY <2>2, <3>1, AppendProperties
    <3>3. Ack(Head(queue))
      BY <1>22 DEF DealRequest
    <3> QED
      BY <3>1, <3>2, <3>3 DEF Ack, AckTo
  <2>5. /\ queue' = Tail(queue) /\ preSeq' = Head(queue).head[2]
        /\ dealt' = Append(dealt, Head(queue).head)
        /\ UNCHANGED <<client, net, table, loop, parser>>
    BY <1>22 DEF DealRequest
  <2>6. WireTypes' /\ PacketTypes'
    BY <1>2, <2>1, <2>2, <2>3, <2>4, <2>5 DEF WireTypes, PacketTypes
  <2> QED
    BY <1>3, <1>5, <1>6, <1>8, <2>5, <2>6
<1>23. ASSUME DealDuplicate PROVE Goal
  <2>1. Tail(queue) \in Seq(Frame)
    BY <1>10, <1>23 DEF DealDuplicate
  <2>2. queue' = Tail(queue) /\ UNCHANGED <<client, net, acks, table, loop, parser, deal>>
    BY <1>23 DEF DealDuplicate
  <2>3. PacketTypes'
    BY <1>2, <2>1, <2>2 DEF PacketTypes, deal
  <2> QED
    BY <1>3, <1>4, <1>5, <1>6, <1>8, <2>2, <2>3
<1>24. ASSUME NEW fd \in Fds, Open(fd) \/ CloseFile(fd) PROVE Goal
  <2>1. /\ \E o \in {Nobody, Application} : owner' = [owner EXCEPT ![fd] = o]
        /\ UNCHANGED <<backlog, m_client, m_curClientFd, allset, maxi, newest>>
        /\ UNCHANGED <<client, net, acks, loop, parser, queue, deal>>
    BY <1>24 DEF Open, CloseFile
  <2>2. TableTypes'
    BY <1>2, <2>1 DEF TableTypes
  <2> QED
    BY <1>3, <1>4, <1>6, <1>7, <1>8, <2>1, <2>2
<1>25. ASSUME UNCHANGED vars PROVE Goal
  BY <1>3, <1>4, <1>5, <1>6, <1>7, <1>8, <1>25 DEF vars
<1>26. Goal
  <2> HIDE DEF Goal
  <2> QED
    BY <1>11, <1>13, <1>14, <1>15, <1>16, <1>17, <1>18, <1>19, <1>20, <1>21, <1>22, <1>23, <1>24,
       <1>25
    DEF Next, ThreadListen, ThreadDeal
<1> QED
  BY <1>26 DEF TypeOK, ClientTypes, WireTypes, TableTypes, LoopTypes, ParserTypes, PacketTypes

-----------------------------------------------------------------------------
LEMMA TableStep == IInv /\ [Next]_vars => TableInv' /\ CurIsNewest'
<1> SUFFICES ASSUME IInv, [Next]_vars PROVE TableInv' /\ CurIsNewest'
  OBVIOUS
<1>1. TypeOK /\ TableInv /\ CurIsNewest
  BY DEF IInv
<1>2. /\ owner \in [Fds -> Clients \cup {Nobody, Application}] /\ m_client \in [Slots -> Fds \cup {-1}]
      /\ m_curClientFd \in Fds \cup {-1} /\ maxi \in -1..FD_SETSIZE - 1
  BY <1>1 DEF TypeOK
<1>3. CASE UNCHANGED <<owner, m_client, allset, maxi, m_curClientFd, newest>>
  BY <1>1, <1>3 DEF TableInv, CurIsNewest
<1>4. CASE Accept
  <2>1. PICK fd \in Fds, s \in Slots, c \in Clients :
           /\ owner[fd] = Nobody /\ m_client[s] = -1 /\ lpc = "accept"
           /\ owner' = [owner EXCEPT ![fd] = c]
           /\ m_client' = [m_client EXCEPT ![s] = fd]
           /\ m_curClientFd' = fd /\ allset' = allset \cup {fd}
           /\ maxi' = Highest(s) /\ newest' = c /\ backlog' \in Seq(Clients)
           /\ Served(0)
    BY <1>1, <1>4, AcceptShape
  <2>2. owner'[fd] = c /\ c # Nobody /\ owner[fd] \notin Clients /\ \A g \in Fds : g # fd => owner'[g] = owner[g]
    BY <1>2, <2>1, Constants
  <2>3. m_client'[s] = fd /\ fd # -1 /\ \A t \in Slots : t # s => m_client'[t] = m_client[t]
    BY <1>2, <2>1, Constants
  <2>4. \A t \in Slots : m_client[t] # fd
    BY <2>2, <2>3, <1>1 DEF TableInv
  <2>5. maxi' >= s /\ maxi' >= maxi /\ maxi' \in Int
    BY <1>2, <2>1, Constants DEF Highest
  <2>6. \A g \in Fds : owner'[g] \in Clients <=> g \in allset'
    BY <1>1, <2>1, <2>2 DEF TableInv
  <2>7. \A g \in Fds : owner'[g] \in Clients => \E t \in Slots : m_client'[t] = g
    <3> SUFFICES ASSUME NEW g \in Fds, owner'[g] \in Clients PROVE \E t \in Slots : m_client'[t] = g
      OBVIOUS
    <3>1. CASE g = fd
      BY <2>3, <3>1
    <3>2. CASE g # fd
      <4>1. PICK t \in Slots : m_client[t] = g
        BY <1>1, <2>2, <3>2 DEF TableInv
      <4>2. t # s
        BY <2>1, <4>1, Constants
      <4> QED
        BY <2>3, <4>1, <4>2
    <3> QED
      BY <3>1, <3>2
  <2>8. \A t \in Slots : m_client'[t] # -1 => t <= maxi' /\ owner'[m_client'[t]] \in Clients
    <3> SUFFICES ASSUME NEW t \in Slots, m_client'[t] # -1
                 PROVE  t <= maxi' /\ owner'[m_client'[t]] \in Clients
      OBVIOUS
    <3>1. CASE t = s
      BY <2>2, <2>3, <2>5, <3>1, Constants
    <3>2. CASE t # s
      <4>1. m_client'[t] = m_client[t] /\ m_client[t] \in Fds /\ m_client[t] # fd
        BY <1>2, <2>3, <2>4, <3>2
      <4>2. t <= maxi /\ owner[m_client[t]] \in Clients
        BY <1>1, <4>1, Constants DEF TableInv
      <4>3. owner'[m_client'[t]] \in Clients
        BY <2>2, <4>1, <4>2
      <4>4. t \in Int /\ maxi \in Int
        BY <1>2, Constants
      <4>5. t <= maxi'
        BY <2>5, <4>2, <4>4
      <4> QED
        BY <4>3, <4>5
    <3> QED
      BY <3>1, <3>2
  <2>9. \A t, u \in Slots : m_client'[t] # -1 /\ m_client'[t] = m_client'[u] => t = u
    BY <1>1, <2>3, <2>4 DEF TableInv
  <2>10. CurIsNewest'
    BY <2>1, <2>2 DEF CurIsNewest
  <2> QED
    BY <2>6, <2>7, <2>8, <2>9, <2>10 DEF TableInv
<1>5. ASSUME NEW s \in Slots, ReadEnd(s) PROVE TableInv' /\ CurIsNewest'
  <2>1. Due(s) /\ Close(s) /\ UNCHANGED <<m_curClientFd, maxi, newest>>
    BY <1>5 DEF ReadEnd
  <2> DEFINE fd == m_client[s]
  <2>2. fd \in Fds /\ owner[fd] \in Clients
    BY <1>1, <2>1, DueShape, Constants
  <2>3. /\ owner' = [owner EXCEPT ![fd] = Nobody] /\ allset' = allset \ {fd}
        /\ m_client' = [m_client EXCEPT ![s] = -1]
    BY <2>1 DEF Close
  <2>4. \A t \in Slots : t # s => m_client[t] # fd
    BY <1>1, <2>2, Constants DEF TableInv
  <2>5. owner'[fd] = Nobody /\ owner'[fd] \notin Clients /\ \A g \in Fds : g # fd => owner'[g] = owner[g]
    BY <1>2, <2>2, <2>3, Constants
  <2>6. m_client'[s] = -1 /\ m_client[s] = fd /\ \A t \in Slots : t # s => m_client'[t] = m_client[t]
    BY <1>2, <2>3
  <2> HIDE DEF fd
  <2>7. \A g \in Fds : owner'[g] \in Clients <=> g \in allset'
    BY <1>1, <2>3, <2>5 DEF TableInv
  <2>8. \A g \in Fds : owner'[g] \in Clients => \E t \in Slots : m_client'[t] = g
    BY <1>1, <2>5, <2>6 DEF TableInv
  <2>9. \A t \in Slots : m_client'[t] # -1 => t <= maxi' /\ owner'[m_client'[t]] \in Clients
    BY <1>1, <1>2, <2>1, <2>4, <2>5, <2>6 DEF TableInv
  <2>10. \A t, u \in Slots : m_client'[t] # -1 /\ m_client'[t] = m_client'[u] => t = u
    BY <1>1, <2>6 DEF TableInv
  <2>11. CurIsNewest'
    BY <1>1, <1>2, <2>1, <2>5 DEF CurIsNewest
  <2> QED
    BY <2>7, <2>8, <2>9, <2>10, <2>11 DEF TableInv
(* A file takes or frees the number of no client. *)
<1>6. ASSUME NEW fd \in Fds, Open(fd) \/ CloseFile(fd) PROVE TableInv' /\ CurIsNewest'
  <2>1. /\ owner[fd] \notin Clients
        /\ \E o \in {Nobody, Application} : owner' = [owner EXCEPT ![fd] = o]
        /\ UNCHANGED <<m_client, m_curClientFd, allset, maxi, newest>>
    BY <1>6, Constants DEF Open, CloseFile, LowestFree
  <2>2. owner'[fd] \in {Nobody, Application} /\ \A g \in Fds : g # fd => owner'[g] = owner[g]
    BY <1>2, <2>1
  <2>3. \A g \in Fds : owner'[g] \in Clients <=> owner[g] \in Clients
    BY <2>1, <2>2, Constants
  <2>4. \A s \in Slots : m_client[s] # -1 => m_client[s] \in Fds
    BY <1>2
  <2>5. TableInv'
    BY <1>1, <2>1, <2>3, <2>4 DEF TableInv
  <2>6. CurIsNewest'
    BY <1>1, <1>2, <2>1, <2>2 DEF CurIsNewest
  <2> QED
    BY <2>5, <2>6
<1> QED
  BY <1>3, <1>4, <1>5, <1>6, Effects

-----------------------------------------------------------------------------
(* As many slots as descriptors are ready.                                 *)
LEMMA PassCount ==
  ASSUME TypeOK, TableInv, NEW r \in SUBSET allset, LISTEN \notin r
  PROVE  LET S == {s \in 0..maxi : m_client[s] \in r}
         IN  IsFiniteSet(S) /\ IsFiniteSet(r) /\ Cardinality(S) = Cardinality(r)
<1> DEFINE S == {s \in 0..maxi : m_client[s] \in r}
           f == [s \in S |-> m_client[s]]
<1>1. /\ maxi \in -1..FD_SETSIZE - 1 /\ m_client \in [Slots -> Fds \cup {-1}]
      /\ allset \subseteq {LISTEN} \cup Fds
  BY DEF TypeOK
<1>2. S \subseteq Slots /\ S \subseteq 0..maxi
  BY <1>1, Constants DEF Slots
<1>3. IsFiniteSet(0..maxi)
  BY <1>1, Constants, FS_Interval
<1>4. IsFiniteSet(S)
  BY <1>2, <1>3, FS_Subset
<1>5. r \subseteq Fds
  BY <1>1
<1>6. f \in [S -> r]
  OBVIOUS
<1>7. \A s, t \in S : f[s] = f[t] => s = t
  BY <1>2, <1>5, Constants DEF TableInv
<1>8. \A fd \in r : \E s \in S : f[s] = fd
  <2> SUFFICES ASSUME NEW fd \in r PROVE \E s \in S : f[s] = fd
    OBVIOUS
  <2>1. fd \in Fds /\ owner[fd] \in Clients /\ fd # -1
    BY <1>5, Constants DEF TableInv
  <2>2. PICK s \in Slots : m_client[s] = fd
    BY <2>1 DEF TableInv
  <2>3. s <= maxi
    BY <2>1, <2>2 DEF TableInv
  <2>4. s \in 0..maxi
    BY <1>1, <2>3, Constants
  <2> QED
    BY <2>2, <2>4
<1> HIDE DEF f, S
<1>9. f \in Bijection(S, r)
  BY <1>6, <1>7, <1>8 DEF Bijection, Injection, Surjection, IsInjective
<1>10. ExistsBijection(S, r)
  BY <1>9 DEF ExistsBijection
<1>11. IsFiniteSet(r) /\ Cardinality(r) = Cardinality(S)
  BY <1>4, <1>10, FS_Bijection
<1> QED
  BY <1>4, <1>11 DEF S

LEMMA LoopStep == IInv /\ [Next]_vars => LoopInv'
<1> SUFFICES ASSUME IInv, [Next]_vars PROVE LoopInv'
  OBVIOUS
<1>1. TypeOK /\ TableInv /\ LoopInv
  BY DEF IInv
<1>2. /\ m_client \in [Slots -> Fds \cup {-1}] /\ maxi \in -1..FD_SETSIZE - 1
      /\ rset \subseteq {LISTEN} \cup Fds /\ selectRet \in Int /\ i \in Nat
  BY <1>1 DEF TypeOK
<1> DEFINE Left == {s \in i..maxi : m_client[s] \in rset}
<1>3. CASE UNCHANGED <<lpc, rset, selectRet, i, maxi, m_client, allset>>
  BY <1>1, <1>3 DEF LoopInv, NobodyPassedOver
<1>4. CASE Select
  <2>1. /\ rset' \subseteq allset /\ selectRet' = Cardinality(rset') /\ i' = 0
        /\ lpc' = IF LISTEN \in rset' THEN "accept" ELSE "scan"
        /\ UNCHANGED <<maxi, m_client, allset>>
    BY <1>4 DEF Select, table
  <2>2. ASSUME lpc' = "scan" PROVE selectRet' = Cardinality({s \in i'..maxi' : m_client'[s] \in rset'})
    <3>1. LISTEN \notin rset'
      BY <2>1, <2>2
    <3>2. Cardinality({s \in 0..maxi : m_client[s] \in rset'}) = Cardinality(rset')
      BY <1>1, <2>1, <3>1, PassCount
    <3> QED
      BY <2>1, <3>2
  <2> QED
    BY <2>1, <2>2 DEF LoopInv, NobodyPassedOver
<1>5. CASE AcceptFails
  BY <1>5 DEF AcceptFails, EndPass, LoopInv, NobodyPassedOver
<1>6. CASE Accept
  <2>1. PICK fd \in Fds, s \in Slots, c \in Clients :
           /\ owner[fd] = Nobody /\ m_client[s] = -1 /\ lpc = "accept"
           /\ owner' = [owner EXCEPT ![fd] = c]
           /\ m_client' = [m_client EXCEPT ![s] = fd]
           /\ m_curClientFd' = fd /\ allset' = allset \cup {fd}
           /\ maxi' = Highest(s) /\ newest' = c /\ backlog' \in Seq(Clients)
           /\ Served(0)
    BY <1>1, <1>6, AcceptShape
  <2>2. LISTEN \in rset /\ rset \subseteq allset /\ selectRet = Cardinality(rset)
    BY <1>1, <2>1 DEF LoopInv
  <2> SUFFICES ASSUME lpc' # "select" PROVE LoopInv'
    BY DEF LoopInv, NobodyPassedOver
  <2>3. rset' = rset /\ i' = 0 /\ selectRet' = selectRet - 1 /\ lpc' = "scan"
    BY <2>1 DEF Served, EndPass
  <2> DEFINE r == rset \ {LISTEN}
             Ready == {t \in 0..maxi : m_client[t] \in r}
             After == {t \in 0..maxi' : m_client'[t] \in rset}
  <2>4. r \in SUBSET allset /\ LISTEN \notin r /\ r \subseteq Fds
    BY <1>2, <2>2
  <2>5. IsFiniteSet(r) /\ Cardinality(Ready) = Cardinality(r)
    BY <1>1, <2>4, PassCount
  <2>6. rset = r \cup {LISTEN}
    BY <2>2
  <2>7. Cardinality(rset) = Cardinality(r) + 1
    BY <2>4, <2>5, <2>6, FS_AddElement
  <2>8. Cardinality(r) \in Nat
    BY <2>5, FS_CardinalityType
  <2>9. After = Ready
    <3>1. maxi' \in Int /\ maxi <= maxi' /\ maxi' <= FD_SETSIZE - 1
      BY <1>2, <2>1, Constants DEF Highest, Slots
    <3>2. 0..maxi \subseteq 0..maxi' /\ 0..maxi' \subseteq Slots
      BY <1>2, <3>1, Constants DEF Slots
    <3>3. fd \notin rset
      BY <1>1, <2>1, <2>2, Constants DEF TableInv
    <3>4. \A t \in Slots : t # s => m_client'[t] = m_client[t]
      BY <1>2, <2>1
    <3>5. m_client'[s] = fd
      BY <1>2, <2>1
    <3>6. ASSUME NEW t \in After PROVE t \in Ready
      <4>1. t \in Slots /\ t # s /\ m_client[t] \in rset
        BY <3>2, <3>3, <3>4, <3>5
      <4>2. m_client[t] \in r /\ m_client[t] # -1
        BY <1>2, <2>4, <4>1, Constants
      <4>3. t <= maxi
        BY <1>1, <4>1, <4>2 DEF TableInv
      <4> QED
        BY <1>2, <4>1, <4>2, <4>3, Constants
    <3>7. ASSUME NEW t \in Ready PROVE t \in After
      <4>1. t \in Slots /\ t \in 0..maxi' /\ m_client[t] \in r
        BY <3>2
      <4>2. t # s
        BY <2>1, <2>4, <4>1, Constants
      <4> QED
        BY <3>4, <4>1, <4>2
    <3> QED
      BY <3>6, <3>7
  <2>10. selectRet' = Cardinality(r)
    BY <2>2, <2>3, <2>7, <2>8
  <2>11. selectRet' = Cardinality(After)
    BY <2>5, <2>9, <2>10
  <2> QED
    BY <2>3, <2>11 DEF LoopInv, NobodyPassedOver
<1>7. ASSUME NEW s \in Slots, Due(s), lpc \in {"scan", "parse"}, Served(s + 1), maxi' = maxi,
             \A t \in Slots : t # s => m_client'[t] = m_client[t]
      PROVE  LoopInv'
  <2> SUFFICES ASSUME lpc' # "select" PROVE LoopInv'
    BY DEF LoopInv, NobodyPassedOver
  <2>1. rset' = rset /\ i' = s + 1 /\ selectRet' = selectRet - 1 /\ lpc' = "scan"
    BY <1>7 DEF Served, EndPass
  <2>2. selectRet = Cardinality(Left)
    BY <1>1, <1>7 DEF LoopInv, NobodyPassedOver
  <2>3. IsFiniteSet(Left)
    <3>1. IsFiniteSet(i..maxi)
      BY <1>2, Constants, FS_Interval
    <3> QED
      BY <3>1, FS_Subset
  <2>4. s \in Left
    BY <1>7 DEF Due
  <2>5. Left \ {s} = {t \in s + 1..maxi : m_client'[t] \in rset}
    <3>1. s \in Nat /\ s \in i..maxi /\ maxi \in Int /\ i..maxi \subseteq Slots
      BY <1>2, <1>7, Constants DEF Due, Slots
    <3>2. ASSUME NEW t \in Left, t # s PROVE t \in s + 1..maxi /\ m_client'[t] \in rset
      <4>1. t \in i..maxi /\ m_client[t] \in rset /\ t \in Slots
        BY <3>1
      <4>2. t \notin i..s - 1
        BY <1>7, <4>1 DEF Due
      <4>3. t \in s + 1..maxi
        BY <1>2, <3>1, <3>2, <4>1, <4>2
      <4> QED
        BY <1>7, <3>2, <4>1, <4>3
    <3>3. ASSUME NEW t \in s + 1..maxi, m_client'[t] \in rset PROVE t \in Left /\ t # s
      <4>1. t \in i..maxi /\ t # s
        BY <1>2, <3>1
      <4> QED
        BY <1>7, <3>1, <3>3, <4>1
    <3> QED
      BY <3>2, <3>3
  <2>6. Cardinality(Left \ {s}) = Cardinality(Left) - 1
    BY <2>3, <2>4, FS_RemoveElement
  <2>7. selectRet' = Cardinality({t \in i'..maxi' : m_client'[t] \in rset'})
    BY <1>7, <2>1, <2>2, <2>5, <2>6
  <2> QED
    BY <2>1, <2>7 DEF LoopInv, NobodyPassedOver
<1>8. ASSUME NEW s \in Slots, ReadData(s) PROVE LoopInv'
  <2>1. lpc = "scan" /\ Due(s) /\ lpc' = "parse" /\ i' = s
        /\ UNCHANGED <<maxi, m_client, rset, selectRet>>
    BY <1>8 DEF ReadData, table
  <2>2. selectRet = Cardinality(Left)
    BY <1>1, <2>1 DEF LoopInv, NobodyPassedOver
  <2>3. s \in i..maxi /\ m_client[s] \in rset /\ \A j \in i..s - 1 : m_client[j] \notin rset
    BY <2>1 DEF Due
  <2>4. s \in Nat /\ s \in 0..maxi
    BY <1>2, <2>3, Constants DEF Slots
  <2>5. Left = {t \in s..maxi : m_client[t] \in rset}
    <3>1. ASSUME NEW t \in Left PROVE t \in s..maxi
      <4>1. t \in i..maxi /\ t \notin i..s - 1
        BY <2>3
      <4> QED
        BY <1>2, <2>4, <4>1
    <3>2. s..maxi \subseteq i..maxi
      BY <1>2, <2>3, <2>4
    <3> QED
      BY <3>1, <3>2
  <2> QED
    BY <2>1, <2>2, <2>3, <2>4, <2>5 DEF LoopInv, NobodyPassedOver
<1>9. ASSUME NEW s \in Slots, ReadEnd(s) PROVE LoopInv'
  <2>1. lpc = "scan" /\ Due(s) /\ Served(s + 1) /\ maxi' = maxi
        /\ m_client' = [m_client EXCEPT ![s] = -1]
    BY <1>9 DEF ReadEnd, Close
  <2>2. \A t \in Slots : t # s => m_client'[t] = m_client[t]
    BY <1>2, <2>1
  <2> QED
    BY <1>7, <2>1, <2>2
<1>10. CASE ParseNext
  BY <1>3, <1>10 DEF ParseNext, loop, table
<1>11. CASE ParseLast
  <2>1. lpc = "parse" /\ Served(i + 1) /\ UNCHANGED <<maxi, m_client>>
    BY <1>11 DEF ParseLast, table
  <2>2. i \in Slots /\ i \in 0..maxi /\ m_client[i] \in rset
    BY <1>1, <2>1 DEF LoopInv
  <2>3. Due(i)
    <3>1. i \in i..maxi /\ i..i - 1 = {}
      BY <1>2, <2>2
    <3> QED
      BY <2>2, <3>1 DEF Due
  <2> QED
    BY <1>7, <2>1, <2>2, <2>3
<1>12. CASE ThreadListen
  BY <1>4, <1>5, <1>6, <1>8, <1>9, <1>10, <1>11, <1>12 DEF ThreadListen
<1>13. CASE UNCHANGED <<maxi, m_client, allset>> /\ ~ThreadListen
  BY <1>3, <1>13, Effects
<1>14. ASSUME NEW fd \in Fds, Open(fd) \/ CloseFile(fd) PROVE LoopInv'
  BY <1>3, <1>14 DEF Open, CloseFile, loop
<1> QED
  BY <1>12, <1>13, <1>14, Effects DEF ThreadListen

(* The read belongs to a client that is connected, and stays until it is   *)
(* parsed; what it finds in the buffer is the client's, or bytes have met. *)
LEMMA ReaderStep == IInv /\ [Next]_vars => ReaderInv'
<1> SUFFICES ASSUME IInv, [Next]_vars, lpc' = "parse"
             PROVE  /\ m_client'[i'] \in Fds /\ owner'[m_client'[i']] \in Clients
                    /\ \A j \in 1..Len(rest') : rest'[j].of[1] = owner'[m_client'[i']]
                    /\ mixed' \/ \A j \in 1..Len(buffer') : buffer'[j].of[1] = owner'[m_client'[i']]
  BY DEF ReaderInv
<1>1. /\ TypeOK /\ TableInv /\ LoopInv /\ ReaderInv /\ NumberInv
      /\ buffer \in Seq(Half) /\ rest \in Seq(Half) /\ net \in [Clients -> Seq(Half)]
      /\ owner \in [Fds -> Clients \cup {Nobody, Application}] /\ mixed \in BOOLEAN
  BY DEF IInv, TypeOK
<1>2. ASSUME NEW s \in Slots, ReadData(s)
      PROVE  /\ m_client'[i'] \in Fds /\ owner'[m_client'[i']] \in Clients
             /\ \A j \in 1..Len(rest') : rest'[j].of[1] = owner'[m_client'[i']]
             /\ mixed' \/ \A j \in 1..Len(buffer') : buffer'[j].of[1] = owner'[m_client'[i']]
  <2>1. PICK c \in Clients, n \in Nat :
           /\ n \in 0..Len(net[c]) /\ m_client[s] \in Fds /\ owner[m_client[s]] = c
           /\ rest' = SubSeq(net[c], 1, n) /\ buffer' = buffer \o SubSeq(net[c], 1, n)
           /\ mixed' = (mixed \/ \E j \in 1..Len(buffer) : buffer[j].of[1] # c)
    BY <1>1, <1>2, ReadShape
  <2>2. i' = s /\ UNCHANGED <<m_client, owner>>
    BY <1>2 DEF ReadData, table
  <2>3. net[c] \in Seq(Half)
    BY <1>1
  <2> DEFINE r == SubSeq(net[c], 1, n)
  <2>4. r \in Seq(Half) /\ Len(r) = n /\ \A j \in 1..n : r[j] = net[c][j]
    BY <2>1, <2>3, Split
  <2>5. \A j \in 1..n : j \in 1..Len(net[c])
    BY <2>1, <2>3, LenProperties
  <2>6. \A j \in 1..n : r[j].of[1] = c
    BY <1>1, <2>4, <2>5 DEF NumberInv
  <2>7. rest' = r /\ buffer' = buffer \o r
    BY <2>1
  <2> HIDE DEF r
  <2>8. ASSUME ~mixed', NEW j \in 1..Len(buffer') PROVE buffer'[j].of[1] = c
    <3>1. \A k \in 1..Len(buffer) : buffer[k].of[1] = c
      BY <2>1, <2>8
    <3>2. /\ Len(buffer) \in Nat /\ j \in 1..Len(buffer) + n
          /\ buffer'[j] = IF j <= Len(buffer) THEN buffer[j] ELSE r[j - Len(buffer)]
      BY <1>1, <2>4, <2>7, <2>8, ConcatProperties, LenProperties
    <3>3. CASE j <= Len(buffer)
      BY <3>1, <3>2, <3>3
    <3>4. CASE ~(j <= Len(buffer))
      <4>1. j - Len(buffer) \in 1..n
        BY <3>2, <3>4
      <4> QED
        BY <2>6, <3>2, <3>4, <4>1
    <3> QED
      BY <3>3, <3>4
  <2> QED
    BY <2>1, <2>2, <2>4, <2>6, <2>7, <2>8
<1>3. ASSUME ParseNext
      PROVE  /\ m_client'[i'] \in Fds /\ owner'[m_client'[i']] \in Clients
             /\ \A j \in 1..Len(rest') : rest'[j].of[1] = owner'[m_client'[i']]
             /\ mixed' \/ \A j \in 1..Len(buffer') : buffer'[j].of[1] = owner'[m_client'[i']]
  <2>1. lpc = "parse" /\ ~ParseLast /\ UNCHANGED <<m_client, owner, i, mixed>>
    BY <1>3 DEF ParseNext, ParseLast, table, loop
  <2> DEFINE c == owner[m_client[i]]
  <2>2. /\ m_client[i] \in Fds /\ c \in Clients /\ \A j \in 1..Len(rest) : rest[j].of[1] = c
        /\ mixed \/ \A j \in 1..Len(buffer) : buffer[j].of[1] = c
    BY <1>1, <2>1 DEF ReaderInv
  <2>3. PICK a \in 0..Len(buffer), t \in Seq(Half) :
           /\ buffer' = SubSeq(buffer, a + 1, Len(buffer)) \o t
           /\ rest' = t /\ Len(rest) > 2 /\ t = SubSeq(rest, 3, Len(rest))
    BY <1>1, <1>3, <2>1, <2>2, ParseShape
  <2> HIDE DEF c
  <2>4. Len(rest) \in Nat /\ Len(buffer) \in Nat /\ 2 \in 0..Len(rest)
    BY <1>1, <2>3, LenProperties
  <2>5. PICK two \in 0..Len(rest) : two = 2 /\ t = SubSeq(rest, two + 1, Len(rest))
    BY <2>3, <2>4
  <2>6. Len(t) = Len(rest) - 2 /\ \A j \in 1..Len(t) : t[j] = rest[2 + j] /\ 2 + j \in 1..Len(rest)
    <3>0. rest \in Seq(Half) /\ t = SubSeq(rest, two + 1, Len(rest))
      BY <1>1, <2>5
    <3>1. Len(t) = Len(rest) - two /\ \A j \in 1..Len(rest) - two : t[j] = rest[two + j]
      BY <3>0, Split
    <3>2. \A j \in 1..Len(rest) - two : two + j \in 1..Len(rest)
      BY <2>4
    <3>3. two = 2 /\ Len(t) = Len(rest) - 2
      BY <2>5, <3>1
    <3> QED
      BY <3>1, <3>2, <3>3
  <2>7. \A j \in 1..Len(t) : t[j].of[1] = c
    BY <2>2, <2>6
  <2> DEFINE l == SubSeq(buffer, a + 1, Len(buffer))
  <2>8. l \in Seq(Half) /\ Len(l) = Len(buffer) - a /\ \A j \in 1..Len(buffer) - a : l[j] = buffer[a + j]
    BY <1>1, Split
  <2>9. buffer' = l \o t
    BY <2>3
  <2> HIDE DEF l
  <2>10. ASSUME ~mixed, NEW j \in 1..Len(buffer') PROVE buffer'[j].of[1] = c
    <3>0. /\ Len(buffer') = Len(l) + Len(t)
          /\ \A k \in 1..Len(l) + Len(t) : buffer'[k] = IF k <= Len(l) THEN l[k] ELSE t[k - Len(l)]
      BY <2>8, <2>9, ConcatProperties
    <3>1. /\ j \in 1..Len(l) + Len(t) /\ Len(l) \in Nat /\ Len(t) \in Nat
          /\ buffer'[j] = IF j <= Len(l) THEN l[j] ELSE t[j - Len(l)]
      BY <2>4, <2>6, <2>8, <2>10, <3>0, LenProperties
    <3>2. CASE j <= Len(l)
      <4>1. j \in 1..Len(buffer) - a /\ a + j \in 1..Len(buffer)
        BY <2>4, <2>8, <3>1, <3>2
      <4>2. buffer'[j] = buffer[a + j]
        BY <2>8, <3>1, <3>2, <4>1
      <4> QED
        BY <2>2, <2>10, <4>1, <4>2
    <3>3. CASE ~(j <= Len(l))
      <4>1. j - Len(l) \in 1..Len(t)
        BY <3>1, <3>3
      <4> QED
        BY <2>7, <3>1, <3>3, <4>1
    <3> QED
      BY <3>2, <3>3
  <2> QED
    BY <2>1, <2>2, <2>3, <2>7, <2>10 DEF c
<1>4. CASE UNCHANGED <<lpc, i, m_client, owner, buffer, rest, mixed>>
  BY <1>1, <1>4 DEF ReaderInv
<1>5. ASSUME NEW fd \in Fds, Open(fd) \/ CloseFile(fd)
      PROVE  /\ m_client'[i'] \in Fds /\ owner'[m_client'[i']] \in Clients
             /\ \A j \in 1..Len(rest') : rest'[j].of[1] = owner'[m_client'[i']]
             /\ mixed' \/ \A j \in 1..Len(buffer') : buffer'[j].of[1] = owner'[m_client'[i']]
  <2>1. /\ owner[fd] \notin Clients
        /\ \E o \in {Nobody, Application} : owner' = [owner EXCEPT ![fd] = o]
        /\ UNCHANGED <<lpc, i, m_client, buffer, rest, mixed>>
    BY <1>5, Constants DEF Open, CloseFile, LowestFree, loop, parser
  <2>2. m_client[i] \in Fds /\ owner[m_client[i]] \in Clients
    BY <1>1, <2>1 DEF ReaderInv
  <2>3. owner'[m_client[i]] = owner[m_client[i]]
    BY <1>1, <2>1, <2>2
  <2> QED
    BY <1>1, <2>1, <2>2, <2>3 DEF ReaderInv
<1>6. CASE Select \/ AcceptFails \/ Accept \/ ParseLast \/ \E s \in Slots : ReadEnd(s)
  BY <1>6 DEF Select, AcceptFails, Accept, ParseLast, ReadEnd, Served, EndPass
<1>7. CASE ~ThreadListen /\ ~\E fd \in Fds : Open(fd) \/ CloseFile(fd)
  BY <1>4, <1>7, Effects DEF ThreadListen
<1> QED
  BY <1>2, <1>3, <1>5, <1>6, <1>7 DEF ThreadListen

-----------------------------------------------------------------------------
(* Order.  What a client writes is at the end of its stream, and not older *)
(* than anything of it on its way.                                         *)
LEMMA AttemptOrder ==
  ASSUME IInv, NEW c \in Clients, SendData(c) \/ Repeat(c),
         UNCHANGED <<buffer, rest, again, queue, dealt>>
  PROVE  NumberInv' /\ NetOrder' /\ BufferOrder' /\ QueueOrder' /\ DealtOrder'
<1>1. /\ NumberInv /\ NetOrder /\ BufferOrder /\ QueueOrder /\ DealtOrder
      /\ iSeq \in [Clients -> Nat] /\ net \in [Clients -> Seq(Half)]
      /\ buffer \in Seq(Half) /\ rest \in Seq(Half) /\ queue \in Seq(Frame)
      /\ dealt \in Seq(Clients \X Nat)
  BY DEF IInv, TypeOK
<1>2. PICK k \in Nat : /\ \E n : Attempt(c, k, n)
                       /\ iSeq'[c] = k /\ k >= iSeq[c]
                       /\ \A x \in Clients : x # c => iSeq'[x] = iSeq[x]
  <2>1. iSeq[c] \in Nat /\ iSeq[c] + 1 \in Nat
    BY <1>1
  <2>2. CASE SendData(c)
    <3>1. iSeq' = [iSeq EXCEPT ![c] = iSeq[c] + 1] /\ Attempt(c, iSeq[c] + 1, 1)
      BY <2>2 DEF SendData
    <3>2. /\ iSeq'[c] = iSeq[c] + 1 /\ iSeq[c] + 1 >= iSeq[c]
          /\ \A x \in Clients : x # c => iSeq'[x] = iSeq[x]
      BY <1>1, <2>1, <3>1
    <3>3. \E n : Attempt(c, iSeq[c] + 1, n)
      BY <3>1
    <3> QED
      BY <2>1, <3>2, <3>3
  <2>3. CASE Repeat(c)
    <3>1. iSeq' = iSeq /\ Attempt(c, iSeq[c], count[c] + 1)
      BY <2>3 DEF Repeat
    <3>2. \E n : Attempt(c, iSeq[c], n)
      BY <3>1
    <3>3. iSeq[c] >= iSeq[c]
      BY <2>1
    <3> QED
      BY <2>1, <3>1, <3>2, <3>3
  <2> QED
    BY <2>2, <2>3
<1> DEFINE two == << [of |-> <<c, k>>, part |-> "head"], [of |-> <<c, k>>, part |-> "tail"] >>
<1>3. net' = [net EXCEPT ![c] = net[c] \o two]
  BY <1>2 DEF Attempt
<1>4. /\ two \in Seq(Half) /\ Len(two) = 2
      /\ \A j \in 1..2 : two[j].of = <<c, k>>
  BY DEF Half
<1> HIDE DEF two
<1>5. net[c] \in Seq(Half) /\ Len(net[c]) \in Nat
  <2>1. net[c] \in Seq(Half)
    BY <1>1
  <2> QED
    BY <2>1, LenProperties
<1>6. /\ Len(net[c]) \in Nat /\ Len(net[c] \o two) = Len(net[c]) + 2
      /\ \A j \in 1..Len(net[c]) + 2 :
           (net[c] \o two)[j] = IF j <= Len(net[c]) THEN net[c][j] ELSE two[j - Len(net[c])]
  <2>1. /\ Len(net[c]) \in Nat /\ Len(net[c] \o two) = Len(net[c]) + Len(two)
        /\ \A j \in 1..Len(net[c]) + Len(two) :
             (net[c] \o two)[j] = IF j <= Len(net[c]) THEN net[c][j] ELSE two[j - Len(net[c])]
    BY <1>4, <1>5, ConcatProperties, LenProperties
  <2> QED
    BY <1>4, <2>1
<1>7. /\ \A x \in Clients : x # c => net'[x] = net[x]
      /\ net'[c] = net[c] \o two
  BY <1>1, <1>3
<1>8. ASSUME NEW j \in 1..Len(net'[c])
      PROVE  \/ j \in 1..Len(net[c]) /\ net'[c][j] = net[c][j]
             \/ j > Len(net[c]) /\ net'[c][j].of = <<c, k>>
  <2>1. j \in 1..Len(net[c]) + 2
    BY <1>6, <1>7
  <2>2. CASE j <= Len(net[c])
    BY <1>6, <1>7, <2>1, <2>2
  <2>3. CASE ~(j <= Len(net[c]))
    <3>1. j > Len(net[c]) /\ j - Len(net[c]) \in 1..2
      BY <1>5, <2>1, <2>3
    <3>2. (net[c] \o two)[j] = IF j <= Len(net[c]) THEN net[c][j] ELSE two[j - Len(net[c])]
      BY <1>6, <2>1
    <3>3. net'[c][j] = two[j - Len(net[c])]
      BY <1>7, <2>3, <3>2
    <3> QED
      BY <1>4, <3>1, <3>3
  <2> QED
    BY <2>2, <2>3
<1>9. ASSUME NEW x \in Clients PROVE iSeq[x] <= iSeq'[x] /\ iSeq'[x] \in Nat /\ iSeq[x] \in Nat
  <2>1. iSeq[x] \in Nat
    BY <1>1
  <2>2. CASE x = c
    BY <1>2, <2>1, <2>2
  <2>3. CASE x # c
    BY <1>2, <2>1, <2>3
  <2> QED
    BY <2>2, <2>3
<1>10. \A a \in Clients \X Nat : a[2] <= iSeq[a[1]] => a[2] <= iSeq'[a[1]] /\ Before(again, a, <<c, k>>)
  BY <1>2, <1>9 DEF Before
<1>11. /\ \A x \in Clients : \A j \in 1..Len(net[x]) : net[x][j].of \in Clients \X Nat
       /\ \A j \in 1..Len(buffer) : buffer[j].of \in Clients \X Nat
       /\ \A j \in 1..Len(rest) : rest[j].of \in Clients \X Nat
       /\ \A j \in 1..Len(queue) : queue[j].head \in Clients \X Nat
       /\ \A j \in 1..Len(dealt) : dealt[j] \in Clients \X Nat
  <2>1. \A h \in Half : h.of \in Clients \X Nat
    BY DEF Half
  <2>2. \A f \in Frame : f.head \in Clients \X Nat
    BY DEF Frame
  <2> QED
    BY <1>1, <2>1, <2>2, ElementOfSeq
<1>12. NumberInv'
  <2>1. ASSUME NEW x \in Clients, NEW j \in 1..Len(net'[x])
        PROVE  net'[x][j].of[1] = x /\ net'[x][j].of[2] <= iSeq'[x]
    <3>1. CASE x # c
      BY <1>1, <1>2, <1>7, <3>1 DEF NumberInv
    <3>2. CASE x = c /\ j \in 1..Len(net[c]) /\ net'[c][j] = net[c][j]
      BY <1>1, <1>10, <1>11, <3>2 DEF NumberInv
    <3>3. CASE x = c /\ net'[c][j].of = <<c, k>>
      BY <1>2, <3>3
    <3> QED
      BY <1>8, <2>1, <3>1, <3>2, <3>3
  <2>2. \A j \in 1..Len(buffer) : buffer[j].of[2] <= iSeq'[buffer[j].of[1]]
    BY <1>1, <1>10, <1>11 DEF NumberInv
  <2>3. \A j \in 1..Len(queue) : queue[j].head[2] <= iSeq'[queue[j].head[1]]
    BY <1>1, <1>10, <1>11 DEF NumberInv
  <2>4. \A j \in 1..Len(dealt) : dealt[j][2] <= iSeq'[dealt[j][1]]
    BY <1>1, <1>10, <1>11 DEF NumberInv
  <2>5. \A j \in 1..Len(rest) : rest[j].of[2] <= iSeq'[rest[j].of[1]]
    BY <1>1, <1>10, <1>11 DEF NumberInv
  <2>6. UNCHANGED <<buffer, rest, queue, dealt>>
    OBVIOUS
  <2> QED
    BY <2>1, <2>2, <2>3, <2>4, <2>5, <2>6 DEF NumberInv
<1>13. NetOrder'
  <2> SUFFICES ASSUME NEW x \in Clients, NEW j \in 1..Len(net'[x]), NEW m \in 1..Len(net'[x]), j < m
               PROVE  Before(again, net'[x][j].of, net'[x][m].of)
    BY DEF NetOrder
  <2>1. CASE x # c
    BY <1>1, <1>7, <2>1 DEF NetOrder
  <2>2. CASE x = c
    <3>1. CASE m \in 1..Len(net[c]) /\ net'[c][m] = net[c][m]
      <4>1. j \in 1..Len(net[c]) /\ net'[c][j] = net[c][j]
        BY <1>6, <1>8, <2>2, <3>1, SMTT(30)
      <4> QED
        BY <1>1, <2>2, <3>1, <4>1 DEF NetOrder
    <3>2. CASE net'[c][m].of = <<c, k>>
      <4>1. CASE j \in 1..Len(net[c]) /\ net'[c][j] = net[c][j]
        <5>1. net[c][j].of[2] <= iSeq[net[c][j].of[1]] /\ net[c][j].of \in Clients \X Nat
          BY <1>1, <1>11, <4>1 DEF NumberInv
        <5> QED
          BY <1>10, <2>2, <3>2, <4>1, <5>1
      <4>2. CASE net'[c][j].of = <<c, k>>
        BY <2>2, <3>2, <4>2 DEF Before
      <4> QED
        BY <1>8, <2>2, <4>1, <4>2
    <3> QED
      BY <1>8, <2>2, <3>1, <3>2
  <2> QED
    BY <2>1, <2>2
<1>14. ASSUME NEW a \in Clients \X Nat, a[2] <= iSeq[a[1]],
              \A x \in Clients : \A m \in 1..Len(net[x]) : Before(again, a, net[x][m].of)
       PROVE  \A x \in Clients : \A m \in 1..Len(net'[x]) : Before(again, a, net'[x][m].of)
  <2> SUFFICES ASSUME NEW x \in Clients, NEW m \in 1..Len(net'[x]) PROVE Before(again, a, net'[x][m].of)
    OBVIOUS
  <2>1. CASE x # c
    BY <1>7, <1>14, <2>1
  <2>2. CASE x = c
    BY <1>8, <1>10, <1>14, <2>2
  <2> QED
    BY <2>1, <2>2
<1>15. BufferOrder'
  <2>1. \A j \in 1..Len(buffer) : \A x \in Clients : \A m \in 1..Len(net'[x]) :
          Before(again, buffer[j].of, net'[x][m].of)
    BY <1>1, <1>11, <1>14 DEF BufferOrder, NumberInv
  <2> QED
    BY <1>1, <2>1 DEF BufferOrder
<1>16. QueueOrder'
  <2>1. \A j \in 1..Len(queue) : \A x \in Clients : \A m \in 1..Len(net'[x]) :
          Before(again, queue[j].head, net'[x][m].of)
    BY <1>1, <1>11, <1>14 DEF QueueOrder, NumberInv
  <2> QED
    BY <1>1, <2>1 DEF QueueOrder
<1>17. DealtOrder'
  <2>1. \A j \in 1..Len(dealt) : \A x \in Clients : \A m \in 1..Len(net'[x]) :
          Before(again, dealt[j], net'[x][m].of)
    BY <1>1, <1>11, <1>14 DEF DealtOrder, NumberInv
  <2> QED
    BY <1>1, <2>1 DEF DealtOrder
<1> QED
  BY <1>12, <1>13, <1>15, <1>16, <1>17

(* A read takes the front of one client's stream, and puts it behind the   *)
(* buffer.                                                                 *)
LEMMA ReadOrder ==
  ASSUME IInv, NEW s \in Slots, ReadData(s)
  PROVE  NumberInv' /\ NetOrder' /\ BufferOrder' /\ QueueOrder' /\ DealtOrder'
<1>1. /\ NumberInv /\ NetOrder /\ BufferOrder /\ QueueOrder /\ DealtOrder
      /\ iSeq \in [Clients -> Nat] /\ net \in [Clients -> Seq(Half)]
      /\ buffer \in Seq(Half)
  BY DEF IInv, TypeOK
<1>2. UNCHANGED <<iSeq, again, queue, dealt>>
  BY DEF ReadData, client, call, deal
<1>3. PICK c \in Clients, n \in Nat :
           /\ n \in 0..Len(net[c]) /\ m_client[s] \in Fds /\ owner[m_client[s]] = c
           /\ rest' = SubSeq(net[c], 1, n) /\ buffer' = buffer \o SubSeq(net[c], 1, n)
           /\ net' = [net EXCEPT ![c] = SubSeq(@, n + 1, Len(@))]
           /\ mixed' = (mixed \/ \E j \in 1..Len(buffer) : buffer[j].of[1] # c)
  BY ReadShape DEF IInv
<1>5. net[c] \in Seq(Half) /\ Len(net[c]) \in Nat /\ n \in 0..Len(net[c]) /\ Len(buffer) \in Nat
  <2>1. net[c] \in Seq(Half)
    BY <1>1
  <2>2. Len(net[c]) \in Nat /\ Len(buffer) \in Nat
    BY <1>1, <2>1, LenProperties
  <2> QED
    BY <1>3, <2>1, <2>2
<1> DEFINE r == SubSeq(net[c], 1, n)
           w == SubSeq(net[c], n + 1, Len(net[c]))
<1>6. /\ r \in Seq(Half) /\ Len(r) = n /\ \A j \in 1..n : r[j] = net[c][j]
      /\ w \in Seq(Half) /\ Len(w) = Len(net[c]) - n
      /\ \A j \in 1..Len(net[c]) - n : w[j] = net[c][n + j]
  BY <1>5, Split
<1>7. buffer' = buffer \o r /\ rest' = r /\ net' = [net EXCEPT ![c] = w]
  BY <1>3
<1> HIDE DEF r, w
<1>8. net'[c] = w /\ \A x \in Clients : x # c => net'[x] = net[x]
  BY <1>1, <1>7
<1>9. Len(buffer') \in Nat /\ \A j \in 1..Len(buffer') :
        \/ j \in 1..Len(buffer) /\ buffer'[j] = buffer[j]
        \/ j > Len(buffer) /\ j - Len(buffer) \in 1..n /\ buffer'[j] = net[c][j - Len(buffer)]
  <2>1. /\ Len(buffer') = Len(buffer) + n
        /\ \A j \in 1..Len(buffer) + n : buffer'[j] = IF j <= Len(buffer) THEN buffer[j] ELSE r[j - Len(buffer)]
    <3>1. /\ Len(buffer \o r) = Len(buffer) + Len(r)
          /\ \A j \in 1..Len(buffer) + Len(r) :
               (buffer \o r)[j] = IF j <= Len(buffer) THEN buffer[j] ELSE r[j - Len(buffer)]
      BY <1>1, <1>6, ConcatProperties
    <3> QED
      BY <1>6, <1>7, <3>1
  <2>2. ASSUME NEW j \in 1..Len(buffer')
        PROVE  \/ j \in 1..Len(buffer) /\ buffer'[j] = buffer[j]
               \/ j > Len(buffer) /\ j - Len(buffer) \in 1..n /\ buffer'[j] = net[c][j - Len(buffer)]
    <3>1. CASE j <= Len(buffer)
      BY <1>5, <2>1, <3>1
    <3>2. CASE ~(j <= Len(buffer))
      <4>1. j > Len(buffer) /\ j - Len(buffer) \in 1..n
        BY <1>5, <2>1, <3>2
      <4> QED
        BY <1>6, <2>1, <3>2, <4>1
    <3> QED
      BY <3>1, <3>2
  <2> QED
    BY <1>5, <2>1, <2>2
<1>10. ASSUME NEW x \in Clients, NEW k \in 1..Len(net'[x])
       PROVE  \/ x # c /\ k \in 1..Len(net[x]) /\ net'[x][k] = net[x][k]
              \/ x = c /\ n + k \in 1..Len(net[c]) /\ net'[c][k] = net[c][n + k]
  <2>1. CASE x # c
    BY <1>8, <2>1
  <2>2. CASE x = c
    <3>1. k \in 1..Len(net[c]) - n
      BY <1>6, <1>8, <2>2
    <3>2. n + k \in 1..Len(net[c])
      BY <1>5, <3>1
    <3> QED
      BY <1>6, <1>8, <2>2, <3>1, <3>2
  <2> QED
    BY <2>1, <2>2
<1>12. \A j \in 1..Len(buffer') : buffer'[j].of[2] <= iSeq[buffer'[j].of[1]]
  <2> SUFFICES ASSUME NEW j \in 1..Len(buffer') PROVE buffer'[j].of[2] <= iSeq[buffer'[j].of[1]]
    OBVIOUS
  <2>1. CASE j \in 1..Len(buffer) /\ buffer'[j] = buffer[j]
    BY <1>1, <2>1 DEF NumberInv
  <2>2. CASE j - Len(buffer) \in 1..n /\ buffer'[j] = net[c][j - Len(buffer)]
    <3>1. j - Len(buffer) \in 1..Len(net[c])
      BY <1>5, <2>2
    <3>2. \A m \in 1..Len(net[c]) : net[c][m].of[1] = c /\ net[c][m].of[2] <= iSeq[c]
      BY <1>1 DEF NumberInv
    <3>3. buffer'[j].of[1] = c /\ buffer'[j].of[2] <= iSeq[c]
      BY <2>2, <3>1, <3>2
    <3> QED
      BY <3>3
  <2> QED
    BY <1>9, <2>1, <2>2
<1>13. \A j, k \in 1..Len(buffer') : j < k => Before(again, buffer'[j].of, buffer'[k].of)
  <2> SUFFICES ASSUME NEW j \in 1..Len(buffer'), NEW k \in 1..Len(buffer'), j < k PROVE Before(again, buffer'[j].of, buffer'[k].of)
    OBVIOUS
  <2>1. CASE k \in 1..Len(buffer) /\ buffer'[k] = buffer[k]
    <3>1. j \in 1..Len(buffer) /\ buffer'[j] = buffer[j]
      BY <1>5, <1>9, <2>1
    <3> QED
      BY <1>1, <2>1, <3>1 DEF BufferOrder
  <2>2. CASE k > Len(buffer) /\ k - Len(buffer) \in 1..n /\ buffer'[k] = net[c][k - Len(buffer)]
    <3>1. k - Len(buffer) \in 1..Len(net[c])
      BY <1>5, <2>2
    <3>2. CASE j \in 1..Len(buffer) /\ buffer'[j] = buffer[j]
      BY <1>1, <2>2, <3>1, <3>2 DEF BufferOrder
    <3>3. CASE j - Len(buffer) \in 1..n /\ buffer'[j] = net[c][j - Len(buffer)]
      <4>1. j - Len(buffer) \in 1..Len(net[c])
        BY <1>5, <3>3
      <4>2. j \in Int /\ k \in Int /\ j < k
        BY <1>9
      <4>3. j - Len(buffer) < k - Len(buffer)
        BY <1>5, <4>2
      <4> QED
        BY <1>1, <2>2, <3>1, <3>3, <4>1, <4>3 DEF NetOrder
    <3> QED
      BY <1>9, <3>2, <3>3
  <2> QED
    BY <1>9, <2>1, <2>2
<1>14. ASSUME NEW j \in 1..Len(buffer'), NEW x \in Clients, NEW k \in 1..Len(net'[x])
       PROVE  Before(again, buffer'[j].of, net'[x][k].of)
  <2>1. CASE j \in 1..Len(buffer) /\ buffer'[j] = buffer[j]
    BY <1>1, <1>10, <2>1 DEF BufferOrder
  <2>2. CASE j - Len(buffer) \in 1..n /\ buffer'[j] = net[c][j - Len(buffer)]
    <3>1. j - Len(buffer) \in 1..Len(net[c])
      BY <1>5, <2>2
    <3>2. CASE x # c /\ k \in 1..Len(net[x]) /\ net'[x][k] = net[x][k]
      <4>1. buffer'[j].of[1] = c /\ net'[x][k].of[1] = x
        BY <1>1, <2>2, <3>1, <3>2 DEF NumberInv
      <4> QED
        BY <3>2, <4>1 DEF Before
    <3>3. CASE x = c /\ n + k \in 1..Len(net[c]) /\ net'[c][k] = net[c][n + k]
      <4>1. j - Len(buffer) < n + k
        BY <1>5, <1>8, <2>2, <3>3
      <4> QED
        BY <1>1, <2>2, <3>1, <3>3, <4>1 DEF NetOrder
    <3> QED
      BY <1>10, <3>2, <3>3
  <2> QED
    BY <1>9, <2>1, <2>2
<1>15. ASSUME NEW p, \A k \in 1..Len(buffer) : Before(again, p, buffer[k].of),
              \A k \in 1..Len(net[c]) : Before(again, p, net[c][k].of)
       PROVE  \A k \in 1..Len(buffer') : Before(again, p, buffer'[k].of)
  <2> SUFFICES ASSUME NEW k \in 1..Len(buffer') PROVE Before(again, p, buffer'[k].of)
    OBVIOUS
  <2>1. CASE k \in 1..Len(buffer) /\ buffer'[k] = buffer[k]
    BY <1>15, <2>1
  <2>2. CASE k - Len(buffer) \in 1..n /\ buffer'[k] = net[c][k - Len(buffer)]
    <3>1. k - Len(buffer) \in 1..Len(net[c])
      BY <1>5, <2>2
    <3> QED
      BY <1>15, <2>2, <3>1
  <2> QED
    BY <1>9, <2>1, <2>2
<1>16. ASSUME NEW p, \A x \in Clients : \A k \in 1..Len(net[x]) : Before(again, p, net[x][k].of)
       PROVE  \A x \in Clients : \A k \in 1..Len(net'[x]) : Before(again, p, net'[x][k].of)
  BY <1>10, <1>16
<1>17. \A j \in 1..Len(queue) : \A k \in 1..Len(buffer') : Before(again, queue[j].head, buffer'[k].of)
  BY <1>1, <1>15 DEF QueueOrder
<1>18. \A j \in 1..Len(dealt) : \A k \in 1..Len(buffer') : Before(again, dealt[j], buffer'[k].of)
  BY <1>1, <1>15 DEF DealtOrder
<1>19. \A j \in 1..Len(rest') : rest'[j].of[2] <= iSeq[rest'[j].of[1]]
  <2> SUFFICES ASSUME NEW j \in 1..n PROVE r[j].of[2] <= iSeq[r[j].of[1]]
    BY <1>6, <1>7
  <2>1. j \in 1..Len(net[c]) /\ r[j] = net[c][j]
    BY <1>5, <1>6
  <2>2. net[c][j].of[1] = c /\ net[c][j].of[2] <= iSeq[c]
    BY <1>1, <2>1 DEF NumberInv
  <2> QED
    BY <2>1, <2>2
<1>21. NumberInv'
  <2>1. ASSUME NEW x \in Clients, NEW j \in 1..Len(net'[x])
        PROVE  net'[x][j].of[1] = x /\ net'[x][j].of[2] <= iSeq[x]
    <3>1. \A y \in Clients : \A m \in 1..Len(net[y]) :
            net[y][m].of[1] = y /\ net[y][m].of[2] <= iSeq[y]
      BY <1>1 DEF NumberInv
    <3>2. CASE x # c /\ j \in 1..Len(net[x]) /\ net'[x][j] = net[x][j]
      BY <3>1, <3>2
    <3>3. CASE x = c /\ n + j \in 1..Len(net[c]) /\ net'[c][j] = net[c][n + j]
      BY <3>1, <3>3
    <3> QED
      BY <1>10, <3>2, <3>3
  <2> QED
    BY <1>1, <1>2, <1>12, <1>19, <2>1 DEF NumberInv
<1>22. NetOrder'
  <2> SUFFICES ASSUME NEW x \in Clients, NEW j \in 1..Len(net'[x]), NEW k \in 1..Len(net'[x]), j < k
               PROVE  Before(again, net'[x][j].of, net'[x][k].of)
    BY <1>2 DEF NetOrder
  <2>1. CASE x # c
    BY <1>1, <1>8, <2>1 DEF NetOrder
  <2>2. CASE x = c
    <3>1. /\ n + j \in 1..Len(net[c]) /\ net'[c][j] = net[c][n + j]
          /\ n + k \in 1..Len(net[c]) /\ net'[c][k] = net[c][n + k]
      BY <1>10, <2>2
    <3>2. n + j < n + k
      BY <1>5
    <3> QED
      BY <1>1, <2>2, <3>1, <3>2 DEF NetOrder
  <2> QED
    BY <2>1, <2>2
<1>23. BufferOrder'
  BY <1>2, <1>13, <1>14 DEF BufferOrder
<1>24. QueueOrder'
  <2>1. \A j \in 1..Len(queue) : \A x \in Clients : \A k \in 1..Len(net'[x]) :
          Before(again, queue[j].head, net'[x][k].of)
    BY <1>1, <1>16 DEF QueueOrder
  <2> QED
    BY <1>1, <1>2, <1>17, <2>1 DEF QueueOrder
<1>25. DealtOrder'
  <2>1. \A j \in 1..Len(dealt) : \A x \in Clients : \A k \in 1..Len(net'[x]) :
          Before(again, dealt[j], net'[x][k].of)
    BY <1>1, <1>16 DEF DealtOrder
  <2> QED
    BY <1>1, <1>2, <1>18, <2>1 DEF DealtOrder
<1> QED
  BY <1>21, <1>22, <1>23, <1>24, <1>25

(* A round of OnRecvMsg takes from the buffer's front, for the queue or    *)
(* for nothing.  What it puts behind the buffer a second time is of a      *)
(* client in again, of whose order nothing is said from there on.          *)
LEMMA ParseOrder ==
  ASSUME IInv, ParseNext \/ ParseLast
  PROVE  NumberInv' /\ NetOrder' /\ BufferOrder' /\ QueueOrder' /\ DealtOrder'
<1>1. /\ TypeOK /\ NumberInv /\ NetOrder /\ BufferOrder /\ QueueOrder /\ DealtOrder
      /\ buffer \in Seq(Half) /\ rest \in Seq(Half) /\ queue \in Seq(Frame)
  BY DEF IInv, TypeOK
<1>2. UNCHANGED <<iSeq, net, dealt>> /\ lpc = "parse"
  BY DEF ParseNext, ParseLast, client, call, deal
<1> DEFINE c == owner[m_client[i]]
<1>3. m_client[i] \in Fds /\ \A j \in 1..Len(rest) : rest[j].of[1] = c
  BY <1>2 DEF IInv, ReaderInv
<1>4. PICK a \in 0..Len(buffer), t \in Seq(Half) :
           /\ buffer' = SubSeq(buffer, a + 1, Len(buffer)) \o t
           /\ rest' = t
           /\ \/ ParseLast /\ t = << >> /\ again' = again
              \/ /\ ParseNext /\ Len(rest) > 2 /\ t = SubSeq(rest, 3, Len(rest))
                 /\ again' = again \cup {c}
           /\ \/ queue' = queue
              \/ \E h \in 1..a : \E f \in Frame :
                   /\ f.head = buffer[h].of /\ f.fd = m_client[i]
                   /\ queue' = Append(queue, f)
  BY <1>1, <1>2, <1>3, ParseShape
<1>5. again \subseteq again' /\ Len(buffer) \in Nat /\ Len(rest) \in Nat /\ Len(queue) \in Nat
      /\ Len(t) \in Nat /\ a \in Nat
  BY <1>1, <1>4, LenProperties
<1>6. ASSUME NEW l \in 1..Len(t)
      PROVE  t[l].of[1] \in again' /\ t[l].of[2] <= iSeq[t[l].of[1]]
  <2>1. /\ ParseNext /\ Len(rest) > 2 /\ t = SubSeq(rest, 3, Len(rest))
        /\ again' = again \cup {c}
    <3>1. t # << >>
      BY <1>6, LenProperties
    <3> QED
      BY <1>4, <3>1
  <2>2. PICK two \in 0..Len(rest) : two = 2 /\ t = SubSeq(rest, two + 1, Len(rest))
    BY <1>5, <2>1
  <2>3. Len(t) = Len(rest) - two /\ \A j \in 1..Len(rest) - two : t[j] = rest[two + j]
    BY <1>1, <2>2, Split
  <2>4. 2 + l \in 1..Len(rest) /\ t[l] = rest[2 + l]
    BY <1>5, <2>1, <2>2, <2>3
  <2>5. t[l].of[1] = c
    BY <1>3, <2>4
  <2> QED
    BY <1>1, <2>1, <2>4, <2>5 DEF NumberInv
<1> HIDE DEF c
<1>7. ASSUME NEW j \in 1..Len(buffer')
      PROVE  \/ a + j \in 1..Len(buffer) /\ buffer'[j] = buffer[a + j]
             \/ /\ buffer'[j].of[1] \in again'
                /\ buffer'[j].of[2] <= iSeq[buffer'[j].of[1]]
  <2> DEFINE r == SubSeq(buffer, a + 1, Len(buffer))
  <2>1. r \in Seq(Half) /\ Len(r) = Len(buffer) - a
        /\ \A k \in 1..Len(buffer) - a : r[k] = buffer[a + k]
    BY <1>1, <1>4, Split
  <2>2. buffer' = r \o t
    BY <1>4
  <2> HIDE DEF r
  <2>3. /\ Len(buffer') = Len(r) + Len(t)
        /\ \A k \in 1..Len(r) + Len(t) : buffer'[k] = IF k <= Len(r) THEN r[k] ELSE t[k - Len(r)]
    BY <2>1, <2>2, ConcatProperties
  <2>4. CASE j <= Len(r)
    <3>1. buffer'[j] = r[j] /\ j \in 1..Len(buffer) - a /\ a + j \in 1..Len(buffer)
      BY <1>5, <2>1, <2>3, <2>4
    <3> QED
      BY <2>1, <3>1
  <2>5. CASE ~(j <= Len(r))
    <3>1. Len(r) \in Nat /\ j \in 1..Len(r) + Len(t) /\ j - Len(r) \in 1..Len(t)
      BY <1>5, <2>1, <2>3, <2>5, LenProperties
    <3>2. buffer'[j] = t[j - Len(r)]
      BY <2>3, <2>5, <3>1
    <3> QED
      BY <1>6, <3>1, <3>2
  <2> QED
    BY <2>4, <2>5
<1>8. Len(buffer') \in Nat
  <2>1. SubSeq(buffer, a + 1, Len(buffer)) \in Seq(Half)
    BY <1>1, <1>4, Split
  <2>2. buffer' \in Seq(Half)
    BY <1>4, <2>1, ConcatProperties
  <2> QED
    BY <2>2, LenProperties
(* What was in order stays so, and of the clients in again all are.        *)
<1>9. /\ \A p, q : Before(again, p, q) => Before(again', p, q)
      /\ \A p, q : q[1] \in again' => Before(again', p, q)
      /\ \A p, q : p[1] \in again' => Before(again', p, q)
  BY <1>5 DEF Before
(* The queue: as it was, or longer by a frame of the buffer *)
<1>10. \A j \in 1..Len(queue') :
         \/ j \in 1..Len(queue) /\ queue'[j] = queue[j]
         \/ j = Len(queue) + 1 /\ \E h \in 1..a : h \in 1..Len(buffer) /\ queue'[j].head = buffer[h].of
  <2>1. CASE queue' = queue
    BY <2>1
  <2>2. ASSUME NEW h \in 1..a, NEW f \in Frame, f.head = buffer[h].of, queue' = Append(queue, f)
        PROVE  \A j \in 1..Len(queue') :
                 \/ j \in 1..Len(queue) /\ queue'[j] = queue[j]
                 \/ j = Len(queue) + 1 /\ h \in 1..Len(buffer) /\ queue'[j].head = buffer[h].of
    <3>1. /\ Len(queue') = Len(queue) + 1
          /\ \A j \in 1..Len(queue) : queue'[j] = queue[j]
          /\ queue'[Len(queue) + 1] = f
      BY <1>1, <2>2, AppendProperties
    <3>2. h \in 1..Len(buffer)
      BY <1>4, <1>5, <2>2
    <3> QED
      BY <1>5, <2>2, <3>1, <3>2
  <2> QED
    BY <1>4, <2>1, <2>2
<1>11. NumberInv'
  <2>1. \A j \in 1..Len(buffer') : buffer'[j].of[2] <= iSeq[buffer'[j].of[1]]
    BY <1>1, <1>7 DEF NumberInv
  <2>2. \A j \in 1..Len(rest') : rest'[j].of[2] <= iSeq[rest'[j].of[1]]
    BY <1>4, <1>6
  <2>3. \A j \in 1..Len(queue') : queue'[j].head[2] <= iSeq[queue'[j].head[1]]
    BY <1>1, <1>10 DEF NumberInv
  <2> QED
    BY <1>1, <1>2, <2>1, <2>2, <2>3 DEF NumberInv
<1>12. NetOrder'
  BY <1>1, <1>2, <1>9 DEF NetOrder
(* Of what is further on than the buffer as it was, or at its front        *)
<1>13. ASSUME NEW p, \A k \in 1..Len(buffer) : Before(again, p, buffer[k].of)
       PROVE  \A k \in 1..Len(buffer') : Before(again', p, buffer'[k].of)
  BY <1>7, <1>9, <1>13
<1>14. BufferOrder'
  <2>1. ASSUME NEW j \in 1..Len(buffer'), NEW k \in 1..Len(buffer'), j < k
        PROVE  Before(again', buffer'[j].of, buffer'[k].of)
    <3>1. CASE buffer'[j].of[1] \in again' \/ buffer'[k].of[1] \in again'
      BY <1>9, <3>1
    <3>2. CASE /\ a + j \in 1..Len(buffer) /\ buffer'[j] = buffer[a + j]
               /\ a + k \in 1..Len(buffer) /\ buffer'[k] = buffer[a + k]
      <4>1. a + j < a + k
        BY <1>5, <1>8, <2>1
      <4>2. Before(again, buffer'[j].of, buffer'[k].of)
        BY <1>1, <3>2, <4>1 DEF BufferOrder
      <4> QED
        BY <1>9, <4>2
    <3> QED
      BY <1>7, <3>1, <3>2
  <2>2. ASSUME NEW j \in 1..Len(buffer'), NEW x \in Clients, NEW k \in 1..Len(net[x])
        PROVE  Before(again', buffer'[j].of, net[x][k].of)
    <3>1. CASE buffer'[j].of[1] \in again'
      BY <1>9, <3>1
    <3>2. CASE a + j \in 1..Len(buffer) /\ buffer'[j] = buffer[a + j]
      <4>1. Before(again, buffer'[j].of, net[x][k].of)
        BY <1>1, <3>2 DEF BufferOrder
      <4> QED
        BY <1>9, <4>1
    <3> QED
      BY <1>7, <3>1, <3>2
  <2> QED
    BY <1>2, <2>1, <2>2 DEF BufferOrder
<1>15. QueueOrder'
  <2>1. ASSUME NEW j \in 1..Len(queue'), NEW k \in 1..Len(queue'), j < k
        PROVE  Before(again', queue'[j].head, queue'[k].head)
    <3>1. j \in 1..Len(queue) /\ queue'[j] = queue[j]
      <4>1. ~(j = Len(queue) + 1)
        BY <1>5, <1>10, <2>1
      <4> QED
        BY <1>10, <4>1
    <3>2. Before(again, queue'[j].head, queue'[k].head)
      <4>1. CASE k \in 1..Len(queue) /\ queue'[k] = queue[k]
        BY <1>1, <2>1, <3>1, <4>1 DEF QueueOrder
      <4>2. CASE \E h \in 1..a : h \in 1..Len(buffer) /\ queue'[k].head = buffer[h].of
        BY <1>1, <3>1, <4>2 DEF QueueOrder
      <4> QED
        BY <1>10, <4>1, <4>2
    <3> QED
      BY <1>9, <3>2
  <2>2. ASSUME NEW j \in 1..Len(queue'), NEW k \in 1..Len(buffer')
        PROVE  Before(again', queue'[j].head, buffer'[k].of)
    <3>1. CASE j \in 1..Len(queue) /\ queue'[j] = queue[j]
      <4>1. \A l \in 1..Len(buffer) : Before(again, queue[j].head, buffer[l].of)
        BY <1>1, <3>1 DEF QueueOrder
      <4> QED
        BY <1>13, <3>1, <4>1
    <3>2. ASSUME NEW h \in 1..a, h \in 1..Len(buffer), queue'[j].head = buffer[h].of
          PROVE  Before(again', queue'[j].head, buffer'[k].of)
      <4>1. CASE buffer'[k].of[1] \in again'
        BY <1>9, <4>1
      <4>2. CASE a + k \in 1..Len(buffer) /\ buffer'[k] = buffer[a + k]
        <5>1. h < a + k
          BY <1>5, <1>8
        <5>2. Before(again, buffer[h].of, buffer[a + k].of)
          BY <1>1, <3>2, <4>2, <5>1 DEF BufferOrder
        <5> QED
          BY <1>9, <3>2, <4>2, <5>2
      <4> QED
        BY <1>7, <4>1, <4>2
    <3> QED
      BY <1>10, <3>1, <3>2
  <2>3. ASSUME NEW j \in 1..Len(queue'), NEW x \in Clients, NEW k \in 1..Len(net[x])
        PROVE  Before(again', queue'[j].head, net[x][k].of)
    <3>1. CASE j \in 1..Len(queue) /\ queue'[j] = queue[j]
      BY <1>1, <1>9, <3>1 DEF QueueOrder
    <3>2. CASE \E h \in 1..a : h \in 1..Len(buffer) /\ queue'[j].head = buffer[h].of
      BY <1>1, <1>9, <3>2 DEF BufferOrder
    <3> QED
      BY <1>10, <3>1, <3>2
  <2> QED
    BY <1>2, <2>1, <2>2, <2>3 DEF QueueOrder
<1>16. DealtOrder'
  <2>1. ASSUME NEW j \in 1..Len(dealt), NEW k \in 1..Len(queue')
        PROVE  Before(again', dealt[j], queue'[k].head)
    <3>1. CASE k \in 1..Len(queue) /\ queue'[k] = queue[k]
      BY <1>1, <1>9, <3>1 DEF DealtOrder
    <3>2. CASE \E h \in 1..a : h \in 1..Len(buffer) /\ queue'[k].head = buffer[h].of
      BY <1>1, <1>9, <3>2 DEF DealtOrder
    <3> QED
      BY <1>10, <3>1, <3>2
  <2>2. ASSUME NEW j \in 1..Len(dealt), NEW k \in 1..Len(buffer')
        PROVE  Before(again', dealt[j], buffer'[k].of)
    <3>1. \A l \in 1..Len(buffer) : Before(again, dealt[j], buffer[l].of)
      BY <1>1 DEF DealtOrder
    <3> QED
      BY <1>13, <3>1
  <2>3. ASSUME NEW j \in 1..Len(dealt), NEW x \in Clients, NEW k \in 1..Len(net[x])
        PROVE  Before(again', dealt[j], net[x][k].of)
    BY <1>1, <1>9 DEF DealtOrder
  <2>4. \A j, k \in 1..Len(dealt) : j < k => Before(again', dealt[j], dealt[k])
    BY <1>1, <1>9 DEF DealtOrder
  <2> QED
    BY <1>2, <2>1, <2>2, <2>3, <2>4 DEF DealtOrder
<1> QED
  BY <1>11, <1>12, <1>14, <1>15, <1>16

(* ThreadDeal moves the head of the queue behind dealt, or drops it.       *)
LEMMA DealShape ==
  ASSUME TypeOK, DealRequest \/ DealDuplicate
  PROVE  /\ UNCHANGED <<iSeq, conn, owner, net, buffer, rest, mixed, again>>
         /\ Len(queue) \in Nat /\ 1 \in 1..Len(queue) /\ queue[1] \in Frame
         /\ Head(queue) = queue[1] /\ Len(queue') = Len(queue) - 1
         /\ \A j \in 1..Len(queue') : j + 1 \in 1..Len(queue) /\ queue'[j] = queue[j + 1]
         /\ Len(dealt) \in Nat /\ Len(dealt') \in Nat /\ Len(dealt) <= Len(dealt')
         /\ \A j \in 1..Len(dealt) : dealt'[j] = dealt[j]
         /\ \A j \in 1..Len(dealt') :
              \/ j \in 1..Len(dealt) /\ dealt'[j] = dealt[j]
              \/ j = Len(dealt) + 1 /\ dealt'[j] = queue[1].head
<1>1. queue \in Seq(Frame) /\ dealt \in Seq(Clients \X Nat) /\ queue # << >> /\ queue' = Tail(queue)
  BY DEF TypeOK, DealRequest, DealDuplicate
<1>2. UNCHANGED <<iSeq, conn, owner, net, buffer, rest, mixed, again>>
  BY DEF DealRequest, DealDuplicate, client, call, table, parser
<1>3. Len(queue) \in Nat /\ Len(queue) # 0 /\ Len(dealt) \in Nat
  BY <1>1, LenProperties, EmptySeq
<1>4. /\ Head(queue) = queue[1] /\ queue[1] \in Frame /\ 1 \in 1..Len(queue)
  BY <1>1, <1>3, HeadTailProperties, ElementOfSeq
<1>5. /\ Len(queue') = Len(queue) - 1
      /\ \A j \in 1..Len(queue') : j + 1 \in 1..Len(queue) /\ queue'[j] = queue[j + 1]
  <2>1. Len(Tail(queue)) = Len(queue) - 1 /\ \A j \in 1..Len(Tail(queue)) : Tail(queue)[j] = queue[j + 1]
    BY <1>1, HeadTailProperties
  <2>2. \A j \in 1..Len(queue) - 1 : j + 1 \in 1..Len(queue)
    BY <1>3
  <2> QED
    BY <1>1, <2>1, <2>2
<1>6. /\ Len(dealt') \in Nat /\ Len(dealt) <= Len(dealt')
      /\ \A j \in 1..Len(dealt) : dealt'[j] = dealt[j]
      /\ \A j \in 1..Len(dealt') :
           \/ j \in 1..Len(dealt) /\ dealt'[j] = dealt[j]
           \/ j = Len(dealt) + 1 /\ dealt'[j] = queue[1].head
  <2>1. CASE DealRequest
    <3>1. dealt' = Append(dealt, queue[1].head) /\ queue[1].head \in Clients \X Nat
      BY <1>4, <2>1 DEF DealRequest, Frame
    <3>2. /\ Len(dealt') = Len(dealt) + 1 /\ dealt'[Len(dealt) + 1] = queue[1].head
          /\ \A j \in 1..Len(dealt) : dealt'[j] = dealt[j]
      BY <1>1, <1>4, <3>1, AppendProperties
    <3> QED
      BY <1>3, <3>2
  <2>2. CASE DealDuplicate
    BY <1>3, <2>2 DEF DealDuplicate, deal
  <2> QED
    BY <2>1, <2>2
<1> QED
  BY <1>2, <1>3, <1>4, <1>5, <1>6

LEMMA DealOrder ==
  ASSUME IInv, DealRequest \/ DealDuplicate
  PROVE  NumberInv' /\ NetOrder' /\ BufferOrder' /\ QueueOrder' /\ DealtOrder'
<1>1. /\ NumberInv /\ NetOrder /\ BufferOrder /\ QueueOrder /\ DealtOrder /\ TypeOK
  BY DEF IInv
<1>2. UNCHANGED <<iSeq, net, buffer, rest, again>> /\ Len(queue) \in Nat /\ 1 \in 1..Len(queue)
  BY <1>1, DealShape
<1>3. ASSUME NEW j \in 1..Len(queue')
      PROVE  j + 1 \in 1..Len(queue) /\ queue'[j] = queue[j + 1] /\ j \in Nat /\ 1 < j + 1
  <2>1. j + 1 \in 1..Len(queue) /\ queue'[j] = queue[j + 1]
    BY <1>1, DealShape
  <2>2. Len(queue') \in Nat
    BY <1>1, <1>2, DealShape
  <2>3. j \in Nat /\ 1 < j + 1
    BY <2>2
  <2> QED
    BY <2>1, <2>3
<1>4. ASSUME NEW j \in 1..Len(dealt')
      PROVE  \/ j \in 1..Len(dealt) /\ dealt'[j] = dealt[j]
             \/ j = Len(dealt) + 1 /\ dealt'[j] = queue[1].head
  BY <1>1, DealShape
<1>5. Len(dealt) \in Nat
  BY <1>1, DealShape
<1>6. NumberInv'
  <2>1. \A j \in 1..Len(queue') : queue'[j].head[2] <= iSeq[queue'[j].head[1]]
    BY <1>1, <1>3 DEF NumberInv
  <2>2. \A j \in 1..Len(dealt') : dealt'[j][2] <= iSeq[dealt'[j][1]]
    BY <1>1, <1>2, <1>4 DEF NumberInv
  <2> QED
    BY <1>1, <1>2, <2>1, <2>2 DEF NumberInv
<1>7. NetOrder' /\ BufferOrder'
  BY <1>1, <1>2 DEF NetOrder, BufferOrder
<1>8. QueueOrder'
  <2>1. ASSUME NEW j \in 1..Len(queue'), NEW k \in 1..Len(queue'), j < k
        PROVE  Before(again, queue'[j].head, queue'[k].head)
    <3>1. j + 1 < k + 1
      BY <1>3, <2>1
    <3> QED
      BY <1>1, <1>3, <3>1 DEF QueueOrder
  <2>2. \A j \in 1..Len(queue') : \A k \in 1..Len(buffer) : Before(again, queue'[j].head, buffer[k].of)
    BY <1>1, <1>3 DEF QueueOrder
  <2>3. \A j \in 1..Len(queue') : \A c \in Clients : \A k \in 1..Len(net[c]) :
          Before(again, queue'[j].head, net[c][k].of)
    BY <1>1, <1>3 DEF QueueOrder
  <2> QED
    BY <1>2, <2>1, <2>2, <2>3 DEF QueueOrder
<1>9. DealtOrder'
  <2>1. ASSUME NEW j \in 1..Len(dealt'), NEW k \in 1..Len(dealt'), j < k
        PROVE  Before(again, dealt'[j], dealt'[k])
    <3>1. ~(j = Len(dealt) + 1)
      BY <1>4, <1>5, <2>1
    <3>2. j \in 1..Len(dealt) /\ dealt'[j] = dealt[j]
      BY <1>4, <3>1
    <3> QED
      BY <1>1, <1>2, <1>4, <2>1, <3>2 DEF DealtOrder
  <2>2. ASSUME NEW j \in 1..Len(dealt'), NEW k \in 1..Len(queue')
        PROVE  Before(again, dealt'[j], queue'[k].head)
    BY <1>1, <1>2, <1>3, <1>4 DEF DealtOrder, QueueOrder
  <2>3. ASSUME NEW j \in 1..Len(dealt'), NEW k \in 1..Len(buffer)
        PROVE  Before(again, dealt'[j], buffer[k].of)
    BY <1>1, <1>2, <1>4 DEF DealtOrder, QueueOrder
  <2>4. ASSUME NEW j \in 1..Len(dealt'), NEW c \in Clients, NEW k \in 1..Len(net[c])
        PROVE  Before(again, dealt'[j], net[c][k].of)
    BY <1>1, <1>2, <1>4 DEF DealtOrder, QueueOrder
  <2> QED
    BY <1>2, <2>1, <2>2, <2>3, <2>4 DEF DealtOrder
<1> QED
  BY <1>6, <1>7, <1>8, <1>9

LEMMA OrderStep ==
  IInv /\ [Next]_vars => NumberInv' /\ NetOrder' /\ BufferOrder' /\ QueueOrder' /\ DealtOrder'
<1> SUFFICES ASSUME IInv, [Next]_vars
             PROVE  NumberInv' /\ NetOrder' /\ BufferOrder' /\ QueueOrder' /\ DealtOrder'
  OBVIOUS
<1>1. CASE \E c \in Clients : SendData(c) \/ Repeat(c)
  <2>1. PICK c \in Clients : SendData(c) \/ Repeat(c)
    BY <1>1
  <2>2. UNCHANGED <<buffer, rest, again, queue, dealt>>
    BY <2>1 DEF SendData, Repeat, Attempt, parser, deal
  <2> QED
    BY <2>1, <2>2, AttemptOrder
<1>2. CASE \E s \in Slots : ReadData(s)
  BY <1>2, ReadOrder
<1>3. CASE DealRequest \/ DealDuplicate
  BY <1>3, DealOrder
<1>4. CASE UNCHANGED <<iSeq, net, buffer, rest, again, queue, dealt>>
  <2>1. /\ NumberInv /\ NetOrder /\ BufferOrder /\ QueueOrder /\ DealtOrder
    BY DEF IInv
  <2> QED
    BY <1>4, <2>1 DEF NumberInv, NetOrder, BufferOrder, QueueOrder, DealtOrder
<1>5. CASE ParseNext \/ ParseLast
  BY <1>5, ParseOrder
<1> QED
  BY <1>1, <1>2, <1>3, <1>4, <1>5, Effects

-----------------------------------------------------------------------------
(* Acks.  Who has left does not come back, and bytes once mixed stay so.   *)
LEMMA OnlyOnce ==
  ASSUME TypeOK, [Next]_vars
  PROVE  /\ \A x \in Clients : conn[x] = "left" => conn'[x] = "left"
         /\ (mixed => mixed') /\ again \subseteq again'
<1>1. ASSUME NEW x \in Clients, conn[x] = "left" PROVE conn'[x] = "left"
  <2>1. ASSUME NEW c \in Clients, Connect(c) PROVE conn'[x] = "left"
    BY <1>1, <2>1 DEF Connect, TypeOK
  <2>2. ASSUME NEW c \in Clients, Leave(c) PROVE conn'[x] = "left"
    BY <1>1, <2>2 DEF Leave, TypeOK
  <2> QED
    BY <1>1, <2>1, <2>2, Effects
<1>2. ASSUME NEW s \in Slots, ReadData(s) PROVE (mixed => mixed') /\ again \subseteq again'
  BY <1>2 DEF ReadData
<1>3. ASSUME ParseNext \/ ParseLast PROVE (mixed => mixed') /\ again \subseteq again'
  BY <1>3 DEF ParseNext, ParseLast
<1> QED
  BY <1>1, <1>2, <1>3, Effects

(* A descriptor stays its client's, unless the client has left. *)
LEMMA OwnerKept ==
  ASSUME IInv, [Next]_vars, NEW g \in Fds, NEW x \in Clients, owner[g] = x
  PROVE  owner'[g] = x \/ conn'[x] = "left"
<1>1. TypeOK /\ TableInv /\ owner \in [Fds -> Clients \cup {Nobody, Application}]
  BY DEF IInv, TypeOK
<1>2. CASE Accept
  <2>1. PICK fd \in Fds, c \in Clients : owner[fd] = Nobody /\ owner' = [owner EXCEPT ![fd] = c]
    BY <1>1, <1>2, AcceptShape
  <2>2. fd # g
    BY <2>1, Constants
  <2> QED
    BY <1>1, <2>1, <2>2
<1>3. ASSUME NEW s \in Slots, ReadEnd(s) PROVE owner'[g] = x \/ conn'[x] = "left"
  <2>1. /\ conn[owner[m_client[s]]] = "left" /\ conn' = conn
        /\ owner' = [owner EXCEPT ![m_client[s]] = Nobody]
    BY <1>3 DEF ReadEnd, Close, client
  <2>2. CASE m_client[s] = g
    BY <2>1, <2>2
  <2>3. CASE m_client[s] # g
    BY <1>1, <2>1, <2>3
  <2> QED
    BY <2>2, <2>3
<1>4. ASSUME NEW f \in Fds, Open(f) \/ CloseFile(f) PROVE owner'[g] = x
  <2>1. owner[f] = Nobody \/ owner[f] = Application
    BY <1>4 DEF Open, CloseFile, LowestFree
  <2>2. f # g
    BY <2>1, Constants
  <2>3. owner' = [owner EXCEPT ![f] = Application] \/ owner' = [owner EXCEPT ![f] = Nobody]
    BY <1>4 DEF Open, CloseFile
  <2> QED
    BY <1>1, <2>2, <2>3
<1> QED
  BY <1>2, <1>3, <1>4, Effects

LEMMA HomeStep == IInv /\ [Next]_vars => HomeInv'
<1> SUFFICES ASSUME IInv, [Next]_vars, NEW j \in 1..Len(queue'), ~mixed'
             PROVE  \/ conn'[queue'[j].head[1]] = "left"
                    \/ owner'[queue'[j].fd] = queue'[j].head[1]
  BY DEF HomeInv
<1>1. /\ TypeOK /\ TableInv /\ HomeInv /\ NumberInv
      /\ buffer \in Seq(Half) /\ queue \in Seq(Frame) /\ net \in [Clients -> Seq(Half)]
  BY DEF IInv, TypeOK
<1>2. ASSUME NEW k \in 1..Len(queue), queue'[j] = queue[k]
      PROVE  \/ conn'[queue'[j].head[1]] = "left"
             \/ owner'[queue'[j].fd] = queue'[j].head[1]
  <2>1. queue[k] \in Frame
    BY <1>1, ElementOfSeq
  <2>2. queue[k].head[1] \in Clients /\ queue[k].fd \in Fds
    BY <2>1 DEF Frame
  <2>3. conn[queue[k].head[1]] = "left" \/ owner[queue[k].fd] = queue[k].head[1]
    BY <1>1, OnlyOnce DEF HomeInv
  <2> QED
    BY <1>1, <1>2, <2>2, <2>3, OnlyOnce, OwnerKept
<1>3. CASE DealRequest \/ DealDuplicate
  BY <1>1, <1>2, <1>3, DealShape
<1>4. ASSUME ParseNext \/ ParseLast
      PROVE  \/ conn'[queue'[j].head[1]] = "left"
             \/ owner'[queue'[j].fd] = queue'[j].head[1]
  <2>1. lpc = "parse" /\ UNCHANGED <<owner, mixed>>
    BY <1>4 DEF ParseNext, ParseLast, table
  <2>2. m_client[i] \in Fds /\ \A k \in 1..Len(buffer) : buffer[k].of[1] = owner[m_client[i]]
    BY <2>1 DEF IInv, ReaderInv
  <2>3. PICK a \in 0..Len(buffer) :
           \/ queue' = queue
           \/ \E h \in 1..a : \E f \in Frame :
                /\ f.head = buffer[h].of /\ f.fd = m_client[i]
                /\ queue' = Append(queue, f)
    BY <1>1, <1>4, <2>1, <2>2, ParseShape
  <2>4. CASE queue' = queue
    BY <1>2, <2>4
  <2>5. ASSUME NEW h \in 1..a, NEW f \in Frame, f.head = buffer[h].of, f.fd = m_client[i],
               queue' = Append(queue, f)
        PROVE  \/ conn'[queue'[j].head[1]] = "left"
               \/ owner'[queue'[j].fd] = queue'[j].head[1]
    <3>1. Len(buffer) \in Nat
      BY <1>1, LenProperties
    <3>2. h \in 1..Len(buffer)
      BY <2>5, <3>1
    <3>3. owner'[f.fd] = f.head[1]
      BY <2>1, <2>2, <2>5, <3>2
    <3>4. /\ Len(queue) \in Nat /\ Len(queue') = Len(queue) + 1
          /\ \A k \in 1..Len(queue) : queue'[k] = queue[k]
          /\ queue'[Len(queue) + 1] = f
      BY <1>1, <2>5, AppendProperties, LenProperties
    <3>5. CASE j \in 1..Len(queue)
      BY <1>2, <3>4, <3>5
    <3>6. CASE j = Len(queue) + 1
      BY <3>3, <3>4, <3>6
    <3> QED
      BY <3>4, <3>5, <3>6
  <2> QED
    BY <2>3, <2>4, <2>5
<1>5. CASE UNCHANGED queue
  BY <1>2, <1>5
<1> QED
  BY <1>3, <1>4, <1>5, Effects

(* Where an ack on its way comes from *)
LEMMA AckShape ==
  ASSUME TypeOK, [Next]_vars, NEW c \in Clients, NEW k \in 1..Len(acks'[c])
  PROVE  \/ \E l \in 1..Len(acks[c]) : acks'[c][k] = acks[c][l]
         \/ DealRequest /\ owner[queue[1].fd] = c /\ acks'[c][k] = queue[1].head
<1>1. acks \in [Clients -> Seq(Clients \X Nat)]
  BY DEF TypeOK
<1>2. acks[c] \in Seq(Clients \X Nat) /\ Len(acks[c]) \in Nat
  <2>1. acks[c] \in Seq(Clients \X Nat)
    BY <1>1
  <2> QED
    BY <2>1, LenProperties
<1>3. CASE UNCHANGED acks
  BY <1>3
<1>4. ASSUME NEW x \in Clients, RecvAck(x) PROVE \E l \in 1..Len(acks[c]) : acks'[c][k] = acks[c][l]
  <2>1. acks[x] # << >> /\ acks' = [acks EXCEPT ![x] = Tail(acks[x])]
    BY <1>4 DEF RecvAck
  <2>2. CASE x # c
    BY <1>1, <2>1, <2>2
  <2>3. CASE x = c
    <3>1. acks'[c] = Tail(acks[c]) /\ acks[c] # << >>
      BY <1>1, <2>1, <2>3
    <3>2. /\ Len(acks'[c]) = Len(acks[c]) - 1
          /\ \A l \in 1..Len(acks'[c]) : acks'[c][l] = acks[c][l + 1]
      BY <1>2, <3>1, HeadTailProperties
    <3>3. k + 1 \in 1..Len(acks[c])
      BY <1>2, <3>2
    <3> QED
      BY <3>2, <3>3
  <2> QED
    BY <2>2, <2>3
<1>5. CASE DealRequest
  <2> DEFINE to == owner[queue[1].fd]
  <2>1. Head(queue) = queue[1] /\ queue[1].head \in Clients \X Nat
    BY <1>5, DealShape DEF Frame
  <2>2. acks' = IF to \in Clients /\ conn[to] = "up"
                  THEN [acks EXCEPT ![to] = Append(@, queue[1].head)] ELSE acks
    BY <1>5, <2>1 DEF DealRequest, Ack, AckTo
  <2> HIDE DEF to
  <2>3. CASE to = c /\ conn[to] = "up"
    <3>1. acks'[c] = Append(acks[c], queue[1].head)
      BY <1>1, <2>2, <2>3, Constants
    <3>2. /\ Len(acks'[c]) = Len(acks[c]) + 1
          /\ \A l \in 1..Len(acks[c]) : acks'[c][l] = acks[c][l]
          /\ acks'[c][Len(acks[c]) + 1] = queue[1].head
      BY <1>2, <2>1, <3>1, AppendProperties
    <3>3. CASE k \in 1..Len(acks[c])
      BY <3>2, <3>3
    <3>4. CASE k = Len(acks[c]) + 1
      BY <1>5, <2>3, <3>2, <3>4 DEF to
    <3> QED
      BY <1>2, <3>2, <3>3, <3>4
  <2>4. CASE ~(to = c /\ conn[to] = "up")
    <3>1. acks'[c] = acks[c]
      BY <1>1, <2>2, <2>4
    <3> QED
      BY <3>1
  <2> QED
    BY <2>3, <2>4
<1>6. ASSUME NEW x \in Clients, Leave(x) PROVE \E l \in 1..Len(acks[c]) : acks'[c][k] = acks[c][l]
  <2>1. acks' = [acks EXCEPT ![x] = << >>]
    BY <1>6 DEF Leave
  <2>2. CASE x # c
    BY <1>1, <2>1, <2>2
  <2>3. x # c
    BY <1>1, <2>1
  <2> QED
    BY <2>2, <2>3
<1> QED
  BY <1>3, <1>4, <1>5, <1>6, Effects

(* What has been dealt with stays, and a request is last.                  *)
LEMMA DealtGrows ==
  ASSUME TypeOK, [Next]_vars
  PROVE  /\ Len(dealt) \in Nat /\ Len(dealt') \in Nat /\ Len(dealt) <= Len(dealt')
         /\ \A d \in 1..Len(dealt) : d \in 1..Len(dealt') /\ dealt'[d] = dealt[d]
         /\ DealRequest => Len(dealt') = Len(dealt) + 1 /\ dealt'[Len(dealt) + 1] = queue[1].head
<1>1. dealt \in Seq(Clients \X Nat) /\ Len(dealt) \in Nat
  <2>1. dealt \in Seq(Clients \X Nat)
    BY DEF TypeOK
  <2> QED
    BY <2>1, LenProperties
<1>2. CASE DealRequest
  <2>1. dealt' = Append(dealt, queue[1].head) /\ queue[1].head \in Clients \X Nat
    BY <1>2, DealShape DEF DealRequest, Frame
  <2>2. /\ Len(dealt') = Len(dealt) + 1 /\ dealt'[Len(dealt) + 1] = queue[1].head
        /\ \A d \in 1..Len(dealt) : dealt'[d] = dealt[d]
    BY <1>1, <2>1, AppendProperties
  <2> QED
    BY <1>1, <2>2
<1>3. CASE ~DealRequest
  <2>1. dealt' = dealt
    BY <1>3, Effects
  <2> QED
    BY <1>1, <1>3, <2>1
<1> QED
  BY <1>2, <1>3

LEMMA AckStep == IInv /\ [Next]_vars => AckGoesHome'
<1> SUFFICES ASSUME IInv, [Next]_vars PROVE AckGoesHome'
  OBVIOUS
<1>1. TypeOK /\ HomeInv /\ AckGoesHome /\ acks \in [Clients -> Seq(Clients \X Nat)]
  BY DEF IInv, TypeOK
<1>2. ASSUME NEW c \in Clients, NEW k \in 1..Len(acks'[c])
      PROVE  \/ acks'[c][k][1] = c \/ mixed' \/ conn'[acks'[c][k][1]] = "left"
  <2>1. ASSUME NEW l \in 1..Len(acks[c]), acks'[c][k] = acks[c][l]
        PROVE  \/ acks'[c][k][1] = c \/ mixed' \/ conn'[acks'[c][k][1]] = "left"
    <3>1. acks[c] \in Seq(Clients \X Nat)
      BY <1>1
    <3>2. acks[c][l] \in Clients \X Nat
      BY <3>1, ElementOfSeq
    <3>3. acks[c][l][1] \in Clients
      BY <3>2
    <3>4. \/ acks[c][l][1] = c \/ mixed \/ conn[acks[c][l][1]] = "left"
      BY <1>1 DEF AckGoesHome
    <3> QED
      BY <1>1, <2>1, <3>3, <3>4, OnlyOnce
  <2>2. CASE DealRequest /\ owner[queue[1].fd] = c /\ acks'[c][k] = queue[1].head
    <3>1. UNCHANGED <<conn, mixed>> /\ 1 \in 1..Len(queue)
      BY <1>1, <2>2, DealShape
    <3>2. \/ mixed \/ conn[queue[1].head[1]] = "left" \/ owner[queue[1].fd] = queue[1].head[1]
      BY <1>1, <3>1 DEF HomeInv
    <3> QED
      BY <2>2, <3>1, <3>2
  <2> QED
    BY <1>1, <2>1, <2>2, AckShape
<1>3. AckGoesHome'
  BY <1>2 DEF AckGoesHome
<1> QED
  BY <1>3

(* The packets of a client that reached the callback can be counted.       *)
LEMMA DealtCount ==
  ASSUME TypeOK, NEW c \in Clients
  PROVE  IsFiniteSet(DealtOf(c)) /\ Cardinality(DealtOf(c)) \in Nat
<1>1. Len(dealt) \in Nat
  BY LenProperties DEF TypeOK
<1>2. IsFiniteSet(1..Len(dealt))
  BY <1>1, FS_Interval
<1>3. DealtOf(c) \subseteq 1..Len(dealt)
  BY DEF DealtOf
<1> QED
  BY <1>2, <1>3, FS_Subset, FS_CardinalityType

(* Of a client's claims no step but the callback adds one. *)
LEMMA ClaimsShrink ==
  ASSUME TypeOK, [Next]_vars, ~DealRequest, \A x \in Clients : conn'[x] # "left",
         NEW c \in Clients
  PROVE  Claims(c)' <= Claims(c)
<1>1. /\ done \in [Clients -> Nat] /\ hit \in [Clients -> BOOLEAN]
      /\ pc \in [Clients -> {"idle", "wait", "woken", "timedout"}]
      /\ acks \in [Clients -> Seq(Clients \X Nat)]
  BY DEF TypeOK
<1>2. done[c] \in Nat /\ acks[c] \in Seq(Clients \X Nat) /\ Len(acks[c]) \in Nat
  <2>1. done[c] \in Nat /\ acks[c] \in Seq(Clients \X Nat)
    BY <1>1
  <2> QED
    BY <2>1, LenProperties
<1>3. Claims(c) \in Nat
  BY <1>2 DEF Claims
<1>4. CASE UNCHANGED <<done[c], pc[c], hit[c], acks[c]>>
  <2>1. Claims(c)' = Claims(c)
    BY <1>4 DEF Claims
  <2> QED
    BY <1>3, <2>1
<1>5. ASSUME NEW x \in Clients, SendData(x) \/ Repeat(x) PROVE Claims(c)' <= Claims(c)
  <2>1. /\ pc[x] = "idle" /\ pc' = [pc EXCEPT ![x] = "wait"]
        /\ UNCHANGED <<done, hit, acks>>
    BY <1>5 DEF SendData, Repeat, Attempt
  <2>2. (pc'[c] = "woken") = (pc[c] = "woken")
    BY <1>1, <2>1
  <2>3. Claims(c)' = Claims(c)
    BY <2>1, <2>2 DEF Claims
  <2> QED
    BY <1>3, <2>3
<1>6. ASSUME NEW x \in Clients, XSendTimedOut(x) PROVE Claims(c)' <= Claims(c)
  <2>1. /\ pc[x] # "woken" /\ pc' = [pc EXCEPT ![x] = "idle"]
        /\ UNCHANGED <<done, hit, acks>>
    BY <1>6 DEF XSendTimedOut, Goto
  <2>2. (pc'[c] = "woken") = (pc[c] = "woken")
    BY <1>1, <2>1
  <2>3. Claims(c)' = Claims(c)
    BY <2>1, <2>2 DEF Claims
  <2> QED
    BY <1>3, <2>3
<1>7. ASSUME NEW x \in Clients, XSendAcked(x) PROVE Claims(c)' <= Claims(c)
  <2>1. /\ pc[x] = "woken" /\ pc' = [pc EXCEPT ![x] = "idle"]
        /\ done' = [done EXCEPT ![x] = @ + 1] /\ UNCHANGED <<hit, acks>>
    BY <1>7 DEF XSendAcked, Goto
  <2>2. CASE x = c
    <3>1. pc[c] = "woken" /\ pc'[c] = "idle" /\ done'[c] = done[c] + 1
      BY <1>1, <2>1, <2>2
    <3> QED
      BY <1>2, <2>1, <3>1 DEF Claims
  <2>3. CASE x # c
    <3>1. UNCHANGED <<done[c], pc[c], hit[c], acks[c]>>
      BY <1>1, <2>1, <2>3
    <3> QED
      BY <1>4, <3>1
  <2> QED
    BY <2>2, <2>3
<1>8. ASSUME NEW x \in Clients, RecvAck(x) PROVE Claims(c)' <= Claims(c)
  <2>1. /\ acks[x] # << >> /\ ~hit[x] /\ acks' = [acks EXCEPT ![x] = Tail(@)]
        /\ \E b : hit' = [hit EXCEPT ![x] = b] /\ UNCHANGED <<done, pc>>
    BY <1>8 DEF RecvAck
  <2>2. CASE x = c
    <3>1. acks'[c] = Tail(acks[c]) /\ acks[c] # << >> /\ ~hit[c]
      BY <1>1, <2>1, <2>2
    <3>2. Len(acks'[c]) = Len(acks[c]) - 1
      BY <1>2, <3>1, HeadTailProperties
    <3> DEFINE w == IF pc[c] = "woken" THEN 1 ELSE 0
               b == IF hit'[c] THEN 1 ELSE 0
    <3>3. w \in {0, 1} /\ b \in {0, 1}
      OBVIOUS
    <3>4. Claims(c) = done[c] + w + 0 + Len(acks[c])
      BY <3>1 DEF Claims
    <3>5. Claims(c)' = done[c] + w + b + (Len(acks[c]) - 1)
      BY <2>1, <3>2 DEF Claims
    <3> HIDE DEF w, b
    <3> QED
      BY <1>2, <3>3, <3>4, <3>5
  <2>3. CASE x # c
    <3>1. UNCHANGED <<done[c], pc[c], hit[c], acks[c]>>
      BY <1>1, <2>1, <2>3
    <3> QED
      BY <1>4, <3>1
  <2> QED
    BY <2>2, <2>3
<1>9. ASSUME NEW x \in Clients, SignalAck(x) PROVE Claims(c)' <= Claims(c)
  <2>1. /\ hit[x] /\ hit' = [hit EXCEPT ![x] = FALSE] /\ UNCHANGED <<done, acks>>
        /\ \/ UNCHANGED pc
           \/ pc[x] = "wait" /\ \E to : pc' = [pc EXCEPT ![x] = to]
    BY <1>9 DEF SignalAck, Goto
  <2>2. CASE x = c
    <3>1. hit[c] /\ ~hit'[c] /\ (pc[c] = "woken" => pc'[c] = "woken")
      BY <1>1, <2>1, <2>2
    <3> QED
      BY <1>2, <2>1, <3>1 DEF Claims
  <2>3. CASE x # c
    <3>1. UNCHANGED <<done[c], pc[c], hit[c], acks[c]>>
      BY <1>1, <2>1, <2>3
    <3> QED
      BY <1>4, <3>1
  <2> QED
    BY <2>2, <2>3
<1>10. ASSUME NEW x \in Clients, Leave(x) PROVE FALSE
  BY <1>10 DEF Leave, TypeOK
<1> QED
  BY <1>4, <1>5, <1>6, <1>7, <1>8, <1>9, <1>10, Effects

(* The callback adds one, to the client whose packet it has: the ack goes  *)
(* where the frame came from, and that is still its descriptor.            *)
LEMMA ClaimsStep == IInv /\ [Next]_vars => ClaimsInv'
<1> SUFFICES ASSUME IInv, [Next]_vars, ~mixed', \A x \in Clients : conn'[x] # "left",
                    NEW c \in Clients
             PROVE  Claims(c)' <= Cardinality(DealtOf(c)')
  BY DEF ClaimsInv
<1>1. TypeOK /\ HomeInv /\ ClaimsInv
  BY DEF IInv
<1>2. ~mixed /\ \A x \in Clients : conn[x] # "left"
  BY <1>1, OnlyOnce
<1>3. Claims(c) <= Cardinality(DealtOf(c)) /\ Cardinality(DealtOf(c)) \in Nat
      /\ IsFiniteSet(DealtOf(c))
  BY <1>1, <1>2, DealtCount DEF ClaimsInv
<1>4. done[c] \in Nat /\ acks \in [Clients -> Seq(Clients \X Nat)]
      /\ acks[c] \in Seq(Clients \X Nat) /\ Len(acks[c]) \in Nat
  <2>1. done[c] \in Nat /\ acks \in [Clients -> Seq(Clients \X Nat)]
        /\ acks[c] \in Seq(Clients \X Nat)
    BY <1>1 DEF TypeOK
  <2> QED
    BY <2>1, LenProperties
<1>5. CASE ~DealRequest
  <2>1. Claims(c)' <= Claims(c)
    BY <1>1, <1>5, ClaimsShrink
  <2>2. DealtOf(c)' = DealtOf(c)
    BY <1>5, Effects DEF DealtOf
  <2>3. TypeOK'
    BY TypeStep
  <2>4. done'[c] \in Nat /\ acks'[c] \in Seq(Clients \X Nat)
    BY <2>3 DEF TypeOK
  <2>5. Len(acks'[c]) \in Nat
    BY <2>4, LenProperties
  <2>6. Claims(c) \in Nat
    BY <1>4 DEF Claims
  <2>7. Claims(c)' \in Nat
    BY <2>4, <2>5 DEF Claims
  <2> QED
    BY <1>3, <2>1, <2>2, <2>6, <2>7
<1>6. CASE DealRequest
  <2> DEFINE p == queue[1]
             to == owner[p.fd]
             L == Len(dealt)
  <2>1. 1 \in 1..Len(queue) /\ p \in Frame /\ Head(queue) = p /\ UNCHANGED <<conn, mixed>>
    BY <1>1, <1>6, DealShape
  <2>2. p.head \in Clients \X Nat /\ p.head[1] \in Clients
    BY <2>1 DEF Frame
  <2>3. to = p.head[1]
    BY <1>1, <1>2, <2>1, <2>2 DEF HomeInv
  <2>4. L \in Nat /\ Len(dealt') = L + 1 /\ dealt'[L + 1] = p.head
        /\ \A d \in 1..L : dealt'[d] = dealt[d]
    BY <1>1, <1>6, DealtGrows
  <2>5. acks' = [acks EXCEPT ![to] = Append(@, p.head)] \/ acks' = acks
    BY <1>6, <2>1 DEF DealRequest, Ack, AckTo
  <2>6. UNCHANGED <<done, pc, hit>>
    BY <1>6 DEF DealRequest, client, call
  <2> HIDE DEF p, to, L
  <2>7. CASE to = c
    <3>1. DealtOf(c)' = DealtOf(c) \cup {L + 1} /\ L + 1 \notin DealtOf(c)
      <4>1. ASSUME NEW d \in 1..L + 1 PROVE d \in DealtOf(c)' <=> d \in DealtOf(c) \cup {L + 1}
        <5>1. d \in DealtOf(c)' <=> dealt'[d][1] = c
          BY <2>4 DEF DealtOf
        <5>2. d \in DealtOf(c) <=> d \in 1..L /\ dealt[d][1] = c
          BY DEF DealtOf, L
        <5>3. CASE d \in 1..L
          BY <2>4, <5>1, <5>2, <5>3
        <5>4. CASE d = L + 1
          BY <2>3, <2>4, <2>7, <5>1, <5>2, <5>4
        <5> QED
          BY <2>4, <5>3, <5>4
      <4>2. DealtOf(c)' \subseteq 1..L + 1 /\ DealtOf(c) \subseteq 1..L
        BY <2>4 DEF DealtOf, L
      <4> QED
        BY <2>4, <4>1, <4>2
    <3>2. Cardinality(DealtOf(c)') = Cardinality(DealtOf(c)) + 1
      BY <1>3, <3>1, FS_AddElement
    <3>3. Len(acks'[c]) <= Len(acks[c]) + 1 /\ Len(acks'[c]) \in Nat
      BY <1>4, <2>2, <2>5, <2>7, AppendProperties
    <3> DEFINE w == done[c] + (IF pc[c] = "woken" THEN 1 ELSE 0) + (IF hit[c] THEN 1 ELSE 0)
    <3>4. w \in Nat
      BY <1>4
    <3>5. Claims(c) = w + Len(acks[c]) /\ Claims(c)' = w + Len(acks'[c])
      BY <2>6 DEF Claims
    <3> HIDE DEF w
    <3> QED
      BY <1>3, <1>4, <3>2, <3>3, <3>4, <3>5
  <2>8. CASE to # c
    <3>1. acks'[c] = acks[c]
      BY <1>4, <2>5, <2>8
    <3>2. Claims(c)' = Claims(c)
      BY <2>6, <3>1 DEF Claims
    <3>3. DealtOf(c)' = DealtOf(c)
      <4>1. ASSUME NEW d \in 1..L + 1 PROVE d \in DealtOf(c)' <=> d \in DealtOf(c)
        <5>1. d \in DealtOf(c)' <=> dealt'[d][1] = c
          BY <2>4 DEF DealtOf
        <5>2. d \in DealtOf(c) <=> d \in 1..L /\ dealt[d][1] = c
          BY DEF DealtOf, L
        <5>3. CASE d \in 1..L
          BY <2>4, <5>1, <5>2, <5>3
        <5>4. CASE d = L + 1
          BY <2>3, <2>4, <2>8, <5>1, <5>2, <5>4
        <5> QED
          BY <2>4, <5>3, <5>4
      <4>2. DealtOf(c)' \subseteq 1..L + 1 /\ DealtOf(c) \subseteq 1..L
        BY <2>4 DEF DealtOf, L
      <4>3. DealtOf(c) \subseteq 1..L + 1
        BY <2>4, <4>2
      <4> QED
        BY <4>1, <4>2, <4>3
    <3> QED
      BY <1>3, <3>2, <3>3
  <2> QED
    BY <2>7, <2>8
<1> QED
  BY <1>5, <1>6

(* Between two callbacks with one packet there is one with another number, *)
(* or preSeq would not have let the second through; as the numbers of one  *)
(* client do not go back, that one is another client's.                    *)
LEMMA RepeatStep == IInv /\ [Next]_vars => SeqInv' /\ RepeatsNeedAnotherClient'
<1> SUFFICES ASSUME IInv, [Next]_vars PROVE SeqInv' /\ RepeatsNeedAnotherClient'
  OBVIOUS
<1>1. TypeOK /\ DealtOrder /\ SeqInv /\ RepeatsNeedAnotherClient
  BY DEF IInv
<1>2. CASE ~DealRequest
  <2>1. UNCHANGED <<preSeq, dealt>> /\ again \subseteq again'
    BY <1>1, <1>2, Effects, OnlyOnce
  <2> QED
    BY <1>1, <2>1 DEF SeqInv, RepeatsNeedAnotherClient
<1>3. CASE DealRequest
  <2>1. /\ Len(dealt) \in Nat /\ Len(dealt') = Len(dealt) + 1
        /\ dealt'[Len(dealt) + 1] = queue[1].head
        /\ \A d \in 1..Len(dealt) : dealt'[d] = dealt[d]
    BY <1>1, <1>3, DealtGrows
  <2>2. 1 \in 1..Len(queue) /\ Head(queue) = queue[1] /\ queue[1] \in Frame
         /\ again' = again
    BY <1>1, <1>3, DealShape
  <2>3. preSeq' = queue[1].head[2] /\ queue[1].head[2] # preSeq
    BY <1>3, <2>2 DEF DealRequest, Fresh
  <2>4. SeqInv'
    BY <2>1, <2>3 DEF SeqInv
  <2>5. ASSUME NEW d \in 1..Len(dealt'), NEW e \in 1..Len(dealt'), d < e,
               dealt'[d] = dealt'[e], dealt'[d][1] \notin again
        PROVE  \E m \in d + 1..e - 1 : dealt'[m][1] # dealt'[d][1]
    <3>1. d \in Int /\ e \in Int /\ d \in 1..Len(dealt)
      BY <2>1, <2>5
    <3>2. CASE e \in 1..Len(dealt)
      <4>1. PICK m \in d + 1..e - 1 : dealt[m][1] # dealt[d][1]
        BY <1>1, <2>1, <2>5, <3>1, <3>2 DEF RepeatsNeedAnotherClient
      <4>2. m \in 1..Len(dealt)
        BY <2>1, <3>1, <3>2
      <4> QED
        BY <2>1, <3>1, <4>1, <4>2
    <3>3. CASE e = Len(dealt) + 1
      <4> DEFINE L == Len(dealt)
      <4>1. L \in 1..Len(dealt) /\ d <= L /\ dealt # << >>
        BY <2>1, <3>1, EmptySeq
      <4>2. /\ dealt[d] = queue[1].head /\ dealt[L][2] # dealt[d][2]
        BY <1>1, <2>1, <2>3, <2>5, <3>1, <3>3, <4>1 DEF SeqInv
      <4>3. d < L
        BY <2>1, <3>1, <4>1, <4>2
      <4>4. /\ Before(again, dealt[d], dealt[L]) /\ Before(again, dealt[L], queue[1].head)
        BY <1>1, <2>2, <3>1, <4>1, <4>3 DEF DealtOrder
      <4>5. dealt[L][2] \in Nat /\ dealt[d][2] \in Nat
        <5>1. dealt \in Seq(Clients \X Nat)
          BY <1>1 DEF TypeOK
        <5>2. dealt[L] \in Clients \X Nat /\ dealt[d] \in Clients \X Nat
          BY <3>1, <4>1, <5>1, ElementOfSeq
        <5> QED
          BY <5>2
      <4>6. dealt[L][1] # dealt[d][1]
        BY <2>1, <2>5, <3>1, <4>2, <4>4, <4>5 DEF Before
      <4>7. L \in d + 1..e - 1
        BY <2>1, <3>1, <3>3, <4>3
      <4> QED
        BY <2>1, <3>1, <4>1, <4>6, <4>7
    <3> QED
      BY <2>1, <3>2, <3>3
  <2> QED
    BY <2>2, <2>4, <2>5 DEF RepeatsNeedAnotherClient
<1> QED
  BY <1>2, <1>3

-----------------------------------------------------------------------------
LEMMA NextIInv == IInv /\ [Next]_vars => IInv'
BY TypeStep, TableStep, LoopStep, ReaderStep, OrderStep, HomeStep, AckStep, ClaimsStep, RepeatStep DEF IInv

(* The invariant of a server with its clients holds in every state. *)
THEOREM AlwaysIInv == Spec => []IInv
BY InitIInv, NextIInv, PTL DEF Spec

(* Types, for any number of clients and descriptors: maxi stays a slot,    *)
(* attempts stay below their bound.                                        *)
THEOREM TypeCorrect == Spec => []TypeOK
<1>1. IInv => TypeOK
  BY DEF IInv
<1> QED
  BY <1>1, AlwaysIInv, PTL

(* The table, select's set and the open connections agree, and no          *)
(* connection accepted is left without a slot, as long as descriptors are  *)
(* no more than slots.                                                     *)
THEOREM TableExact == Spec => []TableIsExact
<1>1. IInv => TableIsExact
  <2> SUFFICES ASSUME IInv PROVE TableIsExact
    OBVIOUS
  <2>1. /\ TableInv /\ m_client \in [Slots -> Fds \cup {-1}] /\ maxi \in -1..FD_SETSIZE - 1
    BY DEF IInv, TypeOK
  <2>2. ASSUME NEW fd \in Fds, owner[fd] \in Clients PROVE \E s \in 0..maxi : m_client[s] = fd
    <3>1. PICK s \in Slots : m_client[s] = fd
      BY <2>1, <2>2 DEF TableInv
    <3>2. s <= maxi
      BY <2>1, <3>1, Constants DEF TableInv
    <3>3. s \in 0..maxi
      BY <2>1, <3>2, Constants DEF Slots
    <3> QED
      BY <3>1, <3>3
  <2> QED
    BY <2>1, <2>2 DEF TableInv, TableIsExact
<1> QED
  BY <1>1, AlwaysIInv, PTL

(* select's count and the scan agree: a pass ends when, and only when, it  *)
(* has read every client that was ready.                                   *)
THEOREM PassComplete == Spec => []NobodyPassedOver
<1>1. IInv => NobodyPassedOver
  BY DEF IInv, LoopInv
<1> QED
  BY <1>1, AlwaysIInv, PTL

(* What the server sends of its own accord goes to no client but the one   *)
(* accepted last, whatever m_curClientFd was to begin with, and whatever   *)
(* files the application opens.                                            *)
THEOREM CurrentIsNewest == Spec => []CurIsNewest
<1>1. IInv => CurIsNewest
  BY DEF IInv
<1> QED
  BY <1>1, AlwaysIInv, PTL

(* An ack goes astray only after bytes of two clients have met in the      *)
(* parser or the sender has left.                                          *)
THEOREM AcksGoHome == Spec => []AckGoesHome
<1>1. IInv => AckGoesHome
  BY DEF IInv
<1> QED
  BY <1>1, AlwaysIInv, PTL

(* No more calls of a client return 0 than packets of it reached the       *)
(* callback, though an ack may be late, and its signal wake another call;  *)
(* with the same exceptions.                                               *)
THEOREM SuccessesDealt == Spec => []SuccessesAreDealt
<1>1. IInv => SuccessesAreDealt
  <2> SUFFICES ASSUME IInv, ~mixed, \A x \in Clients : conn[x] # "left", NEW c \in Clients
               PROVE  done[c] <= Cardinality(DealtOf(c))
    BY DEF SuccessesAreDealt
  <2>1. Claims(c) <= Cardinality(DealtOf(c))
    BY DEF IInv, ClaimsInv
  <2>2. done[c] \in Nat /\ acks[c] \in Seq(Clients \X Nat)
    BY DEF IInv, TypeOK
  <2>3. Len(acks[c]) \in Nat
    BY <2>2, LenProperties
  <2>4. Cardinality(DealtOf(c)) \in Nat
    BY DealtCount DEF IInv
  <2> QED
    BY <2>1, <2>2, <2>3, <2>4 DEF Claims
<1> QED
  BY <1>1, AlwaysIInv, PTL

(* The packets of a client none of whose reads was longer than a frame     *)
(* reach the callback in the order of its calls, whatever the others do.   *)
THEOREM CallbacksOrdered == Spec => []CallbacksInOrder
<1>1. IInv => CallbacksInOrder
  BY DEF IInv, DealtOrder, Before, CallbacksInOrder
<1> QED
  BY <1>1, AlwaysIInv, PTL

(* Of such a client, a callback is repeated only around one of another     *)
(* client.                                                                 *)
THEOREM RepeatsSeparated == Spec => []RepeatsNeedAnotherClient
<1>1. IInv => RepeatsNeedAnotherClient
  BY DEF IInv
<1> QED
  BY <1>1, AlwaysIInv, PTL
=============================================================================
