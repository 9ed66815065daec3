------------------------------- MODULE Framing -------------------------------
(***************************************************************************)
(* Packets as bytes, from the sender's m_sendTmpBuf to the receiver's      *)
(* MsgQ: Pack and PackRequest, XSocketSend, the TCP stream, and            *)
(* CXSocketProtocol (OnRecvMsg, HandleChunkedRead, Parse).                 *)
(*                                                                         *)
(* Layout, base and widths are constants, so that a small instance has the *)
(* cases of the real one (base 10, fields of four digits).  A byte is a    *)
(* number: below BASE a digit, otherwise something else.  m_xsProtocolBuf- *)
(* fer is the byte string that XBuffer is shown to implement.  A search    *)
(* can look behind its content (past): at the zeros of its block, and, if  *)
(* the block is nearly full, at memory behind the block, which is taken to *)
(* hold no X.  What the receiver reads does not depend on when the         *)
(* sender's writes happen, so a write and the waiting around it is one     *)
(* step.                                                                   *)
(***************************************************************************)
EXTENDS Integers, Sequences, SequencesExt, FiniteSetsExt

CONSTANTS HEAD, TAIL,            \* "XJUNYI", "xjunyi"
          SEQ_WIDTH, LEN_WIDTH,  \* 4, 4
          BASE,                  \* 10
          SOCKET_MAX_SIZE,       \* 10240
          NUL,                   \* the byte 0
          Leftovers,             \* bytes found behind an empty std::string
          Packets,               \* bound: packets that are sent
          TornAt,                \* bound: where a write may end early
          MaxSends               \* bound: calls of XSocketSend

(* SocketCommon.h; the type byte is not in the sum. *)
DATA_MAX_SIZE == SOCKET_MAX_SIZE - Len(HEAD) - Len(TAIL) - SEQ_WIDTH - LEN_WIDTH
FIELDS == Len(HEAD) + SEQ_WIDTH + 1          \* head, Seq and Type
BODY == FIELDS + LEN_WIDTH                   \* where Data begins
OVERHEAD == BODY + Len(TAIL)
X == HEAD[1]

(* BASE to the power n: numbers below it have at most n digits. *)
Pow[n \in Nat] == IF n = 0 THEN 1 ELSE BASE * Pow[n - 1]

ASSUME FramingAssumption ==
  /\ {SOCKET_MAX_SIZE, DATA_MAX_SIZE, NUL, MaxSends} \cup Leftovers \subseteq Nat
  /\ BASE \in Nat \ {0, 1} /\ SEQ_WIDTH \in Nat \ {0} /\ LEN_WIDTH \in Nat \ {0}
  /\ HEAD \in Seq(Nat) /\ TAIL \in Seq(Nat) /\ HEAD # << >> /\ TAIL # << >>
  /\ Pow[LEN_WIDTH] <= DATA_MAX_SIZE   \* 9999 < 10220: Len is never DATA_TOO_LONG
  /\ DATA_MAX_SIZE < Pow[LEN_WIDTH + 1]
  /\ Packets \subseteq [seq : 0..Pow[SEQ_WIDTH + 1] - 1, type : Nat, data : Seq(Nat)]
  /\ TornAt \subseteq Nat \ {0}        \* no byte at all is no write

VARIABLES
  net,       \* bytes the receiver has not read
  buf,       \* the content of m_xsProtocolBuffer
  rest,      \* what pParseBuffer points to, appended to buf; << >> outside OnRecvMsg
  got,       \* packets pushed to MsgQ
  crashed,   \* the receiver has died
  sends,     \* calls of XSocketSend
  spill,     \* bytes the last memcpy wrote behind m_sendTmpBuf
  sent,      \* history: packets written to the last byte
  whole,     \* history: every write was to the last byte, of a legal packet
  ends,      \* history: where in net a write ends
  alone,     \* history: no read had bytes of two writes
  past       \* bytes behind its content the last search for the head looked at

receiver == <<buf, rest, got, crashed, past>>
history == <<sent, whole, ends, alone>>
vars == <<net, receiver, sends, spill, history>>

Init ==
  /\ net = << >> /\ buf = << >> /\ rest = << >> /\ got = << >> /\ sent = << >>
  /\ sends = 0 /\ spill = 0 /\ past = 0 /\ ends = {}
  /\ crashed = FALSE /\ whole = TRUE /\ alone = TRUE

First(s, n) == SubSeq(s, 1, n)
AfterFirst(s, n) == SubSeq(s, n + 1, Len(s))

-----------------------------------------------------------------------------
(* Fields *)

(* sprintf("%0*d"): at least w digits, and one more if n does not fit. *)
Digits(n, w) ==
  LET m == IF n < Pow[w] THEN w ELSE w + 1
  IN  [i \in 1..m |-> (n \div Pow[m - i]) % BASE]

(* strtol: the value of the digits s begins with; the sign and the blanks  *)
(* that it allows in front of them are left out, no field is sent so.      *)
DigitsOf(s) == Max({0} \cup {i \in 1..Len(s) : \A j \in 1..i : s[j] < BASE})
Strtol(s) ==
  LET value[i \in 0..DigitsOf(s)] == IF i = 0 THEN 0 ELSE value[i - 1] * BASE + s[i]
  IN  value[DigitsOf(s)]

(* A plausible bug: the limit is off by one. *)
RefusedLate(p) == Len(p.data) \notin 1..DATA_MAX_SIZE + 1

(* Pack refuses a length and leaves the fields empty, which XSend does not *)
(* look at: PackRequest then copies what lies behind an empty string.      *)
Refused(p) == Len(p.data) \notin 1..DATA_MAX_SIZE

(* As many bytes as a frame with fields of the usual widths. *)
PackRequest(p) ==
  IF Refused(p) THEN {[i \in 1..OVERHEAD |-> IF i = 1 THEN NUL ELSE g] : g \in Leftovers}
  ELSE {First(HEAD \o Digits(p.seq, SEQ_WIDTH) \o <<p.type>>
                   \o Digits(Len(p.data), LEN_WIDTH) \o p.data \o TAIL,
              OVERHEAD + Len(p.data))}

(* Packets whose numbers fit their fields *)
Legal(p) == ~Refused(p) /\ Len(p.data) < Pow[LEN_WIDTH] /\ p.seq < Pow[SEQ_WIDTH]

(* A plausible bug: the sequence number is read to the end of the type. *)
ParseLongSeq(f, len) ==
  [seq |-> Strtol(SubSeq(f, Len(HEAD) + 1, FIELDS)), type |-> f[FIELDS],
   data |-> SubSeq(f, BODY + 1, BODY + len)]

Parse(f, len) ==
  [seq |-> Strtol(SubSeq(f, Len(HEAD) + 1, FIELDS - 1)), type |-> f[FIELDS],
   data |-> SubSeq(f, BODY + 1, BODY + len)]

-----------------------------------------------------------------------------
(* XSend's and ThreadDeal's writes *)

Write(p, f, k) ==
  /\ sends < MaxSends /\ sends' = sends + 1
  /\ spill' = Max({0, Len(f) - SOCKET_MAX_SIZE})
  /\ net' = net \o First(f, k)
  /\ ends' = ends \cup {Len(net')}
  /\ sent' = IF k = Len(f) /\ ~Refused(p) THEN Append(sent, p) ELSE sent
  /\ whole' = (whole /\ Legal(p) /\ k = Len(f))
  /\ UNCHANGED <<receiver, alone>>

Send(p) == \E f \in PackRequest(p) : Write(p, f, Len(f))

(* The timeout ends XSocketSend's loop in the middle of a frame. *)
SendLoss(p) == \E f \in PackRequest(p) : \E k \in TornAt \cap (0..Len(f) - 1) : Write(p, f, k)

-----------------------------------------------------------------------------
(* HandleChunkedRead *)

IsX(i) == i \in 1..Len(buf) /\ buf[i] = X
HeadAt(i) == i + Len(HEAD) - 1 <= Len(buf) /\ SubSeq(buf, i, i + Len(HEAD) - 1) = HEAD

(* strLine is one byte longer than the head, and find() looks for the head *)
(* anywhere in it: an X before the head is taken for its first byte.       *)
Heads == {i \in 1..Len(buf) : IsX(i) /\ (HeadAt(i) \/ HeadAt(i + 1))}

(* The X that were tried and are no head *)
WrongXs == {i \in 1..Len(buf) : IsX(i) /\ \A h \in Heads : i < h}

(* The bound of the search for the next X is the size less the offset of   *)
(* the last one, both counted from where that search began; strLine may    *)
(* end behind the content as well.                                         *)
Behind ==
  LET lines == {i + Len(HEAD) : i \in WrongXs \cup (IF Heads = {} THEN {} ELSE {Min(Heads)})}
      last == Max({0} \cup (WrongXs \ {Max(WrongXs \cup {0})}))
      scans == IF Heads = {} /\ WrongXs # {} THEN {Len(buf) + 1 + last} ELSE {}
  IN  Max({0} \cup {e - Len(buf) : e \in lines \cup scans})

(* The buffer from the head on, which is what Pop leaves. *)
FromHead == AfterFirst(buf, Min(Heads) - 1)
ContentLen == Strtol(SubSeq(FromHead, FIELDS + 1, BODY))
MsgLen == OVERHEAD + ContentLen

(* A plausible bug: a buffer as long as the head is searched. *)
EnoughForHead == Len(buf) >= Len(HEAD)

Enough == Len(buf) > Len(HEAD)
NoHead == Enough /\ Heads = {}
Complete == Enough /\ Heads # {} /\ Len(FromHead) > BODY /\ MsgLen <= Len(FromHead)
TailFits == SubSeq(FromHead, BODY + ContentLen + 1, MsgLen) = TAIL

Recv(k) ==
  /\ ~crashed /\ rest = << >> /\ k <= Len(net)
  /\ rest' = First(net, k) /\ net' = AfterFirst(net, k)
  /\ buf' = buf \o rest'
  /\ ends' = {e - k : e \in {end \in ends : end > k}}
  /\ alone' = (alone /\ ends \cap 1..k - 1 = {})
  /\ UNCHANGED <<got, crashed, past, sends, spill, sent, whole>>

(* One call of HandleChunkedRead that leaves b in the buffer, and the      *)
(* bytes OnRecvMsg appends next.                                           *)
Handled(b, again) ==
  /\ ~crashed /\ rest # << >>
  /\ past' = IF Enough THEN Behind ELSE 0
  /\ rest' = again /\ buf' = b \o again
  /\ UNCHANGED <<net, crashed, sends, spill, history>>

MoreDataExpected ==
  /\ \/ ~Enough /\ Handled(buf, << >>)
     \/ NoHead /\ Len(buf) < SOCKET_MAX_SIZE /\ Handled(buf, << >>)
     \/ Enough /\ Heads # {} /\ ~Complete /\ Handled(FromHead, << >>)
  /\ UNCHANGED got

DataTooLong ==
  /\ NoHead /\ Len(buf) > SOCKET_MAX_SIZE /\ Handled(<< >>, << >>)
  /\ UNCHANGED got

(* A buffer of just that size: pFindX is NULL, and is made a string of. *)
NullString ==
  /\ ~crashed /\ rest # << >> /\ NoHead /\ Len(buf) = SOCKET_MAX_SIZE
  /\ crashed' = TRUE
  /\ UNCHANGED <<net, buf, rest, got, past, sends, spill, history>>

DataCorrupted ==
  /\ Complete /\ ~TailFits /\ Handled(AfterFirst(FromHead, FIELDS), << >>)
  /\ UNCHANGED got

(* A plausible bug: the tail is not looked at. *)
AllDataReadNoTail ==
  /\ Complete
  /\ got' = Append(got, Parse(FromHead, ContentLen))
  /\ Handled(AfterFirst(FromHead, MsgLen), AfterFirst(rest, MsgLen))

(* A plausible bug: the frame is not popped. *)
AllDataReadNoPop ==
  /\ Complete /\ TailFits
  /\ got' = Append(got, Parse(FromHead, ContentLen))
  /\ Handled(FromHead, AfterFirst(rest, MsgLen))

(* The frame goes to MsgQ.  If the read was longer than the frame,         *)
(* OnRecvMsg goes on with as much of the read as is longer, and appends it *)
(* again.                                                                  *)
AllDataRead ==
  /\ Complete /\ TailFits
  /\ got' = Append(got, Parse(FromHead, ContentLen))
  /\ Handled(AfterFirst(FromHead, MsgLen), AfterFirst(rest, MsgLen))

-----------------------------------------------------------------------------
OnRecvMsg == \/ MoreDataExpected \/ DataTooLong \/ NullString
             \/ DataCorrupted \/ AllDataRead

Next == \/ \E p \in Packets : Send(p) \/ SendLoss(p)
        \/ \E k \in 1..SOCKET_MAX_SIZE : Recv(k)
        \/ OnRecvMsg

Spec == Init /\ [][Next]_vars

-----------------------------------------------------------------------------
Packet == [seq : 0..Pow[SEQ_WIDTH] - 1, type : Nat, data : Seq(Nat)]

(* Types; what Parse makes of the fields fits their widths. *)
TypeOK ==
  /\ net \in Seq(Nat) /\ buf \in Seq(Nat) /\ rest \in Seq(Nat) /\ got \in Seq(Packet)
  /\ sent \in Seq(Packets) /\ sends \in 0..MaxSends /\ spill \in Nat /\ past \in Nat
  /\ ends \subseteq 1..Len(net)
  /\ {crashed, whole, alone} \subseteq BOOLEAN

Quiet == net = << >> /\ rest = << >>

(* As long as writes are whole and no read has bytes of two of them,       *)
(* however else the stream is cut, MsgQ receives just the packets sent, in *)
(* order and each at once, and nothing outside a buffer is touched.        *)
CalmExact ==
  whole /\ alone =>
    /\ ~crashed /\ past = 0 /\ spill = 0
    /\ IsPrefix(got, sent)
    /\ Quiet => got = sent

(* A frame's head as data: all of it, or all but less bytes than a length  *)
(* has digits, which the torn length in front of them took for its own     *)
HasHead(s) ==
  \E j \in 1..LEN_WIDTH : \E i \in 1..IF j = 1 THEN Len(s) ELSE 1 :
    /\ i + Len(HEAD) - j <= Len(s)
    /\ SubSeq(s, i, i + Len(HEAD) - j) = SubSeq(HEAD, j, Len(HEAD))

(* Bytes that tell where a frame begins and ends.  Nothing in a frame is   *)
(* escaped, so this is a property of the packets that are sent: some byte  *)
(* of the head behind its first and the last byte of the tail are in no    *)
(* data, and no data have a head; any other byte of head and tail may be   *)
(* among them.  test/main.cpp sends I, U and Y, but no J, N or i.          *)
Distinct ==
  /\ LEN_WIDTH <= Len(HEAD) /\ SEQ_WIDTH + 2 <= Len(HEAD)
  /\ IsInjective(HEAD) /\ IsInjective(TAIL) /\ Range(HEAD) \cap Range(TAIL) = {}
  /\ (Range(HEAD) \cup Range(TAIL)) \cap 0..BASE - 1 = {} /\ NUL \notin Range(HEAD)
  /\ \E j \in 2..Len(HEAD) :
       LET marks == {HEAD[j], Last(TAIL)}
       IN  /\ marks \cap ({NUL} \cup Leftovers) = {}
           /\ \A p \in Packets : marks \cap (Range(p.data) \cup {p.type}) = {}
  /\ \A p \in Packets : ~HasHead(p.data)

(* An X alone in front of a head shifts the fields by one, so that type    *)
(* and length without its last digit are read as the length.  Either this  *)
(* is never more than the length, as of every request (type 0), or no X    *)
(* is left alone: an acknowledgement (type 1) of less than 1111 bytes can  *)
(* be read shifted.                                                        *)
Unshifted ==
  \/ \A p \in Packets :
       Strtol(<<p.type>> \o First(Digits(Len(p.data), LEN_WIDTH), LEN_WIDTH - 1)) <= Len(p.data)
  \/ /\ 1 \notin TornAt /\ X \notin Leftovers
     /\ \A p \in Packets : X \notin Range(p.data) \cup {p.type}

Genuine(p) == p \in Range(sent)

(* Behind a torn or illegal frame a packet may be made up, but only of one *)
(* frame's fields and another whole frame as its data.                     *)
ForgedAcrossFrames ==
  alone => \A i \in 1..Len(got) : Genuine(got[i]) \/ HasHead(got[i].data)

(* Torn and illegal frames cost packets and delay packets, but they do not *)
(* repeat or reorder them, and a packet that is made up costs one that was *)
(* sent.                                                                   *)
InOrderOnce ==
  LET Order == {f \in [1..Len(got) -> 1..Len(sent)] :
                  \A i, j \in 1..Len(got) : i < j => f[i] < f[j]}
  IN  alone => \E f \in Order : \A i \in 1..Len(got) : Genuine(got[i]) => got[i] = sent[f[i]]

(* DATA_MAX_SIZE lets a frame be longer than m_sendTmpBuf, by the type     *)
(* byte and no more.                                                       *)
SpillIsTheTypeByte == spill <= 1
=============================================================================
