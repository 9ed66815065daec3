# basic_socket in TLA+

A verification development for the library in `src/`: a small C++ socket
library that a server or a client links, which sends packets over TCP,
acknowledges them, retries, and hands what arrives to a callback.

## The system

Paths are relative to `src/`; the sources are in `src/src/`.

| Part | State | Operations | Talks to |
|---|---|---|---|
| Facade, `XSocket.cpp` | globals `hXSocket`, `bConnectFlag`, `iSeq`, `m_cbRecvFuncParam` | `startConnect`, `stopConnect`, `sendData`, `setCallback`, `createXSocket`, `destroyXSocket` | calls the object behind `hXSocket`; both library threads call back through `xRecvCb` |
| Server and client objects, `XSocketServer.cpp`, `XSocketClient.cpp` | sockets, `hSend`, `m_mutex`, `m_cond`, loop flags, the send and receive buffers; the server also `m_client[]`, `m_curClientFd` | `XStart`, `XSend`, `XStop`, `ThreadListen`, `ThreadDeal` | the socket, the parser, the queue, the callback |
| Parser, `XSocketProtocol.cpp` | `m_xsProtocolBuffer`, `MsgQ` | `OnRecvMsg`, `PopFront`, `cancel` | `ThreadListen` feeds it, `ThreadDeal` empties it |
| Byte buffer, `XBuffer.cpp` | block, data size, block size, increment | `Append`, `Get`, `Pop`, `Pour`, `Reset`, `SetIncreaseSize` | the parser |
| Queue, `MsgQueue.cpp` | `m_msgQueue`, `m_isCancel`, mutex, condition | `pushback`, `popFront`, `cancel` (`clean` is never called) | `ThreadListen` pushes, `ThreadDeal` pops, `XStop` cancels |
| Packets, `SocketCommon.cpp` | the fields of a frame as strings | `Pack`, `PackRequest`, `Parse`, `PackResponse`, getters | `XSend`, the parser, `ThreadDeal` |
| `XSocketManage.*`, `XSPrint.h`, `test/main.cpp` | none of their own | base class, log macros, a menu | |

A request goes `sendData -> XSend -> socket -> ThreadListen -> OnRecvMsg ->
MsgQ -> ThreadDeal -> ack, callback`; the ack comes back the same way and ends
with `ThreadDeal` signalling `m_cond`, on which `XSend` waits.

### What is hard about it

* Three kinds of threads share `hSend`, `m_cond` and `m_sendTmpBuf`; `ThreadDeal`
  reads `hSend` without the mutex (server 331-333, client 296-298).
* Acks can be lost, late, or answered to a retry; a retry re-sends the packet.
* `OnRecvMsg` puts the rest of a read into its buffer again (parser 220-225).
* The two threads set their own loop flags, `select` has no timeout, and
  `stopConnect` closes, joins and deletes while other threads may be anywhere.
* All clients of a server share one parser and one `preSeq`; an ack goes to the
  number of a descriptor, which may be another client's by then.
* A write that times out leaves half a frame in the stream, and the retry follows it.
* Sizes and field widths: four digits, unsigned sums, a buffer limit.

The complete list is `hazards` in `PROJECT.json`, each at its line, with the
properties that cover it, or the reason why none does.

### What makes each part correct

* Queue: a bounded fifo; nothing accepted is lost; no lost wakeup; a cancel ends a wait.
* Request and ack: callbacks only for packets that were sent, once per retry;
  acks only for packets that were taken; success only with an ack; calls return.
* Buffer: the content is the string the calls add up to; no write past the block.
* Lifecycle: threads never outlive their object; one connection at a time; stop returns.
* Parser: every whole frame of the stream is recognised, in order, once.
* Server: a frame is dealt for the client that sent it, an ack returns to it.
* Packets: `Parse` inverts `Pack` for every legal length and sequence number.

## Modules

| Module | Models | Shape |
|---|---|---|
| `BoundedFifo` | what `CXSMsgQueue` promises | abstract specification |
| `MsgQueue` | `MsgQueue.cpp` | one action per access under or around `m_queueMutex` |
| `LossyFifo` | what one direction of a session promises | abstract specification |
| `Session` | `xSendData`, `XSend`, `OnRecvMsg`, `ThreadDeal` of both ends | one action per access to state another thread sees; `MsgQ` is the fifo `MsgQueue` implements |
| `ByteQueue` | what `CHSBuffer` promises | abstract specification |
| `XBuffer` | `XBuffer.cpp` | one action per call |
| `Framing` | `Pack`, `PackRequest`, `XSocketSend`, `OnRecvMsg`, `HandleChunkedRead`, `Parse` | one action per write, read and outcome of `HandleChunkedRead`; the buffer is the string `XBuffer` implements |
| `ServerClients` | the server's `ThreadListen` and `ThreadDeal` with several clients | one action per step of a client's `XSend` and its acks, per connection, read, round of `OnRecvMsg` and packet dealt with |
| `Lifecycle` | `XSocket.cpp`, `XStart`, `XStop`, control flow of the threads | one action per access to a global, flag or descriptor |
| `MsgQueueProofs`, `SessionProofs`, `XBufferProofs`, `FramingProofs`, `LifecycleProofs`, `ServerClientsProofs` | | the proofs about the module of that name |
| `SessionChannelProofs` | | the proofs about `Session` with one sender in each process |
| `SessionAcksProofs` | | the count of acks in `Session`, for any number of senders |
| `MCSession`, `MCFraming`, `MCServerClients` | | threads, packets and clients for TLC |

Definitions named like a function of the code model it (`XSendLock`,
`DealPop`, `StopDelete`); `map` in `PROJECT.json` names the lines of each.
Definitions whose comment begins "A plausible bug" are variants that belong to
no specification: each breaks a property that holds of the real definition.

The modules share the code between them as follows. `Session` has the threads of
one connection in every interleaving, and whole frames. `Framing` has the bytes of one
stream, and no threads: what the receiver makes of the stream does not depend on
when it was written. `ServerClients` has several streams that meet in one parser, in
halves of frames, and files of the application between the descriptors. `Lifecycle` has connections that begin and end, and no packets.

**MsgQueue.** `pc[t]` is the place inside the call; `mutex` its holder.
`pthread_cond_wait` is three steps: sleep and release, wake (signalled or
spuriously), take the mutex again. The histories `accepted` and `taken` carry
the refinement: what the queue holds is what lies between them.

**Session.** `XSend` of the client and of the server are the same text, and so
is `ThreadDeal`; one action stands for both, and each process has its own copy of the
state. A frame is a record (`type`, `seq`, `msg`), `msg` being the thread and the number
of its call. The window between `hSend = new` and the `Pack` of it is the label
"write"; what `ThreadDeal` may read then is a nondeterministic choice. The use of
a deleted `hSend` ends the process (`crashed`). A `recv` returns up to
`MaxRead` whole frames; `chunk` is what `pParseBuffer` still points to, so the
second append of the rest is visible: it goes to `rbuf` once more. A frame with
a five-digit sequence number is not `WellFormed`: its fields are shifted, the tail does
not match, and the rest of the read is given up.

**XBuffer.** The block is a function from cell numbers to bytes; sizes are
words below `WORD`. Bytes behind the content stay in the block after `Pour`,
as in the code. A write past the block ends the model and records how many
bytes it needed. `given` is the string a call was given, so that the refinement can say
that what `Put` adds to the content is this string and no other.

**Framing.** A byte is a number; digits are below `BASE`, the bytes of head and tail
and the NUL above. Head, tail, base, widths and `SOCKET_MAX_SIZE` are constants,
so that frames of a few bytes have every case of the real ones. Details kept from the code:

* `strLine` is one byte longer than the head and `find` looks for the head anywhere in it, so
  that an X just before a head is taken for the head's own (`Heads`).
* After a wrong X the search goes on from there with a bound that mixes two
  offsets; `past` records how far behind the content it may look. Up to the block's end
  zeros lie there; a search that goes on behind it reads other memory, which is taken to hold no X either.
* `Pack` refuses a length, `XSend` does not look, and `PackRequest` copies what it
  finds behind an empty string (`Refused`, `Leftovers`).
* A field whose number has one digit too many shifts the rest, and the frame is cut at the
  length it would have had (`Digits`, `PackRequest`). Powers of the base are a recursive function
  (`Pow`), about which the provers can be told more than about `^`.
* After the first frame of a read the rest of it is appended again
  (`AllDataRead`), and after a corrupted frame the buffer keeps what follows until the next
  read (`DataCorrupted`), so that the receiver may lag behind by a frame for good.

Left out because no input reaches them: the answer "type is error" (parser
136-144; the type is one byte and both values are accepted as they come) and the
length above `DATA_MAX_SIZE` (150-158), which four digits cannot express
(`FramingAssumption` says so). Left out too: the sign and the blanks `strtol` accepts in
front of digits, which only a field of bytes that are no number can have.

**ServerClients.** A client is one connection with one thread in `sendData`; a client that
restarts is another client. `owner` says what a descriptor is, a client's connection or a file the
application has opened (`Open`, `CloseFile`); a new one is the lowest free. `m_client`, `allset`,
`maxi`, `i` and `selectRet` are the code's; one step of the scan goes to the next slot that is ready.
`m_curClientFd` begins as any number, since the constructor leaves it alone.

Frames come in two halves, which is the least that lets half a frame of one client be
completed by another. A read (`ReadData`) takes up to `ReadMax` of them, the halves that
`SOCKET_MAX_SIZE` bytes hold. A round of `OnRecvMsg`'s loop is a step, and `rest` is what `pParseBuffer`
still points to: while a frame comes out and the read was longer than a frame, the rest is appended to the
buffer that already holds it (`ParseNext`); otherwise `OnRecvMsg` returns (`ParseLast`).

The client's `ThreadDeal` compares the number of an ack (`RecvAck`) before it takes the mutex and signals
(`SignalAck`), and `XSend` returns later still (`XSendAcked`). In between the call may time out and the next one
begin, so that the signal for one packet's ack ends the wait for another. A signal to a waiter whose time is up
is lost (`timedout`). `mixed`, `again`, `newest` and `dealt` are histories. When the process has
no free descriptor, `AcceptFails` is the `continue` of line 198. Errors of `select` and the stop are in
`Lifecycle`. A write that fails, a spurious wakeup of `XSend` and an ack that meets `hSend` while it is packed or
just deleted are in `Session`; `iSeq` does not wrap here (`Calls` is at most 9999).

**Lifecycle.** Objects are numbers, `hXSocket` one of them or 0. `mpc` walks
through `startConnect` and `stopConnect`, `lpc[o]` and `dpc[o]` through the threads of
object `o`. Descriptors are reused, lowest first; `close` frees the number
whoever has it now. `close` may end another thread's `select`
(`SelectWakes`) or not: POSIX leaves it open and Linux lets the thread wait. A server's `ThreadListen`
accepts connections, scans its slots (`at`) and closes those that ended; `XStop`'s loop over
`m_client` (`XStopCloseClient`, `closing` its index) closes what it finds there one by one, while
`ThreadListen` may still fill, read and close the same slots. `crash` records what the process died of;
a late ack, `NullString` and SIGPIPE are other ways to die, which are not in this module.

## Runs

| Run | Question | Bounds |
|---|---|---|
| `MsgQueue` | is the queue a fifo that wakes its reader, whatever the threads do? | 2 producers, 3 packets, limit 2, so that pushes collide, are refused, and meet a cancel |
| `SessionRetries` | one sender: are retries, acks and losses what the channel promises? | 3 packets, 2 attempts, sequence numbers wrap at 3, queue of 1, one frame per read |
| `SessionBothWays` | both sides send and the parser repeats frames: is anything forged? | 1 packet per side, reads of 2 frames, spurious wakeups |
| `SessionTwoSenders` | two threads share `iSeq`, `hSend` and `m_cond`: do their calls end, and not with more successes than packets? | 1 call each, sequence numbers wrap at 2, fairness |
| `XBuffer` | is the buffer a byte queue, and when does it overrun? | words below 8, steps 1 to 3, strings up to 4, content up to 6: blocks grow, shift, and sizes wrap |
| `Framing` | what comes out of the parser, however the stream is cut and torn? | 3 writes of 5 packets, a head of 3 bytes, a tail of 2, tears after 1 and 6 bytes, a buffer limit of 17 bytes |
| `ServerClients` | do clients that share a parser, a `preSeq` and descriptors get what is theirs, and are they served? | 2 clients, 2 descriptors, 2 slots, 1 file of the application; reads of up to 4 halves; a retry, a client with two packets, one that leaves; fairness |
| `Lifecycle` | who runs on what when connections start, fail, close and stop, and does `stopConnect` return? | 2 objects, so that a start follows a stop or a failure; 2 descriptors, which are reused, and a server's table of 1 slot; 1 sender; fairness, a peer that talks |

The bounds are the smallest at which every action fires and each case above
happens. For `Framing` they are chosen as follows: the packets are a short one, one whose data
hold bytes of head and tail and are long enough to fill most of a frame, and one for each way in which a
number does not fit its field; one byte of a torn frame is an X without a head, six bytes
are a head with a length that the next frame then fills; the limit is small enough for
`DataTooLong` and `NullString`. `DistinctSample` in `MCFraming` states that the packets satisfy the
hypotheses of the proofs. In `ServerClients` two frames fit a read, the client with two packets can have
both in one, and a file of the application or a connection that waits can take the
last descriptor. In `Lifecycle` one slot and two descriptors let an accepted one be closed by `XStop`, by
`ThreadListen` and by the next connection's threads.
The proofs carry the invariants to all values of the constants, under the
hypotheses named there.

What the runs of the two components say of the code:

* `CalmExact`: with whole writes and reads that do not span two of them, packets come out
  exact, in order and at once. With such reads, `InOrderOnce`: torn frames cost and delay packets, but do not
  repeat or reorder them. `ForgedAcrossFrames`: they can make up packets, the fields of one write
  with the head of another in the data, and each takes the place of one that was sent; nothing
  worse. The last two need two hypotheses. `Unshifted` is explained with the proofs. `Distinct` is needed since
  nothing in a frame is escaped: some letter of `JUNYI` and the `i` that ends `xjunyi` are in no data, and no data
  hold a head; every other byte of head and tail may be among them. The data of `test/main.cpp` comply: they have
  `I`, `U` and `Y`, but no `J`, `N` or `i`. Without the last letter of the tail
  TLC finds `ForgedAcrossFrames` violated: a frame torn before its last byte is completed by that byte
  in data that a read brought, or appended, behind it. `SpillIsTheTypeByte`: the longest packet
  is one byte too long for `m_sendTmpBuf`, since `DATA_MAX_SIZE` does not count the type.
* `TableIsExact`, `NobodyPassedOver`: table, set and counter agree after any sequence of
  accepts and closes. `CurIsNewest`: what the server sends goes to the newest client, to nobody or, since
  `m_curClientFd` begins as any number and is never cleared, into a file of the application. `AckGoesHome`:
  acks are right unless bytes of two clients met in the parser, or the sender had left; both
  happen in the run. `SuccessesAreDealt`: with the same exceptions no more calls of a client return 0 than packets
  of it were dealt; which call it is that returns 0 may be wrong (`SessionStaleSignal`). `CallbacksInOrder`,
  `RepeatsNeedAnotherClient`: `preSeq` lets a retry through again when another client's
  packet came between. Behind a read of its own that is longer than a frame a client's callbacks may also be A, B, A,
  which both properties except (`again`). `EveryClientServed`: a client that was accepted is
  read, unless connections wait for which there is no descriptor; then nobody is.

### Disagreements found

Runs that end in a violation, each against a sentence of the code or its header
(`findings` in `PROJECT.json` quotes them):

| Run | What happens |
|---|---|
| `SessionStaleSignal` | An ack matches `hSend`, the mutex is taken only afterwards; the signal wakes another `XSend`, and `sendData` returns 0 for a packet nobody took. |
| `SessionLateAck` | `hSend` is deleted by a timeout between `ThreadDeal`'s test and its use. |
| `SessionCoalescedRead` | Several frames in a read: the rest is parsed twice, and the callback sees a packet again. |
| `LifecycleStopReturns` | A thread that enters its loop late undoes `XStop`'s flag: `stopConnect` joins forever. |

The models contain more of the same kind, without a run of their own:

* Two senders can pass the sequence number 10000 to `XSend`, since `iSeq` has no lock: check
  `SeqFitsItsField` in `SessionTwoSenders.cfg`.
* `stopConnect` after a failed start joins threads that do not exist, `cbFunc` can become NULL
  between `xRecvCb`'s test and its call, and the object can be deleted under a thread in `sendData` (all three
  bounded by `DiesOnlyThroughStop`; a late ack, `NullString` and SIGPIPE can end the process at any time).
* The second `close` of a socket may hit a file the application has opened since
  (`LiveSocketIsOwn`: but never a connection that lives, and never a client of the server before `stopConnect`).
  So may `XStop`'s loop over `m_client`, whose slots keep the numbers it has closed.
* After a read of two frames a whole frame stays in the buffer until more arrives.
* Without traffic after `close`, `stopConnect` waits for `select` (replace
  `TalkingPeerSpec` by `FairSpec` in `Lifecycle.cfg`).
* A buffer of exactly `SOCKET_MAX_SIZE` bytes without an X ends the process (`NullString`).
* With several clients, a packet with the number of another client's last one is dropped without an
  ack (`DealDuplicate`), and a callback may be repeated.
* Without a free descriptor the server spins in `accept` and reads nobody (`AcceptFails`).

### Fairness

* `MsgQueue` (`FairSpec`): threads that can run do; the two steps of `popFront` that take the
  mutex are strongly fair, since producers whose pushes are refused could
  otherwise hold it at every moment that matters. Nobody has to push or cancel.
* `Session`: strong fairness of each thread's `sendData` and of `ThreadDeal`, for the
  same reason (`m_mutex`), weak fairness of `ThreadListen`. Calling `sendData` is not
  fair. `Timeout` is one of the thread's own steps: the clock goes on.
* `Lifecycle`: weak fairness of the calls under way and of the threads.
  `TalkingPeerSpec` adds that something keeps happening on the socket. The
  code cannot guarantee that, so `StopReturnsWhenLooping` is a promise about
  connections with traffic; `FairSpec`, without it, does not satisfy the property.
* `ServerClients`: weak fairness of `ThreadListen`, which the scheduler gives; `ThreadDeal` and
  the clients need not do anything.

## Proofs

TLAPS proves, for all values of the constants that satisfy the named
assumptions:

* `MsgQueueProofs`: `TypeCorrect`, `WakeupNeverLost`, `NullMeansEmpty`, `ImplementsFifo`.
* `SessionProofs`: `AlwaysIInv`, `TypeCorrect`, `AcksAreHonest` (`AckAfterAccept`),
  `NothingForged` (`NoForgery`), `NoStaleHSend` (`HSendHasOwner`).
* `SessionChannelProofs`, for one application thread in each process (`OneSender`):
  `NumbersFit` (`SeqFitsItsField`) and `RetriesAreFiltered` (`RetryNotRepeated`) whatever the
  reads hold, and `ImplementsChannel` (`ChannelSpec`) with one frame per read (`MaxRead = 1`).
* `SessionAcksProofs`, for any number of threads: `SuccessesBacked` (`SuccessesAreBacked`), with one
  frame per read (`MaxRead = 1`) and no spurious wakeups.
* `XBufferProofs`: `TypeCorrect`, `NoOverrunBelowWrap` (`OverrunOnlyAtWrap`), `ImplementsByteQueue`.
* `FramingProofs`: `TypeCorrect`, `CalmIsExact` (`CalmExact`), `OneByteTooLong` (`SpillIsTheTypeByte`); under two hypotheses
  about the data of the packets (`Distinct`, `Unshifted`), `ForgedOnlyAcross` (`ForgedAcrossFrames`) and
  `OrderKept` (`InOrderOnce`); and `RequestsUnshifted`, that requests satisfy the second of these hypotheses.
* `LifecycleProofs`: `TypeCorrect`, `NoThreadOnDeletedObject` (`ThreadsHaveTheirObject`),
  `OnlyFailuresLeak`, `ReportedOnce` (`ClosedOnce`), `CausesOfDeath` (`DiesOnlyThroughStop`),
  `LiveSocketKept` (`LiveSocketIsOwn`).
* `ServerClientsProofs`: `TypeCorrect`, `TableExact`, `PassComplete` (`NobodyPassedOver`), `CurrentIsNewest`,
  `AcksGoHome`, `SuccessesDealt` (`SuccessesAreDealt`), `CallbacksOrdered`, `RepeatsSeparated`.

*The argument for the queue.* `IInv` adds to the type invariant that the mutex holder
is exactly the thread inside the critical section (`MutexInv`), that what was
tested under the mutex still holds (`RoomInv`, `BlockInv`), and that the
histories account for every packet (`HistoryInv`). `NoLostWakeup` is
inductive only with them: the wait begins from a test that `BlockInv` keeps
true. The refinement maps `PushStore` to an append, `PopTake` to a removal, and
everything else to a stutter.

*The argument for the session.* A frame on its way to `e` is honest
(`Honest`): a request `e`'s peer has sent, or an ack for something the peer took.
`FlightInv` says so of the wire, the parser's buffer, the rest of a read and the
queue; `CurInv` of the packet `ThreadDeal` holds; `SentInv` that a packet is
recorded as sent before its first frame is written; `ParseInv` that the buffer
is never shorter than the rest of the read, so that `Head(rbuf)` exists. The
parser's repetition and loss both preserve honesty, which is why these
properties survive it while `CallbackOncePerPacket` does not. `sent` and
`accepted` only grow, so honesty is stable. TLC checks `IInv` in
`SessionBothWays`.

*The argument for one sender.* Only its own thread moves a process's `iSeq`, so it passes the
limit between the increment and the wrap alone (`NumberInv`), and every attempt of a call
carries the call's number (`StampedInv`): two frames of one packet have one number, which is what
`preSeq` needs to filter the second. For that, what is in flight, in hand and taken last must be
taken together, as a retry may still be behind the packet it repeats. With one frame per read
the parser holds one frame at most, and the wire, the parser, `MsgQ`, the hand and the last taken
request are in the order of calls (`OrderInv`). So what was taken, and what was sent, are strictly
increasing (`TakenInv`, `SentOrder`), and a packet given to the callback is
later in what was sent than all before it: a step of `LossyFifo`.
With larger reads the parser repeats frames and the refinement fails, as
`SessionCoalescedRead` shows. Nothing of this is claimed of two senders in a process, whose
numbers pass their field.

*The argument for the acks.* An ack is made when a packet is taken and ends as at most one
signal, and a signal wakes at most one waiter. So for each process the successes its threads have
returned or will return (`Told`), and the acks that have not become a signal - on the wire, in the
parser, in `MsgQ`, in `ThreadDeal`'s hand (`Pending`) - are together never more than the packets the
peer has taken (`AcksInv`). Nothing is said of which thread is told: two senders may be told of each
other's packets (`SessionStaleSignal`), but the sum is right.
The hypothesis about wakeups is needed: a spurious one ends `XSend` as a signal does, since the
code has no loop around its wait, and TLC finds the violation at once. The one about reads is what this count
needs: a larger read makes two acks of one in the parser's buffer. Whether the
sum can then be wrong is open; TLC finds no violation with two threads, two calls each and reads of two frames.

*The argument for the framing.* The provers have no induction over data, but the library has that a
set ordered well has a least element (`WFMin`). So induction is over sets of numbers here (`NatSet`): with it the
recursions of `Pow` and `Strtol` have solutions, and a number comes back from its digits
(`StrtolOfDigits`), by which `Parse` gives back the packet (`FrameRead`). `TypeCorrect` needs
less, that at most `SEQ_WIDTH` digits are less than `Pow[SEQ_WIDTH]` (`StrtolBound`), but for
every string, since after tears the parser may read anything. For `CalmIsExact`, `CalmInv` describes the
stream: there are offsets at which the frames of the packets not yet in `MsgQ` stand one behind
the other in `buf \o net`, each offset in `net` is the end of a write, and `buf` ends inside the first frame,
or with it while `OnRecvMsg` has not looked. A read that does not pass the end
of a write keeps the last part; the search finds the head at the first byte, so that
none of its reads behind the content happens; and a frame that is all there ends the read, which
leaves nothing to append again. TLC checked the offsets on the states of `Framing`
before they were proved.

*The argument for torn frames.* As long as no read has bytes of two writes (`alone`), every byte of `buf \o net` gets two labels, the number of the write it came from and its
offset in that write's frame (`Labelled`). A read that keeps a rest appends bytes that were there already, so the
labels are not increasing, but they move as the bytes do (`LabelsMoved`), and wherever they break a byte is
the first of a write, follows a torn write or lies behind what is appended again (`Follows`). `Distinct` gives
one byte of the head behind its first, and the last of the tail, which can stand nowhere else in a frame (`Marking`);
so where the parser finds a head, this byte tells the write and the offset, the bytes around it follow (`Follows`, `FirstByte`), and
the labels are those of one write from its offset 0 (`HeadOffsets`), or of an X alone and the head
behind it (`NotShifted`); where it finds a tail, they are of the end of one write (`TailOffset`). What lies between is one whole frame
(`ReadWhole`), or begins in a write that was torn and ends in a later one, whose head it then
holds (`ReadAcross`). Either way the packet is charged to the write in which it ends. `OriginInv` says that
the writes charged so far increase, that no first byte of any of them is left in the stream (`Pushed`), and that
each packet in `MsgQ` is the one of its write or has a head in its data. So a second packet can only end in a later write,
although bytes are parsed twice: they lie behind the fields that were read. TLC checked the labels on the states of `Framing`,
as a ghost variable, before they were proved.

`Unshifted` is there because TLC showed that the theorems are false without it. An X alone before a head, the
rest of a write torn after one byte, is taken for the head's own first byte (`Heads`); the fields are read one
byte early, and the type with the first digits of the length is read as the length. Of a request, whose type is 0, this
is a tenth of the length, and the tail is not found there (`RequestsUnshifted`); an ack, which echoes its packet's data, is of type 1, and if they are
less than 1111 bytes, the length read is more than its own, so that a packet can be pieced together from it and what follows.

*The argument for the buffer.* Sizes stay words because the capacity is a multiple of
the step that has room for the sum (`RoundRoom`), unless the sum wraps; then
`Append` is an overrun, and the model ends. The refinement compares contents cell by
cell: a new block has the old cells in front (`ContentCopied`), a pop shifts them.

*The argument for the lifecycle.* `MainInv` says for each place of `startConnect` and
`stopConnect` what `hXSocket` points to and whether its threads exist, `ThreadInv` that the
threads of an object exist together; a join is what lets `StopDelete` conclude that no thread is left. `ReportInv` ties
`ThreadListen`'s place to its loop flag, so that it cannot report twice; `SocketInv` says that
a `ThreadListen` which can still wait on its socket has it.

*The argument for the server.* Four invariants hold of the table by themselves:
`TableInv` pairs slots with descriptors, and a free descriptor leaves a free slot by the
pigeon-hole principle (`RoomInTable`), which is where `NOFILE <= FD_SETSIZE` is used; `LoopInv`
says that `selectRet` is the number of ready slots from `i` on, for which the slots must be a
bijection with the descriptors (`PassCount`). `ReaderInv` says that `rest`, and the buffer unless `mixed`,
hold bytes of the client being read only. The packets pass four stages: net, buffer, queue, dealt.
`NetOrder`, `BufferOrder`, `QueueOrder` and `DealtOrder` say of each stage that no packet of a client that is not in
`again` is older than another further on; `NumberInv` bounds them by `iSeq`, which makes
a new attempt the youngest. A read moves a prefix and `Parse` drops only from the front
(`Parsed`), which keeps the order even when bytes are mixed. With `SeqInv`, that `preSeq` is the number dealt last, a packet
dealt again has another client's before it. `HomeInv` follows a
frame's descriptor to its client, and so `AckGoesHome` is inductive. `ClaimsInv` counts as in `Session`: the successes of a client, and the acks
that are under way, compared or signalled, are together never more than its packets in `dealt`, whichever call a
signal wakes. TLC checked the invariant before it was proved.

Assumptions: `MsgQueueAssumption`, `SessionAssumption`, `XBufferAssumption`,
`FramingAssumption`, `LifecycleAssumption`, `ServerAssumption` (finite sets are not
assumed; limits are at least 1). `FramingAssumption` says of the layout that the longest
length fits `DATA_MAX_SIZE` and that `DATA_MAX_SIZE` has one digit more at most, as 9999 and 10220 do, and of
packets that their numbers have at most one digit too many, which is what two senders can do to `iSeq`; their
data are any bytes. `OneSender`, `MaxRead = 1`, `~SpuriousWakeups`, `Distinct` and `Unshifted` are hypotheses of the theorems that
need them, not assumptions of a module. `Distinct` asks of the layout what `XJUNYI`, `xjunyi` and the widths of four
digits satisfy, and of the data what "Runs" says of them. Without it the theorems are false: data that hold the end of a tail, or a head, can be
taken for that of a frame by a parser that a torn frame has put out of step. `ServerAssumption` has `NOFILE <= FD_SETSIZE`, without
which `FD_SET` writes outside its set, and at most 9999 calls of each client, so that `iSeq` does not wrap.

Only model-checked is liveness, which is outside the prover's reach; every invariant and every action
property of the runs is proved. The runs that end in a violation have nothing to prove.

## Not modelled

* `stopConnect` called from the callback, two threads that start and stop:
  the header forbids blocking in the callback and the test has one such thread.
* `pthread_create` failing, memory exhaustion other than in `XBuffer`, logs, SIGPIPE (its
  disposition is the application's).
* In `ServerClients`: writes that fail, spurious wakeups, an `iSeq` that wraps, and the use of a deleted `hSend`,
  all of which are in `Session`; in `Framing`: the sign and blanks of `strtol`.
* The nanosecond comparison in `XSend` (line 420 of the client) and the timeout's
  length: they affect when a timeout happens, and a timeout may happen at any moment in `Session`.
* `PackResponse`'s bytes (an ack is a frame like any other for the parser, and a
  record in `Session`) and the getters and setters of `SocketCommon.cpp`.
* `CXSMsgQueue::clean`, which nothing calls.
* `createXSocket` and `destroyXSocket`, which allocate and free a table of functions;
  the base class, whose functions return 0; the log macros; the test program, whose use of the interface is
  `Lifecycle`'s environment.

What the header says of the callback's `errcode` (the number of connections, if positive) differs
from the code, which passes 1; nothing in the models depends on the number.

## Plan

1. `ServerClients` joined with `Session`: several clients whose writes fail, whose numbers wrap and
   whose threads meet `hSend` as in `Session`, and a server that sends of its own accord.
2. `SuccessesBacked` for larger reads, with the parser's repetitions counted, or a counterexample.
