------------------------------- MODULE XBuffer -------------------------------
(***************************************************************************)
(* CHSBuffer, the byte buffer of the protocol parser: an allocated block   *)
(* whose first m_iDataSize cells are the content.  One action per call;    *)
(* a buffer belongs to one thread.                                         *)
(***************************************************************************)
EXTENDS Naturals, Sequences

CONSTANTS Bytes,       \* the values of a byte
          ZERO,        \* the byte memset writes
          WORD,        \* 2^32: sizes are unsigned int
          DefaultIncrease, \* 32
          Increases,   \* bound: arguments of SetIncreaseSize
          MaxAppend,   \* bound: longest string appended
          MaxSize,     \* bound: bytes held
          NULL

ASSUME XBufferAssumption ==
  /\ ZERO \in Bytes
  /\ WORD \in Nat /\ DefaultIncrease \in 1..WORD - 1
  /\ Increases \subseteq 0..WORD - 1
  /\ MaxAppend \in 0..WORD - 1 /\ MaxSize \in 0..WORD - 1

VARIABLES m_pBuf,            \* the block, or NULL
          m_iDataSize, m_iBufSize, m_iIncreaseSize,
          given,             \* the string the last call has put in, or << >>
          out,               \* what the last call copied to its caller
          overrun            \* the size that a write past the block needed, or 0

sizes == <<m_iDataSize, m_iBufSize, m_iIncreaseSize>>
vars == <<m_pBuf, sizes, given, out, overrun>>

Cells(n) == 0..n - 1
Zeroed(n) == [i \in Cells(n) |-> ZERO]
Strings == UNION {[1..n -> Bytes] : n \in 0..MaxAppend}

(* memcpy(pszStr, m_pBuf + from, n) *)
Copy(from, n) == [i \in 1..n |-> m_pBuf[from + i - 1]]

Init ==
  /\ m_pBuf = NULL /\ m_iDataSize = 0 /\ m_iBufSize = 0
  /\ m_iIncreaseSize = DefaultIncrease
  /\ given = << >> /\ out = << >> /\ overrun = 0

(* The block a string of `wanted' bytes is put into; all arithmetic is     *)
(* unsigned.                                                               *)
RoundNoStep(wanted) == ((wanted \div m_iIncreaseSize) * m_iIncreaseSize) % WORD
Round(wanted) == ((wanted \div m_iIncreaseSize + 1) * m_iIncreaseSize) % WORD

Capacity(n) ==
  LET tsize == (n + m_iDataSize) % WORD
  IN  IF tsize > m_iBufSize THEN Round(tsize) ELSE m_iBufSize

(* A plausible bug: the string is copied one cell too far. *)
BlockOffByOne(s, size) ==
  [i \in Cells(size) |->
     IF i < m_iDataSize THEN m_pBuf[i]
     ELSE IF i \in m_iDataSize + 1..m_iDataSize + Len(s) THEN s[i - m_iDataSize]
     ELSE IF size = m_iBufSize THEN m_pBuf[i] ELSE ZERO]

(* The block after s was put behind the content; a new block is zeroed,    *)
(* and the old content copied to it.                                       *)
Block(s, size) ==
  [i \in Cells(size) |->
     IF i < m_iDataSize THEN m_pBuf[i]
     ELSE IF i < m_iDataSize + Len(s) THEN s[i - m_iDataSize + 1]
     ELSE IF size = m_iBufSize THEN m_pBuf[i] ELSE ZERO]

Append_(s) ==
  /\ overrun = 0 /\ s # << >> /\ m_iDataSize + Len(s) <= MaxSize
  /\ LET size == Capacity(Len(s))
     IN  /\ m_iDataSize + Len(s) <= size
         /\ m_pBuf' = Block(s, size)
         /\ m_iBufSize' = size
  /\ m_iDataSize' = m_iDataSize + Len(s)
  /\ given' = s /\ out' = << >>
  /\ UNCHANGED <<m_iIncreaseSize, overrun>>

(* The unsigned sum or the rounded size has wrapped. *)
AppendOverrun(s) ==
  /\ overrun = 0 /\ m_iDataSize + Len(s) > Capacity(Len(s))
  /\ overrun' = m_iDataSize + Len(s)
  /\ UNCHANGED <<m_pBuf, sizes, given, out>>

(* A call that answers -1, or 0 for size 0: malloc has failed, a size is   *)
(* too large.                                                              *)
Refused ==
  /\ overrun = 0
  /\ given' = << >>
  /\ out' = << >>
  /\ UNCHANGED <<m_pBuf, sizes, overrun>>

(* Append(NULL, n) allocates in advance. *)
Prealloc(n) ==
  /\ overrun = 0 /\ n # 0 /\ m_pBuf = NULL /\ m_iDataSize = 0
  /\ m_pBuf' = Zeroed(n) /\ m_iBufSize' = n
  /\ given' = << >>
  /\ out' = << >>
  /\ UNCHANGED <<m_iDataSize, m_iIncreaseSize, overrun>>

Get(n) ==
  /\ overrun = 0 /\ n \in 1..m_iDataSize
  /\ given' = << >>
  /\ out' = Copy(0, n)
  /\ UNCHANGED <<m_pBuf, sizes, overrun>>

(* memmove, then memset of the n cells behind the content *)
Pop(n, discard) ==
  /\ overrun = 0 /\ n \in 1..m_iDataSize
  /\ given' = << >>
  /\ out' = IF discard THEN << >> ELSE Copy(0, n)
  /\ m_pBuf' = [i \in Cells(m_iBufSize) |->
                  IF i < m_iDataSize - n THEN m_pBuf[i + n]
                  ELSE IF i < m_iDataSize THEN ZERO ELSE m_pBuf[i]]
  /\ m_iDataSize' = m_iDataSize - n
  /\ UNCHANGED <<m_iBufSize, m_iIncreaseSize, overrun>>

(* Takes from the end, and leaves the bytes in the block. *)
Pour(n, discard) ==
  /\ overrun = 0 /\ n \in 1..m_iDataSize
  /\ given' = << >>
  /\ out' = IF discard THEN << >> ELSE Copy(m_iDataSize - n, n)
  /\ m_iDataSize' = m_iDataSize - n
  /\ UNCHANGED <<m_pBuf, m_iBufSize, m_iIncreaseSize, overrun>>

(* A plausible bug: W_FREE without forgetting the size. *)
InitializeKeepsSize ==
  /\ m_pBuf' = NULL /\ m_iDataSize' = 0 /\ m_iBufSize' = m_iBufSize
  /\ m_iIncreaseSize' = IF m_iIncreaseSize < 1 THEN DefaultIncrease ELSE m_iIncreaseSize

Initialize ==
  /\ m_pBuf' = NULL /\ m_iDataSize' = 0 /\ m_iBufSize' = 0
  /\ m_iIncreaseSize' = IF m_iIncreaseSize < 1 THEN DefaultIncrease ELSE m_iIncreaseSize

Reset(isClear) ==
  /\ overrun = 0
  /\ given' = << >>
  /\ out' = << >>
  /\ \/ isClear /\ Initialize
     \/ /\ ~isClear
        /\ m_pBuf' = IF m_pBuf = NULL THEN NULL ELSE Zeroed(m_iBufSize)
        /\ m_iDataSize' = 0
        /\ UNCHANGED <<m_iBufSize, m_iIncreaseSize>>
  /\ UNCHANGED overrun

SetIncreaseSize(n) ==
  /\ overrun = 0
  /\ m_iIncreaseSize' = IF n > 0 THEN n ELSE m_iIncreaseSize
  /\ UNCHANGED <<m_pBuf, m_iDataSize, m_iBufSize, given, out, overrun>>

Next ==
  \/ \E s \in Strings : Append_(s) \/ AppendOverrun(s)
  \/ \E n \in 0..MaxAppend : Prealloc(n) \/ Get(n)
  \/ \E n \in 0..MaxSize, discard \in BOOLEAN : Pop(n, discard) \/ Pour(n, discard)
  \/ \E isClear \in BOOLEAN : Reset(isClear)
  \/ \E n \in Increases : SetIncreaseSize(n)
  \/ Refused

Spec == Init /\ [][Next]_vars

-----------------------------------------------------------------------------
(* Properties *)

(* The sizes are words; the block is there, with m_iBufSize cells, exactly *)
(* when m_iBufSize is not 0; the content lies inside it.                   *)
TypeOK ==
  /\ m_iBufSize \in 0..WORD - 1 /\ m_iDataSize \in 0..m_iBufSize
  /\ m_iIncreaseSize \in 1..WORD - 1
  /\ m_pBuf \in IF m_iBufSize = 0 THEN {NULL} ELSE [Cells(m_iBufSize) -> Bytes]
  /\ given \in Seq(Bytes) /\ out \in Seq(Bytes) /\ overrun \in Nat

(* Append writes past the block only when the content, rounded up to the   *)
(* next step, no longer fits a word: as long as it does, the comparison    *)
(* with m_iBufSize and the rounding always leave room.                     *)
OverrunOnlyAtWrap == overrun # 0 => overrun + m_iIncreaseSize >= WORD

(* Whatever calls were made before, in blocks that were enlarged, reused,  *)
(* freed or left with old bytes, the content is what was held, followed by *)
(* exactly the bytes Append was given, without those Pop and Pour took.    *)
Queue == INSTANCE ByteQueue WITH content <- Copy(0, m_iDataSize)
ByteQueueSpec == Queue!Spec
=============================================================================
