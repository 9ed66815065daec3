---------------------------- MODULE XBufferProofs ----------------------------
(***************************************************************************)
(* The byte buffer for any bytes, word, step and sizes: type correctness,  *)
(* when a write runs past the block, and that the buffer implements        *)
(* ByteQueue.                                                              *)
(***************************************************************************)
EXTENDS XBuffer, SequenceTheorems, TLAPS

LEMMA WordFacts ==
  /\ WORD \in Nat \ {0} /\ MaxAppend < WORD /\ MaxSize < WORD
  /\ MaxAppend \in Nat /\ MaxSize \in Nat
BY XBufferAssumption

LEMMA StringFacts ==
  ASSUME NEW s \in Strings
  PROVE  s \in Seq(Bytes) /\ Len(s) \in 0..MaxAppend /\ s \in [1..Len(s) -> Bytes]
<1>1. PICK n \in 0..MaxAppend : s \in [1..n -> Bytes]
  BY DEF Strings
<1>2. s \in Seq(Bytes)
  BY <1>1, SeqDef, WordFacts
<1>3. Len(s) = n
  BY <1>1, <1>2, LenProperties, WordFacts
<1> QED
  BY <1>1, <1>2, <1>3

(* Rounding to the next step gives room, and wastes at most one step. *)
LEMMA RoundRoom ==
  ASSUME NEW w \in Nat, NEW step \in Nat \ {0}
  PROVE  /\ (w \div step + 1) * step \in Nat
         /\ w < (w \div step + 1) * step
         /\ (w \div step + 1) * step <= w + step
<1> DEFINE q == w \div step
<1>1. q \in Nat /\ w = (step * q) + (w % step) /\ w % step \in 0..step - 1
  OBVIOUS
<1>2. (q + 1) * step = step * q + step
  BY <1>1
<1>3. step * q \in Nat
  BY <1>1
<1> HIDE DEF q
<1> QED
  BY <1>1, <1>2, <1>3 DEF q

LEMMA CapacityFacts ==
  ASSUME TypeOK, NEW n \in 0..WORD - 1
  PROVE  /\ Capacity(n) \in 0..WORD - 1
         /\ m_iDataSize + n > Capacity(n) => m_iDataSize + n + m_iIncreaseSize >= WORD
<1> DEFINE t == (n + m_iDataSize) % WORD
           r == (t \div m_iIncreaseSize + 1) * m_iIncreaseSize
<1>1. /\ m_iBufSize \in 0..WORD - 1 /\ m_iDataSize \in Nat /\ m_iDataSize <= m_iBufSize
      /\ m_iIncreaseSize \in Nat \ {0} /\ WORD \in Nat \ {0}
  BY WordFacts DEF TypeOK
<1>2. t \in 0..WORD - 1 /\ (n + m_iDataSize < WORD => t = n + m_iDataSize)
  BY <1>1
<1>3. r \in Nat /\ t < r /\ r <= t + m_iIncreaseSize
  <2>1. t \in Nat
    BY <1>1, <1>2
  <2> HIDE DEF t
  <2> QED
    BY <1>1, <2>1, RoundRoom
<1>4. Capacity(n) = IF t > m_iBufSize THEN r % WORD ELSE m_iBufSize
  BY DEF Capacity, Round
<1> HIDE DEF t, r
<1>5. r % WORD \in 0..WORD - 1 /\ (r < WORD => r % WORD = r)
  BY <1>1, <1>3
<1> QED
  BY <1>1, <1>2, <1>3, <1>4, <1>5

(* A copy of n cells is a string of n bytes. *)
LEMMA CopyFacts ==
  ASSUME NEW b, NEW from \in Nat, NEW n \in Nat,
         \A i \in from..from + n - 1 : b[i] \in Bytes
  PROVE  LET copy == [i \in 1..n |-> b[from + i - 1]]
         IN  /\ copy \in Seq(Bytes) /\ Len(copy) = n
             /\ \A i \in 1..n : copy[i] = b[from + i - 1] /\ copy[i] \in Bytes
<1> DEFINE copy == [i \in 1..n |-> b[from + i - 1]]
<1>1. \A i \in 1..n : copy[i] = b[from + i - 1] /\ copy[i] \in Bytes
  OBVIOUS
<1>2. copy \in [1..n -> Bytes]
  BY <1>1
<1>3. copy \in Seq(Bytes)
  BY <1>2, SeqDef
<1>4. Len(copy) = n
  BY <1>2, <1>3, LenProperties
<1> QED
  BY <1>1, <1>3, <1>4

(* The content is in the block. *)
LEMMA ContentFacts ==
  ASSUME TypeOK
  PROVE  /\ m_iDataSize \in Nat /\ m_iBufSize \in Nat /\ m_iDataSize <= m_iBufSize
         /\ \A i \in 0..m_iDataSize - 1 : m_pBuf[i] \in Bytes
BY WordFacts DEF TypeOK, Cells

LEMMA InitTypeOK == Init => TypeOK
BY XBufferAssumption, EmptySeq DEF Init, TypeOK

(* An action that puts s behind the content keeps the types. *)
LEMMA AppendTypeOK ==
  ASSUME TypeOK, NEW s \in Strings, Append_(s)
  PROVE  TypeOK'
<1> DEFINE size == Capacity(Len(s))
<1>1. /\ Len(s) \in 1..MaxAppend /\ s \in Seq(Bytes)
      /\ \A i \in 1..Len(s) : s[i] \in Bytes
  BY StringFacts, EmptySeq, WordFacts DEF Append_
<1>2. size \in 0..WORD - 1
  BY <1>1, CapacityFacts, WordFacts
<1>3. m_iDataSize + Len(s) <= size /\ size # 0
  BY <1>1, <1>2, ContentFacts, WordFacts DEF Append_
<1>4. m_pBuf' = Block(s, size) /\ m_iBufSize' = size /\ m_iDataSize' = m_iDataSize + Len(s)
  BY DEF Append_
<1> HIDE DEF size
<1>5. ASSUME NEW i \in Cells(size)
      PROVE  Block(s, size)[i] \in Bytes
  <2>1. i \in Nat /\ i < size
    BY <1>2, WordFacts DEF Cells
  <2>2. CASE i < m_iDataSize
    BY <2>1, <2>2, ContentFacts DEF Block
  <2>3. CASE ~(i < m_iDataSize) /\ i < m_iDataSize + Len(s)
    BY <1>1, <2>1, <2>3, ContentFacts, WordFacts DEF Block
  <2>4. CASE ~(i < m_iDataSize + Len(s)) /\ size = m_iBufSize
    BY <1>1, <1>3, <2>1, <2>4, ContentFacts, WordFacts DEF Block, TypeOK, Cells
  <2>5. CASE ~(i < m_iDataSize + Len(s)) /\ size # m_iBufSize
    BY <1>1, <2>1, <2>5, ContentFacts, WordFacts, XBufferAssumption DEF Block
  <2> QED
    BY <2>2, <2>3, <2>4, <2>5, <1>1, <2>1, ContentFacts, WordFacts
<1>6. Block(s, size) \in [Cells(size) -> Bytes]
  BY <1>5 DEF Block
<1> QED
  BY <1>1, <1>2, <1>3, <1>4, <1>6, ContentFacts, EmptySeq, WordFacts DEF TypeOK, Append_

(* Every step keeps the types. *)
LEMMA NextTypeOK == TypeOK /\ [Next]_vars => TypeOK'
<1> SUFFICES ASSUME TypeOK, [Next]_vars PROVE TypeOK'
  OBVIOUS
<1> USE WordFacts, XBufferAssumption, EmptySeq
<1>1. ASSUME NEW s \in Strings, Append_(s) PROVE TypeOK'
  BY <1>1, AppendTypeOK
<1>2. ASSUME NEW s \in Strings, AppendOverrun(s) PROVE TypeOK'
  BY <1>2, StringFacts, ContentFacts DEF AppendOverrun, TypeOK, sizes
<1>3. ASSUME NEW n \in 0..MaxAppend, Prealloc(n) PROVE TypeOK'
  <2>1. n \in 1..WORD - 1 /\ Zeroed(n) \in [Cells(n) -> Bytes]
    BY <1>3 DEF Prealloc, Zeroed
  <2> QED
    BY <1>3, <2>1 DEF Prealloc, TypeOK
<1>4. ASSUME NEW n \in 0..MaxAppend, Get(n) PROVE TypeOK'
  <2>1. Copy(0, n) \in Seq(Bytes)
    BY <1>4, ContentFacts, CopyFacts DEF Copy, Get
  <2> QED
    BY <1>4, <2>1 DEF Get, TypeOK, sizes
<1>5. ASSUME NEW n \in 0..MaxSize, NEW discard \in BOOLEAN, Pop(n, discard) PROVE TypeOK'
  <2>1. out' \in Seq(Bytes)
    <3>1. Copy(0, n) \in Seq(Bytes)
      BY <1>5, ContentFacts, CopyFacts DEF Copy, Pop
    <3> QED
      BY <1>5, <3>1 DEF Pop
  <2>2. m_iBufSize # 0 /\ m_iDataSize - n \in 0..m_iBufSize
    BY <1>5, ContentFacts DEF Pop
  <2>3. m_pBuf \in [Cells(m_iBufSize) -> Bytes]
    BY <2>2 DEF TypeOK
  <2>4. ASSUME NEW i \in Cells(m_iBufSize), i < m_iDataSize - n
        PROVE  i + n \in Cells(m_iBufSize)
    BY <1>5, <2>4, ContentFacts DEF Cells, Pop
  <2>5. m_pBuf' \in [Cells(m_iBufSize) -> Bytes]
    BY <1>5, <2>3, <2>4 DEF Pop
  <2> QED
    BY <1>5, <2>1, <2>2, <2>5 DEF Pop, TypeOK
<1>6. ASSUME NEW n \in 0..MaxSize, NEW discard \in BOOLEAN, Pour(n, discard) PROVE TypeOK'
  <2>1. Copy(m_iDataSize - n, n) \in Seq(Bytes)
    <3>1. m_iDataSize - n \in Nat /\ n \in Nat
      BY <1>6, ContentFacts DEF Pour
    <3>2. \A i \in m_iDataSize - n..(m_iDataSize - n) + n - 1 : m_pBuf[i] \in Bytes
      BY <3>1, ContentFacts
    <3> DEFINE from == m_iDataSize - n
    <3>3. from \in Nat /\ \A i \in from..from + n - 1 : m_pBuf[i] \in Bytes
      BY <3>1, <3>2
    <3> HIDE DEF from
    <3>4. Copy(from, n) \in Seq(Bytes)
      BY <3>1, <3>3, CopyFacts DEF Copy
    <3> QED
      BY <3>4 DEF from
  <2> QED
    BY <1>6, <2>1, ContentFacts DEF Pour, TypeOK
<1>7. ASSUME NEW isClear \in BOOLEAN, Reset(isClear) PROVE TypeOK'
  <2>1. CASE isClear
    BY <1>7, <2>1 DEF Reset, Initialize, TypeOK
  <2>2. CASE ~isClear
    <3>1. Zeroed(m_iBufSize) \in [Cells(m_iBufSize) -> Bytes]
      BY DEF Zeroed
    <3> QED
      BY <1>7, <2>2, <3>1, ContentFacts DEF Reset, TypeOK
  <2> QED
    BY <2>1, <2>2
<1>8. ASSUME NEW n \in Increases, SetIncreaseSize(n) PROVE TypeOK'
  BY <1>8 DEF SetIncreaseSize, TypeOK
<1>9. CASE Refused
  BY <1>9 DEF Refused, TypeOK, sizes
<1>10. CASE UNCHANGED vars
  BY <1>10 DEF vars, sizes, TypeOK
<1> QED
  BY <1>1, <1>2, <1>3, <1>4, <1>5, <1>6, <1>7, <1>8, <1>9, <1>10 DEF Next

(* The sizes stay words, and the content lies in the block that m_iBufSize *)
(* describes, through every sequence of calls.                             *)
THEOREM TypeCorrect == Spec => []TypeOK
<1> QED
  BY InitTypeOK, NextTypeOK, PTL DEF Spec

-----------------------------------------------------------------------------
LEMMA NextOverrun == TypeOK /\ OverrunOnlyAtWrap /\ [Next]_vars => OverrunOnlyAtWrap'
<1> SUFFICES ASSUME TypeOK, OverrunOnlyAtWrap, [Next]_vars PROVE OverrunOnlyAtWrap'
  OBVIOUS
<1> USE DEF OverrunOnlyAtWrap
<1>1. ASSUME NEW s \in Strings, Append_(s) PROVE OverrunOnlyAtWrap'
  BY <1>1 DEF Append_
<1>2. ASSUME NEW s \in Strings, AppendOverrun(s) PROVE OverrunOnlyAtWrap'
  <2>1. Len(s) \in 0..WORD - 1
    BY StringFacts, WordFacts
  <2>2. m_iDataSize + Len(s) + m_iIncreaseSize >= WORD
    BY <1>2, <2>1, CapacityFacts DEF AppendOverrun
  <2> QED
    BY <1>2, <2>2 DEF AppendOverrun, sizes
<1>3. ASSUME NEW n \in 0..MaxAppend, Prealloc(n) \/ Get(n) PROVE OverrunOnlyAtWrap'
  BY <1>3 DEF Prealloc, Get
<1>4. ASSUME NEW n \in 0..MaxSize, NEW discard \in BOOLEAN,
             Pop(n, discard) \/ Pour(n, discard)
      PROVE  OverrunOnlyAtWrap'
  BY <1>4 DEF Pop, Pour
<1>5. ASSUME NEW isClear \in BOOLEAN, Reset(isClear) PROVE OverrunOnlyAtWrap'
  BY <1>5 DEF Reset
<1>6. ASSUME NEW n \in Increases, SetIncreaseSize(n) PROVE OverrunOnlyAtWrap'
  BY <1>6 DEF SetIncreaseSize
<1>7. CASE Refused \/ UNCHANGED vars
  BY <1>7 DEF Refused, vars, sizes
<1> QED
  BY <1>1, <1>2, <1>3, <1>4, <1>5, <1>6, <1>7 DEF Next

(* Append leaves its block only where the sizes wrap a word: for every     *)
(* step that SetIncreaseSize may have set, rounding up gives room.         *)
THEOREM NoOverrunBelowWrap == Spec => []OverrunOnlyAtWrap
<1>1. Init => OverrunOnlyAtWrap
  BY DEF Init, OverrunOnlyAtWrap
<1> QED
  BY <1>1, InitTypeOK, NextTypeOK, NextOverrun, PTL DEF Spec

-----------------------------------------------------------------------------
(* A string is the beginning of another that repeats it. *)
LEMMA IsFirst ==
  ASSUME NEW s \in Seq(Bytes), NEW t \in Seq(Bytes), Len(s) <= Len(t),
         \A i \in 1..Len(s) : s[i] = t[i]
  PROVE  s = SubSeq(t, 1, Len(s))
<1>1. Len(s) \in Nat /\ Len(t) \in Nat
  BY LenProperties
<1>2. \A i \in 1..Len(s) : t[i] \in Bytes
  BY <1>1, ElementOfSeq
<1>3. /\ SubSeq(t, 1, Len(s)) \in Seq(Bytes)
      /\ Len(SubSeq(t, 1, Len(s))) = Len(s)
      /\ \A i \in 1..Len(s) : SubSeq(t, 1, Len(s))[i] = t[i]
  BY <1>1, <1>2, SubSeqProperties
<1> QED
  BY <1>3, SeqEqual

(* A string is the end of another that repeats it n places further on. *)
LEMMA IsRest ==
  ASSUME NEW s \in Seq(Bytes), NEW t \in Seq(Bytes), NEW n \in Nat,
         Len(t) = Len(s) + n, \A i \in 1..Len(s) : s[i] = t[n + i]
  PROVE  s = SubSeq(t, n + 1, Len(t))
<1>1. Len(s) \in Nat /\ Len(t) \in Nat
  BY LenProperties
<1>2. \A i \in n + 1..Len(t) : t[i] \in Bytes
  BY <1>1, ElementOfSeq
<1>3. /\ SubSeq(t, n + 1, Len(t)) \in Seq(Bytes)
      /\ Len(SubSeq(t, n + 1, Len(t))) = Len(s)
      /\ \A i \in 1..Len(s) : SubSeq(t, n + 1, Len(t))[i] = t[n + i]
  BY <1>1, <1>2, SubSeqProperties
<1> QED
  BY <1>3, SeqEqual

LEMMA CellFacts ==
  ASSUME NEW b, NEW size \in Nat, NEW n \in 0..size, size # 0 => b \in [0..size - 1 -> Bytes]
  PROVE  \A i \in 0..0 + n - 1 : b[i] \in Bytes
<1> SUFFICES ASSUME NEW i \in 0..0 + n - 1 PROVE b[i] \in Bytes
  OBVIOUS
<1>1. i \in Nat /\ i < n
  OBVIOUS
<1>2. size # 0 /\ i \in 0..size - 1
  BY <1>1
<1> QED
  BY <1>2

LEMMA ContentCopied ==
  ASSUME NEW b, NEW n \in Nat, \A i \in 0..0 + n - 1 : b[i] \in Bytes,
         NEW copy, copy = [i \in 1..n |-> b[0 + i - 1]]
  PROVE  /\ copy \in Seq(Bytes) /\ Len(copy) = n
         /\ \A i \in 1..n : copy[i] = b[i - 1]
<1>1. /\ copy \in Seq(Bytes) /\ Len(copy) = n
      /\ \A i \in 1..n : copy[i] = b[0 + i - 1]
  BY CopyFacts
<1>2. \A i \in 1..n : b[0 + i - 1] = b[i - 1]
  OBVIOUS
<1> QED
  BY <1>1, <1>2

(* Every call does to the content what ByteQueue says. *)
LEMMA NextQueue ==
  TypeOK /\ TypeOK' /\ [Next]_vars => [Queue!Next]_<<Copy(0, m_iDataSize), given, out>>
<1> SUFFICES ASSUME TypeOK, TypeOK', [Next]_vars
             PROVE  [Queue!Next]_<<Copy(0, m_iDataSize), given, out>>
  OBVIOUS
<1> DEFINE old == Copy(0, m_iDataSize)
           new == Copy(0, m_iDataSize)'
<1>1. /\ m_iDataSize \in Nat /\ old \in Seq(Bytes) /\ Len(old) = m_iDataSize
      /\ \A i \in 1..m_iDataSize : old[i] = m_pBuf[i - 1]
  <2>1. \A i \in 0..0 + m_iDataSize - 1 : m_pBuf[i] \in Bytes
    BY ContentFacts
  <2>2. \A i \in 1..m_iDataSize : m_pBuf[0 + i - 1] = m_pBuf[i - 1]
    BY ContentFacts
  <2> QED
    BY <2>1, <2>2, ContentFacts, CopyFacts DEF Copy
<1> HIDE DEF old, new
<1>2. /\ m_iDataSize' \in Nat
      /\ \A i \in 0..0 + m_iDataSize' - 1 : m_pBuf'[i] \in Bytes
  <2>1. m_iBufSize' \in Nat /\ m_iDataSize' \in 0..m_iBufSize'
    BY WordFacts DEF TypeOK
  <2>2. m_iBufSize' # 0 => m_pBuf' \in [0..m_iBufSize' - 1 -> Bytes]
    BY DEF TypeOK, Cells
  <2>3. m_iDataSize' \in Nat /\ m_iDataSize' <= m_iBufSize'
    BY <2>1
  <2> QED
    BY <2>1, <2>2, <2>3, CellFacts
<1>3. /\ new \in Seq(Bytes) /\ Len(new) = m_iDataSize'
      /\ \A i \in 1..m_iDataSize' : new[i] = m_pBuf'[i - 1]
  <2>1. new = [i \in 1..m_iDataSize' |-> m_pBuf'[0 + i - 1]]
    BY DEF Copy, new
  <2>2. \A b, copy : \A n \in Nat :
          /\ \A i \in 0..0 + n - 1 : b[i] \in Bytes
          /\ copy = [i \in 1..n |-> b[0 + i - 1]]
          => /\ copy \in Seq(Bytes) /\ Len(copy) = n
             /\ \A i \in 1..n : copy[i] = b[i - 1]
    BY ContentCopied
  <2> QED
    BY <1>2, <2>1, <2>2
<1>4. ASSUME NEW n \in Nat, NEW from \in Nat, from + n <= m_iDataSize
      PROVE  /\ Copy(from, n) \in Seq(Bytes) /\ Len(Copy(from, n)) = n
             /\ \A i \in 1..n : Copy(from, n)[i] = old[from + i]
  <2>1. \A i \in from..from + n - 1 : m_pBuf[i] \in Bytes
    BY <1>1, <1>4, ContentFacts
  <2>2. /\ Copy(from, n) \in Seq(Bytes) /\ Len(Copy(from, n)) = n
        /\ \A i \in 1..n : Copy(from, n)[i] = m_pBuf[from + i - 1]
    BY <2>1, CopyFacts DEF Copy
  <2>3. ASSUME NEW i \in 1..n PROVE Copy(from, n)[i] = old[from + i]
    <3>1. from + i \in 1..m_iDataSize
      BY <1>1, <1>4
    <3>2. old[from + i] = m_pBuf[from + i - 1]
      BY <1>1, <3>1
    <3> QED
      BY <2>2, <3>2
  <2> QED
    BY <2>2, <2>3
<1>5. ASSUME NEW n \in 0..m_iDataSize PROVE Copy(0, n) = Queue!First(old, n)
  <2>1. /\ Copy(0, n) \in Seq(Bytes) /\ Len(Copy(0, n)) = n
        /\ \A i \in 1..n : Copy(0, n)[i] = old[0 + i]
    BY <1>1, <1>4
  <2>2. \A i \in 1..n : Copy(0, n)[i] = old[i]
    BY <2>1
  <2> QED
    BY <1>1, <2>1, <2>2, IsFirst DEF Queue!First
<1>6. ASSUME m_iDataSize' = 0 PROVE new = << >>
  BY <1>3, <1>6, EmptySeq
<1>7. ASSUME m_pBuf' = m_pBuf, m_iDataSize' = m_iDataSize PROVE new = old
  BY <1>7 DEF Copy, old, new
<1> SUFFICES Queue!Next \/ (new = old /\ given' = given /\ out' = out)
  BY DEF old, new
<1>9. ASSUME new = old, given' = << >>, out' = << >> PROVE Queue!Look
  <2>1. 0 \in 0..Len(old) /\ Queue!First(old, 0) = << >>
    <3>1. SubSeq(old, 1, 0) \in Seq(Bytes) /\ Len(SubSeq(old, 1, 0)) = 0
      BY <1>1, SubSeqProperties
    <3> QED
      BY <1>1, <3>1, EmptySeq DEF Queue!First
  <2> QED
    BY <1>9, <2>1 DEF Queue!Look, old, new
<1>10. ASSUME NEW s \in Strings, Append_(s) PROVE Queue!Put
  <2>1. /\ m_iDataSize' = m_iDataSize + Len(s) /\ Len(s) \in Nat /\ s \in Seq(Bytes)
        /\ m_pBuf' = Block(s, Capacity(Len(s))) /\ given' = s /\ out' = << >>
        /\ m_iDataSize + Len(s) <= Capacity(Len(s))
    BY <1>10, StringFacts DEF Append_
  <2>2. Capacity(Len(s)) \in Nat
    <3>1. Len(s) \in 0..WORD - 1
      BY StringFacts, WordFacts
    <3> QED
      BY <3>1, CapacityFacts, WordFacts
  <2>3. ASSUME NEW i \in 1..m_iDataSize PROVE old[i] = new[i]
    <3>1. /\ i \in 1..m_iDataSize' /\ i - 1 < m_iDataSize
          /\ i - 1 \in 0..Capacity(Len(s)) - 1
      BY <1>1, <2>1, <2>2
    <3>2. Block(s, Capacity(Len(s)))[i - 1] = m_pBuf[i - 1]
      BY <3>1 DEF Block, Cells
    <3> QED
      BY <1>1, <1>3, <2>1, <3>1, <3>2
  <2>4. ASSUME NEW k \in 1..m_iDataSize', k > m_iDataSize
        PROVE  new[k] = s[k - m_iDataSize]
    <3>1. /\ ~(k - 1 < m_iDataSize) /\ k - 1 < m_iDataSize + Len(s)
          /\ k - 1 \in Cells(Capacity(Len(s)))
          /\ k - 1 - m_iDataSize + 1 = k - m_iDataSize
      BY <1>1, <2>1, <2>2, <2>4 DEF Cells
    <3>2. ASSUME NEW c \in Cells(Capacity(Len(s))),
                 ~(c < m_iDataSize), c < m_iDataSize + Len(s)
          PROVE  Block(s, Capacity(Len(s)))[c] = s[c - m_iDataSize + 1]
      BY <3>2, Zenon DEF Block
    <3>3. Block(s, Capacity(Len(s)))[k - 1] = s[k - 1 - m_iDataSize + 1]
      BY <3>1, <3>2
    <3>4. new[k] = m_pBuf'[k - 1]
      BY <1>3, <2>4
    <3> QED
      BY <2>1, <3>1, <3>3, <3>4
  <2>5. new = old \o s
    <3> DEFINE joined == old \o s
    <3>1. /\ joined \in Seq(Bytes) /\ Len(joined) = Len(old) + Len(s)
          /\ \A i \in 1..Len(old) + Len(s) :
               joined[i] = IF i <= Len(old) THEN old[i] ELSE s[i - Len(old)]
      BY <1>1, <2>1, ConcatProperties
    <3> HIDE DEF joined
    <3>2. Len(new) = Len(joined) /\ Len(new) = m_iDataSize'
      BY <1>1, <1>3, <2>1, <3>1
    <3>3. ASSUME NEW i \in 1..Len(new) PROVE new[i] = joined[i]
      <4>1. CASE i <= m_iDataSize
        <5>1. i \in 1..m_iDataSize /\ i \in 1..Len(old) + Len(s)
          BY <1>1, <1>3, <2>1, <4>1
        <5> QED
          BY <1>1, <2>3, <3>1, <4>1, <5>1
      <4>2. CASE ~(i <= m_iDataSize)
        <5>1. i \in 1..m_iDataSize' /\ i > m_iDataSize /\ i \in 1..Len(old) + Len(s)
          BY <1>1, <1>3, <2>1, <4>2
        <5>2. new[i] = s[i - m_iDataSize]
          BY <2>4, <5>1
        <5> QED
          BY <1>1, <3>1, <4>2, <5>1, <5>2
      <4> QED
        BY <4>1, <4>2
    <3> QED
      BY <1>3, <3>1, <3>2, <3>3, SeqEqual DEF joined
  <2> QED
    BY <2>1, <2>5 DEF Queue!Put, old, new
<1>11. ASSUME NEW s \in Strings, AppendOverrun(s) PROVE new = old /\ given' = given /\ out' = out
  BY <1>7, <1>11 DEF AppendOverrun, sizes
<1>12. ASSUME NEW n \in 0..MaxAppend, Prealloc(n) PROVE Queue!Look
  <2>1. m_iDataSize = 0 /\ m_iDataSize' = 0 /\ given' = << >> /\ out' = << >>
    BY <1>12 DEF Prealloc
  <2>2. new = << >> /\ old = << >>
    BY <1>1, <1>6, <2>1, EmptySeq
  <2> QED
    BY <1>9, <2>1, <2>2
<1>13. ASSUME NEW n \in 0..MaxAppend, Get(n) PROVE Queue!Look
  <2>1. n \in 0..Len(old) /\ given' = << >> /\ out' = Copy(0, n)
    BY <1>1, <1>13 DEF Get
  <2>2. new = old
    BY <1>7, <1>13 DEF Get, sizes
  <2> QED
    BY <1>1, <1>5, <2>1, <2>2 DEF Queue!Look, old, new
<1>14. ASSUME NEW n \in 0..MaxSize, NEW discard \in BOOLEAN, Pop(n, discard)
       PROVE  Queue!Take
  <2>1. /\ n \in 1..m_iDataSize /\ m_iDataSize' = m_iDataSize - n /\ given' = << >>
        /\ out' = IF discard THEN << >> ELSE Copy(0, n)
        /\ m_pBuf' = [i \in Cells(m_iBufSize) |->
                        IF i < m_iDataSize - n THEN m_pBuf[i + n]
                        ELSE IF i < m_iDataSize THEN ZERO ELSE m_pBuf[i]]
    BY <1>14 DEF Pop
  <2>2. ASSUME NEW i \in 1..m_iDataSize - n PROVE new[i] = old[n + i]
    <3>1. /\ i \in 1..m_iDataSize' /\ n + i \in 1..m_iDataSize
          /\ i - 1 \in 0..m_iBufSize - 1 /\ i - 1 < m_iDataSize - n
          /\ i - 1 + n = n + i - 1
      BY <2>1, ContentFacts
    <3>2. m_pBuf'[i - 1] = m_pBuf[n + i - 1]
      BY <2>1, <3>1 DEF Cells
    <3> QED
      BY <1>1, <1>3, <3>1, <3>2
  <2>3. new = Queue!AfterFirst(old, n)
    <3>1. n \in Nat /\ Len(old) = Len(new) + n /\ Len(new) = m_iDataSize - n
      BY <1>1, <1>3, <2>1
    <3> QED
      BY <1>1, <1>3, <2>2, <3>1, IsRest DEF Queue!AfterFirst
  <2>4. out' \in {Queue!First(old, n), << >>}
    BY <1>5, <2>1
  <2>5. n \in 0..Len(old)
    BY <1>1, <2>1
  <2> QED
    BY <2>1, <2>3, <2>4, <2>5 DEF Queue!Take, old, new
<1>15. ASSUME NEW n \in 0..MaxSize, NEW discard \in BOOLEAN, Pour(n, discard)
       PROVE  Queue!TakeBack
  <2>1. /\ n \in 1..m_iDataSize /\ m_iDataSize' = m_iDataSize - n /\ given' = << >>
        /\ out' = IF discard THEN << >> ELSE Copy(m_iDataSize - n, n)
        /\ m_pBuf' = m_pBuf
    BY <1>15 DEF Pour
  <2>2. /\ n \in 0..Len(old) /\ Len(old) - n = m_iDataSize'
        /\ m_iDataSize - n \in Nat /\ n \in Nat /\ (m_iDataSize - n) + n = m_iDataSize
    BY <1>1, <2>1
  <2>3. new = Queue!First(old, Len(old) - n)
    <3>1. Len(new) <= Len(old) /\ Len(new) = Len(old) - n
      BY <1>3, <1>1, <2>1, <2>2
    <3>2. ASSUME NEW i \in 1..Len(new) PROVE new[i] = old[i]
      <4>1. i \in 1..m_iDataSize /\ i \in 1..m_iDataSize'
        BY <1>1, <1>3, <2>1
      <4> QED
        BY <1>1, <1>3, <2>1, <4>1
    <3> QED
      BY <1>1, <1>3, <3>1, <3>2, IsFirst DEF Queue!First
  <2>4. Copy(m_iDataSize - n, n) = Queue!AfterFirst(old, Len(old) - n)
    <3> DEFINE from == m_iDataSize - n
    <3>2. from \in Nat /\ n \in Nat /\ from + n <= m_iDataSize
      BY <1>1, <2>2
    <3> HIDE DEF from
    <3>3. /\ Copy(from, n) \in Seq(Bytes) /\ Len(Copy(from, n)) = n
          /\ \A i \in 1..n : Copy(from, n)[i] = old[from + i]
      BY <1>4, <3>2
    <3>1. /\ Copy(m_iDataSize - n, n) \in Seq(Bytes) /\ Len(Copy(m_iDataSize - n, n)) = n
          /\ \A i \in 1..n : Copy(m_iDataSize - n, n)[i] = old[(m_iDataSize - n) + i]
      BY <3>3 DEF from
    <3> QED
      BY <1>1, <2>2, <3>1, IsRest DEF Queue!AfterFirst
  <2> QED
    BY <2>1, <2>2, <2>3, <2>4 DEF Queue!TakeBack, old, new
<1>16. ASSUME NEW isClear \in BOOLEAN, Reset(isClear) PROVE Queue!Clear
  BY <1>6, <1>16 DEF Reset, Initialize, Queue!Clear, new
<1>17. ASSUME NEW n \in Increases, SetIncreaseSize(n) PROVE new = old /\ given' = given /\ out' = out
  BY <1>7, <1>17 DEF SetIncreaseSize
<1>18. CASE Refused
  BY <1>7, <1>9, <1>18 DEF Refused, sizes, Queue!Next
<1>19. CASE UNCHANGED vars
  BY <1>7, <1>19 DEF vars, sizes
<1> QED
  BY <1>10, <1>11, <1>12, <1>13, <1>14, <1>15, <1>16, <1>17, <1>18, <1>19
     DEF Next, Queue!Next

(* Whatever its blocks, steps and sizes are, the buffer is the plain byte  *)
(* string of ByteQueue: nothing is lost, added or reordered by growing,    *)
(* moving, clearing or taking.                                             *)
THEOREM ImplementsByteQueue == Spec => ByteQueueSpec
<1>1. Init => Queue!Init
  <2> SUFFICES ASSUME Init PROVE Queue!Init
    OBVIOUS
  <2>1. Copy(0, 0) = << >>
    <3>1. Copy(0, 0) \in Seq(Bytes) /\ Len(Copy(0, 0)) = 0
      BY CopyFacts DEF Copy
    <3> QED
      BY <3>1, EmptySeq
  <2> QED
    BY <2>1 DEF Init, Queue!Init
<1> QED
  BY <1>1, InitTypeOK, NextTypeOK, NextQueue, PTL DEF Spec, ByteQueueSpec, Queue!Spec
=============================================================================
