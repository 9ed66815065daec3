---------------------------- MODULE FramingProofs ----------------------------
(***************************************************************************)
(* What is proved of Framing for every layout, width and packet: that a    *)
(* number comes back from its digits, that a frame is the concatenation of *)
(* its fields, and from these the types, the calm case (whole frames, each *)
(* read on its own) and the length of the longest frame.                   *)
(*                                                                         *)
(* The second half is about writes that tear and reads that lose frames.   *)
(* Every byte of the stream is labelled with the write it came from and    *)
(* its offset in the frame of that write; a read changes the labels as it  *)
(* changes the bytes (Origin).  From the bytes of head and tail that stand *)
(* nowhere else (Marks) follows which write a packet in MsgQ was taken     *)
(* from, hence its order and what is in it when it was made up.            *)
(*                                                                         *)
(* Induction is over sets of numbers: a non-empty set of naturals has a    *)
(* least element (WFMin), so a set that holds 0 and with n also n + 1      *)
(* holds them all.                                                         *)
(***************************************************************************)
EXTENDS Framing, SequenceTheorems, WellFoundedInduction, TLAPS

-----------------------------------------------------------------------------
(* Naturals, maxima and minima *)

(* A non-empty set of naturals has a least element.                        *)
LEMMA Least ==
  ASSUME NEW S \in SUBSET Nat, S # {}
  PROVE  \E m \in S : \A n \in S : m <= n
<1>1. PICK m \in S : \A n \in S : ~ (<<n, m>> \in OpToRel(<, Nat))
  BY WFMin, NatLessThanWellFounded
<1>2. m \in S /\ \A n \in S : n \in Nat /\ m \in Nat /\ ~ (n < m)
  BY <1>1 DEF OpToRel
<1> QED
  BY <1>2

(* Induction, as a fact about a set of naturals                            *)
LEMMA NatSet ==
  ASSUME NEW S, 0 \in S, \A n \in Nat : n \in S => n + 1 \in S
  PROVE  Nat \subseteq S
<1> SUFFICES ASSUME Nat \ S # {} PROVE FALSE
  OBVIOUS
<1>1. PICK m \in Nat \ S : \A n \in Nat \ S : m <= n
  BY Least
<1>2. m # 0 /\ m - 1 \in Nat /\ m - 1 \notin Nat \ S
  BY <1>1
<1> QED
  BY <1>2

(* Min of a non-empty set of naturals                                      *)
LEMMA MinOfNats ==
  ASSUME NEW S \in SUBSET Nat, S # {}
  PROVE  Min(S) \in S /\ \A y \in S : Min(S) <= y
BY Least DEF Min

(* Max of a non-empty set of integers that has a bound                     *)
LEMMA MaxBelow ==
  ASSUME NEW S \in SUBSET Int, S # {}, NEW b \in Int, \A x \in S : x <= b
  PROVE  Max(S) \in S /\ \A y \in S : y <= Max(S)
<1> DEFINE T == {n \in Nat : b - n \in S}
<1>1. T # {}
  <2>1. PICK x \in S : TRUE
    OBVIOUS
  <2>2. b - x \in Nat /\ b - (b - x) = x
    BY <2>1
  <2> QED
    BY <2>1, <2>2
<1>2. PICK m \in T : \A n \in T : m <= n
  BY <1>1, Least
<1>3. \A y \in S : b - y \in T
  <2> SUFFICES ASSUME NEW y \in S PROVE b - y \in T
    OBVIOUS
  <2>1. b - y \in Nat /\ b - (b - y) = y
    OBVIOUS
  <2> QED
    BY <2>1
<1>4. b - m \in S /\ \A y \in S : b - m >= y
  BY <1>2, <1>3
<1>5. Max(S) \in S /\ \A y \in S : Max(S) >= y
  BY <1>4 DEF Max
<1> QED
  BY <1>5

(* Max as it is used to cut off at zero                                    *)
LEMMA MaxWithZero ==
  ASSUME NEW x \in Int
  PROVE  Max({0, x}) = IF x > 0 THEN x ELSE 0
BY DEF Max

(* Quotient and remainder                                                  *)
LEMMA Division ==
  ASSUME NEW n \in Nat, NEW d \in Nat \ {0}
  PROVE  /\ n \div d \in Nat /\ n % d \in 0..d - 1 /\ n = d * (n \div d) + (n % d)
         /\ n < d => n \div d = 0
  OBVIOUS

(* Dividing twice is dividing by the product.                              *)
LEMMA DivisionTwice ==
  ASSUME NEW n \in Nat, NEW d \in Nat \ {0}, NEW b \in Nat \ {0}
  PROVE  (n \div d) \div b = n \div (b * d)
  OBVIOUS

(* One digit more *)
LEMMA DigitMore ==
  ASSUME NEW x \in Nat, NEW b \in Nat, NEW d \in Nat
  PROVE  /\ x * b + d \in Nat
         /\ \A y \in Nat : x < y /\ d < b => x * b + d < b * y
<1>1. x * b \in Nat
  OBVIOUS
<1>2. ASSUME NEW y \in Nat, x < y, d < b PROVE x * b + d < b * y
  <2> DEFINE z == y - x - 1
  <2>1. z \in Nat /\ y = z + x + 1
    BY <1>2
  <2> HIDE DEF z
  <2>2. b * y = b * z + x * b + b /\ b * z \in Nat
    BY <2>1
  <2> QED
    BY <1>1, <1>2, <2>2
<1> QED
  BY <1>1, <1>2

-----------------------------------------------------------------------------
(* Powers of the base *)

(* What is assumed of the base and the widths                              *)
LEMMA Radix == BASE \in Nat \ {0, 1} /\ SEQ_WIDTH \in Nat \ {0} /\ LEN_WIDTH \in Nat \ {0}
BY FramingAssumption

(* The recursion of Pow has a solution.                                    *)
LEMMA PowRecursion ==
  /\ Pow[0] = 1 /\ \A n \in Nat : Pow[n] \in Nat \ {0} /\ Pow[n + 1] = BASE * Pow[n]
<1> DEFINE Sat(g, n) == /\ g \in [0..n -> Nat \ {0}] /\ g[0] = 1
                        /\ \A i \in 1..n : g[i] = BASE * g[i - 1]
           F == [n \in Nat |-> (CHOOSE g : Sat(g, n))[n]]
           Eq(f) == f = [n \in Nat |-> IF n = 0 THEN 1 ELSE BASE * f[n - 1]]
<1>1. \A n \in Nat : \E g : Sat(g, n)
  <2> DEFINE S == {n \in Nat : \E g : Sat(g, n)}
  <2>1. 0 \in S
    <3>1. Sat([i \in 0..0 |-> 1], 0)
      OBVIOUS
    <3> QED
      BY <3>1
  <2>2. ASSUME NEW n \in Nat, n \in S PROVE n + 1 \in S
    <3>1. PICK g : Sat(g, n)
      BY <2>2
    <3> DEFINE h == [i \in 0..n + 1 |-> IF i <= n THEN g[i] ELSE BASE * g[n]]
    <3>2. BASE * g[n] \in Nat \ {0}
      BY <3>1, Radix
    <3>3. h \in [0..n + 1 -> Nat \ {0}] /\ h[0] = 1
      BY <3>1, <3>2
    <3>4. \A i \in 1..n + 1 : h[i] = BASE * h[i - 1]
      <4> SUFFICES ASSUME NEW i \in 1..n + 1 PROVE h[i] = BASE * h[i - 1]
        OBVIOUS
      <4>1. CASE i <= n
        BY <4>1, <3>1
      <4>2. CASE i = n + 1
        BY <4>2, <3>1
      <4> QED
        BY <4>1, <4>2
    <3>5. Sat(h, n + 1)
      BY <3>3, <3>4
    <3> HIDE DEF h, Sat
    <3> QED
      BY <3>5
  <2> HIDE DEF S
  <2>3. Nat \subseteq S
    BY <2>1, <2>2, NatSet
  <2> QED
    BY <2>3 DEF S
<1>2. ASSUME NEW n \in Nat, NEW g, NEW h, Sat(g, n), Sat(h, n + 1)
      PROVE  g[n] = h[n]
  <2> DEFINE S == {i \in Nat : i <= n => g[i] = h[i]}
  <2>1. 0 \in S
    BY <1>2
  <2>2. ASSUME NEW i \in Nat, i \in S PROVE i + 1 \in S
    BY <1>2, <2>2
  <2> HIDE DEF S
  <2>3. Nat \subseteq S
    BY <2>1, <2>2, NatSet
  <2> QED
    BY <2>3 DEF S
<1> HIDE DEF Sat
<1>3. \A n \in Nat : Sat(CHOOSE g : Sat(g, n), n)
  BY <1>1
<1>4. F[0] = 1 /\ \A n \in Nat : F[n] \in Nat \ {0} /\ F[n + 1] = BASE * F[n]
  <2>1. F[0] = 1
    BY <1>3 DEF Sat
  <2>2. ASSUME NEW n \in Nat PROVE F[n] \in Nat \ {0} /\ F[n + 1] = BASE * F[n]
    <3> DEFINE g == CHOOSE g : Sat(g, n)
               h == CHOOSE h : Sat(h, n + 1)
    <3>1. Sat(g, n) /\ Sat(h, n + 1)
      BY <1>3
    <3>2. F[n] = g[n] /\ F[n + 1] = h[n + 1]
      OBVIOUS
    <3> HIDE DEF g, h, F
    <3>3. g[n] = h[n]
      BY <1>2, <3>1
    <3>4. g[n] \in Nat \ {0} /\ h[n + 1] = BASE * h[n]
      BY <3>1 DEF Sat
    <3> QED
      BY <3>2, <3>3, <3>4
  <2> QED
    BY <2>1, <2>2
<1>5. Eq(F)
  <2> DEFINE R == [n \in Nat |-> IF n = 0 THEN 1 ELSE BASE * F[n - 1]]
  <2> HIDE DEF F
  <2>1. ASSUME NEW n \in Nat PROVE F[n] = R[n]
    <3>1. CASE n = 0
      BY <3>1, <1>4
    <3>2. CASE n # 0
      <4>1. n - 1 \in Nat /\ F[(n - 1) + 1] = BASE * F[n - 1] /\ (n - 1) + 1 = n
        BY <3>2, <1>4
      <4> QED
        BY <3>2, <4>1
    <3> QED
      BY <3>1, <3>2
  <2>2. F = [n \in Nat |-> F[n]]
    BY DEF F
  <2> QED
    BY <2>1, <2>2
<1>6. Pow = CHOOSE f : Eq(f)
  BY DEF Pow
<1> HIDE DEF F
<1>7. Eq(Pow)
  <2> HIDE DEF Eq
  <2> QED
    BY <1>5, <1>6
<1> DEFINE S == {n \in Nat : Pow[n] \in Nat \ {0}}
<1>8. Pow[0] = 1 /\ \A n \in Nat : Pow[n + 1] = BASE * Pow[n]
  <2>1. \A n \in Nat : Pow[n] = IF n = 0 THEN 1 ELSE BASE * Pow[n - 1]
    BY <1>7, Zenon
  <2>2. \A n \in Nat : n + 1 \in Nat /\ n + 1 # 0 /\ (n + 1) - 1 = n
    OBVIOUS
  <2> QED
    BY <2>1, <2>2
<1>9. 0 \in S /\ \A n \in Nat : n \in S => n + 1 \in S
  BY <1>8, Radix
<1> HIDE DEF S
<1>10. Nat \subseteq S
  BY <1>9, NatSet
<1> QED
  BY <1>8, <1>10 DEF S

(* Pow is monotonic.                                                       *)
LEMMA PowMonotonic ==
  ASSUME NEW m \in Nat, NEW n \in Nat, m <= n
  PROVE  Pow[m] <= Pow[n]
<1> DEFINE S == {k \in Nat : Pow[m] <= Pow[m + k]}
<1>1. 0 \in S
  BY PowRecursion
<1>2. ASSUME NEW k \in Nat, k \in S PROVE k + 1 \in S
  <2>1. /\ Pow[m] \in Nat /\ Pow[m + k] \in Nat /\ m + (k + 1) = (m + k) + 1 /\ m + k \in Nat
        /\ Pow[(m + k) + 1] = BASE * Pow[m + k]
    BY PowRecursion
  <2>2. \A x \in Nat, b \in Nat \ {0} : x <= b * x
    OBVIOUS
  <2>3. Pow[m + k] <= BASE * Pow[m + k]
    BY <2>1, <2>2, Radix, Zenon
  <2>4. Pow[m] <= Pow[m + k] /\ Pow[m + (k + 1)] = BASE * Pow[m + k]
    BY <1>2, <2>1
  <2>5. Pow[m + (k + 1)] \in Nat
    BY PowRecursion
  <2>6. Pow[m] <= Pow[m + (k + 1)]
    BY <2>1, <2>3, <2>4, <2>5
  <2> QED
    BY <2>6
<1> HIDE DEF S
<1>3. n - m \in S
  BY <1>1, <1>2, NatSet
<1>4. m + (n - m) = n
  OBVIOUS
<1> QED
  BY <1>3, <1>4 DEF S

-----------------------------------------------------------------------------
(* Numbers and their digits *)

(* How many digits a string begins with                                    *)
LEMMA DigitsOfIs ==
  ASSUME NEW s \in Seq(Nat)
  PROVE  /\ DigitsOf(s) \in 0..Len(s)
         /\ \A j \in 1..DigitsOf(s) : s[j] < BASE
         /\ (\A j \in 1..Len(s) : s[j] < BASE) => DigitsOf(s) = Len(s)
<1> DEFINE P == {i \in 1..Len(s) : \A j \in 1..i : s[j] < BASE}
<1>1. Len(s) \in Nat /\ Len(s) \in Int
  BY LenProperties
<1> DEFINE Z == {0} \cup P
<1>2. Z \in SUBSET Int /\ Z # {} /\ \A x \in Z : x <= Len(s)
  BY <1>1
<1>3. DigitsOf(s) = Max(Z)
  BY DEF DigitsOf
<1> HIDE DEF P, Z
<1>4. DigitsOf(s) \in Z /\ \A y \in Z : y <= DigitsOf(s)
  BY <1>1, <1>2, <1>3, MaxBelow, Zenon
<1>5. DigitsOf(s) \in {0} \cup P /\ \A y \in {0} \cup P : y <= DigitsOf(s)
  BY <1>4 DEF Z
<1>6. DigitsOf(s) \in 0..Len(s) /\ \A j \in 1..DigitsOf(s) : s[j] < BASE
  BY <1>1, <1>5 DEF P
<1>7. ASSUME \A j \in 1..Len(s) : s[j] < BASE PROVE DigitsOf(s) = Len(s)
  <2>1. CASE Len(s) = 0
    BY <2>1, <1>6
  <2>2. CASE Len(s) # 0
    <3>1. Len(s) \in P
      BY <1>1, <1>7, <2>2 DEF P
    <3> QED
      BY <1>1, <1>5, <1>6, <3>1
  <2> QED
    BY <2>1, <2>2
<1> QED
  BY <1>6, <1>7

(* The recursion of strtol has a solution. *)
Horner(v, s, p) ==
  /\ v \in [0..p -> Nat] /\ v[0] = 0
  /\ \A i \in 1..p : v[i] = v[i - 1] * BASE + s[i]

(* strtol is that recursion, over the digits in front.                     *)
LEMMA StrtolIsHorner ==
  ASSUME NEW s \in Seq(Nat)
  PROVE  \E v : Horner(v, s, DigitsOf(s)) /\ Strtol(s) = v[DigitsOf(s)]
<1> DEFINE p == DigitsOf(s)
           Eq(f) == f = [i \in 0..p |-> IF i = 0 THEN 0 ELSE f[i - 1] * BASE + s[i]]
           S == {n \in Nat : n <= p => \E v : Horner(v, s, n)}
<1>1. p \in Nat /\ \A i \in 1..p : s[i] \in Nat
  BY DigitsOfIs, LenProperties, ElementOfSeq
<1>2. Strtol(s) = (CHOOSE f : Eq(f))[p]
  BY DEF Strtol
<1> HIDE DEF p
<1>3. 0 \in S
  <2>1. Horner([i \in 0..0 |-> 0], s, 0)
    BY DEF Horner
  <2> QED
    BY <2>1
<1>4. ASSUME NEW n \in Nat, n \in S PROVE n + 1 \in S
  <2> SUFFICES ASSUME n + 1 <= p PROVE \E v : Horner(v, s, n + 1)
    OBVIOUS
  <2>1. PICK v : Horner(v, s, n)
    BY <1>1, <1>4
  <2> DEFINE u == [i \in 0..n + 1 |-> IF i <= n THEN v[i] ELSE v[n] * BASE + s[n + 1]]
  <2>2. s[n + 1] \in Nat /\ v[n] \in Nat /\ v \in [0..n -> Nat]
    BY <1>1, <2>1 DEF Horner
  <2>3. v[n] * BASE + s[n + 1] \in Nat
    BY <2>2, Radix, DigitMore
  <2>4. u \in [0..n + 1 -> Nat] /\ u[0] = 0
    BY <2>1, <2>2, <2>3 DEF Horner
  <2>5. \A i \in 1..n + 1 : u[i] = u[i - 1] * BASE + s[i]
    <3> SUFFICES ASSUME NEW i \in 1..n + 1 PROVE u[i] = u[i - 1] * BASE + s[i]
      OBVIOUS
    <3>1. CASE i <= n
      BY <3>1, <2>1 DEF Horner
    <3>2. CASE i = n + 1
      BY <3>2
    <3> QED
      BY <3>1, <3>2
  <2>6. Horner(u, s, n + 1)
    BY <2>4, <2>5 DEF Horner
  <2> QED
    BY <2>6
<1> HIDE DEF S
<1>5. p \in S
  BY <1>1, <1>3, <1>4, NatSet
<1>6. PICK v : Horner(v, s, p)
  BY <1>1, <1>5 DEF S
<1>7. Eq(v)
  <2> DEFINE r == [i \in 0..p |-> IF i = 0 THEN 0 ELSE v[i - 1] * BASE + s[i]]
  <2>1. \A i \in 0..p : v[i] = r[i]
    BY <1>1, <1>6 DEF Horner
  <2>2. v = [i \in 0..p |-> v[i]]
    BY <1>6 DEF Horner
  <2> QED
    BY <2>1, <2>2
<1> DEFINE f == CHOOSE f : Eq(f)
<1>8. Eq(f)
  <2> HIDE DEF Eq
  <2> QED
    BY <1>7
<1> HIDE DEF f
<1>9. Horner(f, s, p)
  <2>1. \A i \in 0..p : f[i] = IF i = 0 THEN 0 ELSE f[i - 1] * BASE + s[i]
    BY <1>8, Zenon
  <2>2. f = [i \in 0..p |-> f[i]]
    BY <1>8, Zenon
  <2> DEFINE T == {n \in Nat : n <= p => f[n] \in Nat}
  <2>3. 0 \in T
    BY <2>1, <1>1
  <2>4. ASSUME NEW n \in Nat, n \in T PROVE n + 1 \in T
    <3> SUFFICES ASSUME n + 1 <= p PROVE f[n + 1] \in Nat
      OBVIOUS
    <3>1. f[n + 1] = f[n] * BASE + s[n + 1] /\ f[n] \in Nat /\ s[n + 1] \in Nat
      BY <1>1, <2>1, <2>4
    <3>2. f[n] * BASE + s[n + 1] \in Nat
      BY <3>1, Radix, DigitMore
    <3> QED
      BY <3>1, <3>2
  <2> HIDE DEF T
  <2>5. Nat \subseteq T
    BY <2>3, <2>4, NatSet
  <2>6. \A i \in 0..p : f[i] \in Nat
    BY <1>1, <2>5 DEF T
  <2>7. f \in [0..p -> Nat]
    BY <2>2, <2>6
  <2>8. f[0] = 0 /\ \A i \in 1..p : f[i] = f[i - 1] * BASE + s[i]
    BY <1>1, <2>1
  <2> QED
    BY <2>7, <2>8 DEF Horner
<1> QED
  BY <1>2, <1>9 DEF f, p

(* A value has no more digits than are read. *)
LEMMA StrtolBound ==
  ASSUME NEW s \in Seq(Nat)
  PROVE  Strtol(s) \in 0..Pow[Len(s)] - 1
<1> DEFINE p == DigitsOf(s)
           S == {n \in Nat : \A v : Horner(v, s, p) /\ n <= p => v[n] < Pow[n]}
<1>1. p \in 0..Len(s) /\ Len(s) \in Nat /\ \A j \in 1..p : s[j] < BASE /\ s[j] \in Nat
  BY DigitsOfIs, LenProperties, ElementOfSeq
<1>2. PICK v : Horner(v, s, p) /\ Strtol(s) = v[p]
  BY StrtolIsHorner
<1> HIDE DEF p
<1>3. 0 \in S
  <2>1. Pow[0] = 1 /\ 0 < 1
    BY PowRecursion
  <2>2. ASSUME NEW u, Horner(u, s, p) PROVE u[0] < Pow[0]
    BY <2>1, <2>2 DEF Horner
  <2> QED
    BY <2>2
<1>4. ASSUME NEW n \in Nat, n \in S PROVE n + 1 \in S
  <2> SUFFICES ASSUME NEW u, Horner(u, s, p), n + 1 <= p PROVE u[n + 1] < Pow[n + 1]
    OBVIOUS
  <2>1. u[n] < Pow[n] /\ n \in Nat /\ n <= p
    BY <1>1, <1>4
  <2>2. /\ u[n + 1] = u[n] * BASE + s[n + 1] /\ u[n] \in Nat
        /\ s[n + 1] < BASE /\ s[n + 1] \in Nat
    BY <1>1, SMTT(30) DEF Horner
  <2>3. Pow[n + 1] = BASE * Pow[n] /\ Pow[n] \in Nat
    BY PowRecursion
  <2>4. u[n] * BASE + s[n + 1] < BASE * Pow[n]
    BY <2>1, <2>2, <2>3, Radix, DigitMore
  <2> QED
    BY <2>2, <2>3, <2>4, Zenon
<1> HIDE DEF S
<1>5. p \in S
  <2>1. Nat \subseteq S
    BY <1>3, <1>4, NatSet
  <2> QED
    BY <1>1, <2>1
<1>6. v[p] < Pow[p] /\ v[p] \in Nat
  <2>1. p <= p /\ p \in 0..p
    BY <1>1
  <2>2. v[p] < Pow[p]
    BY <1>2, <1>5, <2>1 DEF S
  <2>3. v[p] \in Nat
    BY <1>2, <2>1 DEF Horner
  <2> QED
    BY <2>2, <2>3, Zenon
<1>7. Pow[p] <= Pow[Len(s)] /\ Pow[p] \in Nat /\ Pow[Len(s)] \in Nat
  <2>1. p \in Nat /\ Len(s) \in Nat /\ p <= Len(s)
    BY <1>1
  <2> QED
    BY <2>1, PowMonotonic, PowRecursion, Zenon
<1> QED
  BY <1>2, <1>6, <1>7

(* How many digits sprintf writes, and that they are digits                *)
LEMMA DigitsType ==
  ASSUME NEW n \in Nat, NEW w \in Nat
  PROVE  /\ Digits(n, w) \in Seq(Nat)
         /\ Len(Digits(n, w)) = IF n < Pow[w] THEN w ELSE w + 1
         /\ \A i \in 1..Len(Digits(n, w)) : Digits(n, w)[i] < BASE
<1> DEFINE m == IF n < Pow[w] THEN w ELSE w + 1
           g == [i \in 1..m |-> (n \div Pow[m - i]) % BASE]
<1>1. m \in Nat /\ Digits(n, w) = g
  BY DEF Digits
<1> HIDE DEF m
<1>2. \A i \in 1..m : (n \div Pow[m - i]) % BASE \in 0..BASE - 1
  <2> SUFFICES ASSUME NEW i \in 1..m PROVE (n \div Pow[m - i]) % BASE \in 0..BASE - 1
    OBVIOUS
  <2>1. Pow[m - i] \in Nat \ {0}
    BY <1>1, PowRecursion
  <2>2. n \div Pow[m - i] \in Nat
    BY <2>1, Division
  <2> QED
    BY <2>2, Division, Radix
<1>3. g \in [1..m -> Nat] /\ \A i \in 1..m : g[i] < BASE
  BY <1>2, Radix
<1> HIDE DEF g
<1>4. g \in Seq(Nat) /\ Len(g) = m
  BY <1>1, <1>3
<1> QED
  BY <1>1, <1>3, <1>4 DEF m

(* A number that fits its field is read back. *)
LEMMA StrtolOfDigits ==
  ASSUME NEW w \in Nat, NEW n \in Nat, n < Pow[w]
  PROVE  Len(Digits(n, w)) = w /\ Strtol(Digits(n, w)) = n
<1> DEFINE s == Digits(n, w)
<1>1. s \in Seq(Nat) /\ Len(s) = w /\ \A i \in 1..Len(s) : s[i] < BASE
  BY DigitsType
<1>2. \A i \in 1..w : s[i] = (n \div Pow[w - i]) % BASE
  BY DEF Digits
<1> HIDE DEF s
<1>3. DigitsOf(s) = w
  BY <1>1, DigitsOfIs
<1>4. PICK v : Horner(v, s, w) /\ Strtol(s) = v[w]
  BY <1>1, <1>3, StrtolIsHorner
<1> DEFINE S == {k \in Nat : k <= w => v[k] = n \div Pow[w - k]}
<1>5. 0 \in S
  <2>1. Pow[w] \in Nat \ {0} /\ v[0] = 0
    BY <1>4, PowRecursion DEF Horner
  <2> QED
    BY <2>1, Division
<1>6. ASSUME NEW k \in Nat, k \in S PROVE k + 1 \in S
  <2> SUFFICES ASSUME k + 1 <= w PROVE v[k + 1] = n \div Pow[w - (k + 1)]
    OBVIOUS
  <2> DEFINE P == Pow[w - (k + 1)]
             Q == n \div P
  <2>1. w - (k + 1) \in Nat /\ (w - (k + 1)) + 1 = w - k /\ k + 1 \in 1..w /\ (k + 1) - 1 = k
    OBVIOUS
  <2>2. P \in Nat \ {0} /\ Pow[w - k] = BASE * P
    BY <2>1, PowRecursion
  <2>3. v[k] = n \div Pow[w - k]
    BY <1>6, <2>1
  <2>4. v[k + 1] = v[k] * BASE + s[k + 1] /\ s[k + 1] = Q % BASE
    BY <1>2, <1>4, <2>1 DEF Horner
  <2> HIDE DEF P
  <2>5. Q \in Nat /\ Q \div BASE = n \div (BASE * P)
    <3>1. BASE \in Nat \ {0}
      BY Radix
    <3> QED
      BY <2>2, <3>1, Division, DivisionTwice, Zenon
  <2>6. v[k] = Q \div BASE
    BY <2>2, <2>3, <2>5
  <2> HIDE DEF Q
  <2>7. Q = BASE * (Q \div BASE) + (Q % BASE) /\ Q \div BASE \in Nat /\ Q % BASE \in Nat
    <3>1. BASE \in Nat \ {0} /\ 0..BASE - 1 \subseteq Nat
      BY Radix
    <3> QED
      BY <2>5, <3>1, Division, Zenon
  <2>8. v[k + 1] = Q
    BY <2>4, <2>6, <2>7, Radix
  <2> QED
    BY <2>8 DEF P, Q
<1> HIDE DEF S
<1>7. w \in S
  BY <1>5, <1>6, NatSet
<1>8. v[w] = n \div Pow[0]
  BY <1>7 DEF S
<1>9. n \div 1 = n
  OBVIOUS
<1> QED
  BY <1>1, <1>4, <1>8, <1>9, PowRecursion DEF s

-----------------------------------------------------------------------------
(* Parts of a byte string *)

(* x stands in s behind the first o bytes. *)
Part(s, o, x) == o + Len(x) <= Len(s) /\ \A i \in 1..Len(x) : s[o + i] = x[i]

(* The parts of a concatenation stand where they should.                   *)
LEMMA PartOfConcat ==
  ASSUME NEW s \in Seq(Nat), NEW t \in Seq(Nat)
  PROVE  /\ s \o t \in Seq(Nat) /\ Len(s \o t) = Len(s) + Len(t) /\ Part(s \o t, Len(s), t)
         /\ \A o \in Nat, x \in Seq(Nat) : Part(s, o, x) => Part(s \o t, o, x)
<1>1. /\ Len(s) \in Nat /\ Len(t) \in Nat /\ s \o t \in Seq(Nat)
      /\ Len(s \o t) = Len(s) + Len(t)
      /\ \A i \in 1..Len(s) + Len(t) : (s \o t)[i] = IF i <= Len(s) THEN s[i] ELSE t[i - Len(s)]
  BY ConcatProperties, LenProperties
<1>2. Part(s \o t, Len(s), t)
  <2> SUFFICES ASSUME NEW i \in 1..Len(t) PROVE (s \o t)[Len(s) + i] = t[i]
    BY <1>1 DEF Part
  <2> DEFINE j == Len(s) + i
  <2>1. j \in 1..Len(s) + Len(t) /\ ~ (j <= Len(s)) /\ j - Len(s) = i
    BY <1>1
  <2> HIDE DEF j
  <2>2. (s \o t)[j] = t[i]
    BY <1>1, <2>1
  <2> QED
    BY <2>2 DEF j
<1>3. ASSUME NEW o \in Nat, NEW x \in Seq(Nat), Part(s, o, x) PROVE Part(s \o t, o, x)
  <2>1. Len(x) \in Nat /\ o + Len(x) <= Len(s)
    BY <1>3, LenProperties DEF Part
  <2>2. ASSUME NEW i \in 1..Len(x) PROVE (s \o t)[o + i] = x[i]
    <3>1. o + i \in 1..Len(s) + Len(t) /\ o + i <= Len(s)
      BY <1>1, <2>1
    <3>2. (s \o t)[o + i] = s[o + i]
      BY <1>1, <3>1
    <3> QED
      BY <1>3, <3>2 DEF Part
  <2> QED
    BY <1>1, <2>1, <2>2 DEF Part
<1> QED
  BY <1>1, <1>2, <1>3

(* SubSeq finds what stands there.                                         *)
LEMMA PartIsSubSeq ==
  ASSUME NEW s \in Seq(Nat), NEW o \in Nat, NEW x \in Seq(Nat), Part(s, o, x)
  PROVE  SubSeq(s, o + 1, o + Len(x)) = x
<1>1. Len(x) \in Nat /\ Len(s) \in Nat /\ o + Len(x) <= Len(s)
  BY LenProperties DEF Part
<1>2. o + 1 \in Int /\ o + Len(x) \in Int /\ \A i \in o + 1..o + Len(x) : s[i] \in Nat
  <2>1. \A i \in o + 1..o + Len(x) : i \in 1..Len(s)
    BY <1>1
  <2> QED
    BY <1>1, <2>1, ElementOfSeq
<1> DEFINE a == o + 1
           b == o + Len(x)
           u == SubSeq(s, a, b)
<1>3. b - a + 1 = Len(x) /\ (a <= b \/ Len(x) = 0) /\ (a <= b => Len(x) # 0)
  BY <1>1
<1>4. \A i \in 1..Len(x) : a + i - 1 = o + i
  BY <1>1
<1>5. a \in Int /\ b \in Int /\ \A i \in a..b : s[i] \in Nat
  BY <1>2
<1> HIDE DEF a, b
<1>6. /\ u \in Seq(Nat) /\ Len(u) = IF a <= b THEN b - a + 1 ELSE 0
      /\ \A i \in 1..b - a + 1 : u[i] = s[a + i - 1]
  BY <1>5, SubSeqProperties
<1> HIDE DEF u
<1>7. Len(u) = Len(x)
  BY <1>3, <1>6
<1>8. ASSUME NEW i \in 1..Len(x) PROVE u[i] = x[i]
  <2>1. u[i] = s[o + i]
    BY <1>3, <1>4, <1>6
  <2> QED
    BY <2>1 DEF Part
<1>9. u = x
  BY <1>6, <1>7, <1>8, SeqEqual
<1> QED
  BY <1>9 DEF u, a, b

(* What stands in a byte string stands in a prefix that is long enough. *)
LEMMA PartOfPrefix ==
  ASSUME NEW s \in Seq(Nat), NEW b \in Seq(Nat), Part(s, 0, b),
         NEW o \in Nat, NEW x \in Seq(Nat), Part(s, o, x), o + Len(x) <= Len(b)
  PROVE  Part(b, o, x)
<1>1. Len(x) \in Nat /\ Len(b) \in Nat
  BY LenProperties
<1>2. ASSUME NEW i \in 1..Len(x) PROVE b[o + i] = x[i]
  <2>1. o + i \in 1..Len(b) /\ 0 + (o + i) = o + i
    BY <1>1
  <2>2. s[o + i] = b[o + i]
    BY <2>1 DEF Part
  <2> QED
    BY <2>2 DEF Part
<1> QED
  BY <1>2 DEF Part

(* What stands behind the whole of a byte string stands in what follows it. *)
LEMMA PartOfRest ==
  ASSUME NEW s \in Seq(Nat), NEW t \in Seq(Nat), NEW o \in Nat, NEW x \in Seq(Nat),
         Part(s \o t, Len(s) + o, x)
  PROVE  Part(t, o, x)
<1> DEFINE a == Len(s)
           b == Len(t)
           c == Len(x)
<1>1. /\ a \in Nat /\ b \in Nat /\ c \in Nat /\ Len(s \o t) = a + b
      /\ \A i \in 1..a + b : (s \o t)[i] = IF i <= a THEN s[i] ELSE t[i - a]
  BY ConcatProperties, LenProperties
<1>2. (a + o) + c <= Len(s \o t) /\ \A i \in 1..c : (s \o t)[(a + o) + i] = x[i]
  BY DEF Part
<1> HIDE DEF a, b, c
<1>3. o + c <= b
  BY <1>1, <1>2
<1>4. ASSUME NEW i \in 1..c PROVE t[o + i] = x[i]
  <2>1. (a + o) + i \in 1..a + b /\ ~ ((a + o) + i <= a) /\ ((a + o) + i) - a = o + i
    BY <1>1, <1>3
  <2> QED
    BY <1>1, <1>2, <2>1
<1> QED
  BY <1>3, <1>4 DEF Part, b, c

-----------------------------------------------------------------------------
(* Frames *)

(* The sum that leaves out the type byte *)
LEMMA Layout ==
  /\ OVERHEAD \in Nat /\ SOCKET_MAX_SIZE \in Nat /\ DATA_MAX_SIZE \in Nat
  /\ OVERHEAD + DATA_MAX_SIZE = SOCKET_MAX_SIZE + 1
  /\ HEAD \in Seq(Nat) /\ Len(HEAD) \in Nat \ {0} /\ TAIL \in Seq(Nat) /\ Len(TAIL) \in Nat \ {0}
  /\ FIELDS \in Nat /\ FIELDS = Len(HEAD) + SEQ_WIDTH + 1
  /\ BODY \in Nat /\ BODY = FIELDS + LEN_WIDTH /\ OVERHEAD = BODY + Len(TAIL)
<1> DEFINE h == Len(HEAD)
           t == Len(TAIL)
<1>1. h \in Nat /\ t \in Nat /\ (h = 0 <=> HEAD = << >>) /\ (t = 0 <=> TAIL = << >>)
  BY FramingAssumption, LenProperties, EmptySeq
<1>2. h \in Nat \ {0} /\ t \in Nat \ {0}
  BY <1>1, FramingAssumption
<1> HIDE DEF h, t
<1>3. /\ FIELDS = h + SEQ_WIDTH + 1 /\ BODY = FIELDS + LEN_WIDTH /\ OVERHEAD = BODY + t
      /\ DATA_MAX_SIZE = SOCKET_MAX_SIZE - h - t - SEQ_WIDTH - LEN_WIDTH
  BY DEF OVERHEAD, BODY, FIELDS, DATA_MAX_SIZE, h, t
<1>4. SOCKET_MAX_SIZE \in Nat /\ DATA_MAX_SIZE \in Nat /\ HEAD \in Seq(Nat) /\ TAIL \in Seq(Nat)
  BY FramingAssumption
<1>5. /\ FIELDS \in Nat /\ BODY \in Nat /\ OVERHEAD \in Nat
      /\ OVERHEAD + DATA_MAX_SIZE = SOCKET_MAX_SIZE + 1
  BY <1>2, <1>3, <1>4, Radix
<1> QED
  BY <1>2, <1>3, <1>4, <1>5 DEF h, t

(* The sums of the layout as numbers                                       *)
LEMMA Sizes ==
  /\ OVERHEAD \in Nat \ {0} /\ SOCKET_MAX_SIZE \in Nat /\ DATA_MAX_SIZE \in Nat
  /\ OVERHEAD + DATA_MAX_SIZE = SOCKET_MAX_SIZE + 1
  /\ FIELDS \in Nat \ {0} /\ BODY \in Nat /\ FIELDS < BODY /\ BODY < OVERHEAD
  /\ BODY = FIELDS + LEN_WIDTH
<1> DEFINE h == Len(HEAD)
           t == Len(TAIL)
<1>1. /\ h \in Nat \ {0} /\ t \in Nat \ {0} /\ FIELDS = h + SEQ_WIDTH + 1
      /\ OVERHEAD = BODY + t
  BY Layout
<1> HIDE DEF h, t
<1>2. /\ SOCKET_MAX_SIZE \in Nat /\ DATA_MAX_SIZE \in Nat /\ BODY = FIELDS + LEN_WIDTH
      /\ OVERHEAD + DATA_MAX_SIZE = SOCKET_MAX_SIZE + 1
  BY Layout
<1> QED
  BY <1>1, <1>2, Radix

(* The fields of a packet                                                  *)
LEMMA PacketType ==
  ASSUME NEW p \in Packets
  PROVE  /\ p.seq \in Nat /\ p.type \in Nat /\ p.data \in Seq(Nat) /\ Len(p.data) \in Nat
         /\ p = [seq |-> p.seq, type |-> p.type, data |-> p.data]
<1>1. p \in [seq : 0..Pow[SEQ_WIDTH + 1] - 1, type : Nat, data : Seq(Nat)]
  BY FramingAssumption
<1>2. Pow[SEQ_WIDTH + 1] \in Nat
  BY Radix, PowRecursion
<1> QED
  BY <1>1, <1>2, LenProperties

Fields(p) == HEAD \o Digits(p.seq, SEQ_WIDTH) \o <<p.type>>
                  \o Digits(Len(p.data), LEN_WIDTH) \o p.data \o TAIL
Size(p) == OVERHEAD + Len(p.data)

(* The fields one behind the other; each number may be one digit too long. *)
LEMMA FieldsJoined ==
  ASSUME NEW p \in Packets
  PROVE  /\ Fields(p) \in Seq(Nat) /\ Size(p) \in Nat /\ Size(p) <= Len(Fields(p))
         /\ Legal(p) => /\ Len(Fields(p)) = Size(p)
                        /\ Part(Fields(p), 0, HEAD)
                        /\ Part(Fields(p), Len(HEAD), Digits(p.seq, SEQ_WIDTH))
                        /\ Part(Fields(p), FIELDS - 1, <<p.type>>)
                        /\ Part(Fields(p), FIELDS, Digits(Len(p.data), LEN_WIDTH))
                        /\ Part(Fields(p), BODY, p.data)
                        /\ Part(Fields(p), BODY + Len(p.data), TAIL)
<1> DEFINE dS == Digits(p.seq, SEQ_WIDTH)
           dL == Digits(Len(p.data), LEN_WIDTH)
           s1 == HEAD \o dS
           s2 == s1 \o <<p.type>>
           s3 == s2 \o dL
           s4 == s3 \o p.data
           s5 == s4 \o TAIL
<1>1. /\ dS \in Seq(Nat) /\ Len(dS) = IF p.seq < Pow[SEQ_WIDTH] THEN SEQ_WIDTH ELSE SEQ_WIDTH + 1
      /\ dL \in Seq(Nat)
      /\ Len(dL) = IF Len(p.data) < Pow[LEN_WIDTH] THEN LEN_WIDTH ELSE LEN_WIDTH + 1
  BY PacketType, Radix, DigitsType
<1>2. <<p.type>> \in Seq(Nat) /\ Len(<<p.type>>) = 1
  BY PacketType
<1>3. p.data \in Seq(Nat) /\ TAIL \in Seq(Nat) /\ HEAD \in Seq(Nat) /\ Len(p.data) \in Nat
  BY PacketType, Layout
<1>4. Fields(p) = s5
  BY DEF Fields
<1> HIDE DEF dS, dL
<1>5. /\ s1 \in Seq(Nat) /\ Len(s1) = Len(HEAD) + Len(dS)
      /\ Part(s1, 0, HEAD) /\ Part(s1, Len(HEAD), dS)
  <2>1. Part(s1, 0, HEAD)
    BY <1>1, <1>3, Layout, ConcatProperties, LenProperties DEF Part
  <2> QED
    BY <1>1, <1>3, <2>1, PartOfConcat
<1> HIDE DEF s1
<1>6. /\ s2 \in Seq(Nat) /\ Len(s2) = Len(s1) + 1 /\ Part(s2, Len(s1), <<p.type>>)
      /\ \A o \in Nat, x \in Seq(Nat) : Part(s1, o, x) => Part(s2, o, x)
  BY <1>2, <1>5, PartOfConcat
<1> HIDE DEF s2
<1>7. /\ s3 \in Seq(Nat) /\ Len(s3) = Len(s2) + Len(dL) /\ Part(s3, Len(s2), dL)
      /\ \A o \in Nat, x \in Seq(Nat) : Part(s2, o, x) => Part(s3, o, x)
  BY <1>1, <1>6, PartOfConcat
<1> HIDE DEF s3
<1>8. /\ s4 \in Seq(Nat) /\ Len(s4) = Len(s3) + Len(p.data) /\ Part(s4, Len(s3), p.data)
      /\ \A o \in Nat, x \in Seq(Nat) : Part(s3, o, x) => Part(s4, o, x)
  BY <1>3, <1>7, PartOfConcat
<1> HIDE DEF s4
<1>9. /\ s5 \in Seq(Nat) /\ Len(s5) = Len(s4) + Len(TAIL) /\ Part(s5, Len(s4), TAIL)
      /\ \A o \in Nat, x \in Seq(Nat) : Part(s4, o, x) => Part(s5, o, x)
  BY <1>3, <1>8, PartOfConcat
<1> HIDE DEF s5
<1>10. /\ Len(s1) \in Nat /\ Len(s2) \in Nat /\ Len(s3) \in Nat /\ Len(s4) \in Nat
       /\ Len(HEAD) \in Nat /\ 0 \in Nat
  BY <1>5, <1>6, <1>7, <1>8, Layout, LenProperties
<1>11. /\ Part(s5, 0, HEAD) /\ Part(s5, Len(HEAD), dS) /\ Part(s5, Len(s1), <<p.type>>)
       /\ Part(s5, Len(s2), dL) /\ Part(s5, Len(s3), p.data) /\ Part(s5, Len(s4), TAIL)
  BY <1>1, <1>2, <1>3, <1>5, <1>6, <1>7, <1>8, <1>9, <1>10, Zenon
<1> DEFINE h == Len(HEAD)
           d == Len(p.data)
           t == Len(TAIL)
           a == Len(dS)
           b == Len(dL)
<1>12. /\ h \in Nat /\ d \in Nat /\ t \in Nat
       /\ SEQ_WIDTH \in Nat /\ LEN_WIDTH \in Nat
       /\ a \in {SEQ_WIDTH, SEQ_WIDTH + 1} /\ b \in {LEN_WIDTH, LEN_WIDTH + 1}
       /\ Legal(p) => a = SEQ_WIDTH /\ b = LEN_WIDTH
  BY <1>1, <1>3, Layout, Radix DEF Legal
<1>13. /\ FIELDS = h + SEQ_WIDTH + 1 /\ BODY = FIELDS + LEN_WIDTH
       /\ Size(p) = BODY + t + d
       /\ Len(s1) = h + a /\ Len(s2) = Len(s1) + 1 /\ Len(s3) = Len(s2) + b
       /\ Len(s4) = Len(s3) + d /\ Len(s5) = Len(s4) + t
  BY <1>5, <1>6, <1>7, <1>8, <1>9, Layout DEF Size
<1> HIDE DEF h, d, t, a, b
<1>14. Size(p) \in Nat /\ Size(p) <= Len(s5)
  BY <1>12, <1>13
<1>15. Legal(p) => /\ Len(s5) = Size(p) /\ Len(s1) = FIELDS - 1 /\ Len(s2) = FIELDS
                   /\ Len(s3) = BODY /\ Len(s4) = BODY + d
  BY <1>12, <1>13
<1> QED
  BY <1>4, <1>9, <1>11, <1>14, <1>15, Zenon DEF dS, dL, d

(* A piece of a string is a string.                                        *)
LEMMA SubSeqType ==
  ASSUME NEW s \in Seq(Nat), NEW m \in Nat \ {0}, NEW n \in Int, n <= Len(s)
  PROVE  /\ SubSeq(s, m, n) \in Seq(Nat)
         /\ Len(SubSeq(s, m, n)) = IF m <= n THEN n - m + 1 ELSE 0
         /\ \A i \in 1..n - m + 1 : SubSeq(s, m, n)[i] = s[m + i - 1]
<1>1. Len(s) \in Nat
  BY LenProperties
<1>2. \A i \in m..n : i \in 1..Len(s)
  BY <1>1
<1>3. \A i \in m..n : s[i] \in Nat
  BY <1>2, ElementOfSeq
<1>4. m \in Int
  OBVIOUS
<1> QED
  BY <1>3, <1>4, SubSeqProperties

(* A frame is at most a byte too long; of a legal packet it is the fields. *)
LEMMA PackRequestType ==
  ASSUME NEW p \in Packets, NEW f \in PackRequest(p)
  PROVE  /\ f \in Seq(Nat) /\ Len(f) \in Nat \ {0} /\ Len(f) <= SOCKET_MAX_SIZE + 1
         /\ Legal(p) => f = Fields(p) /\ Len(f) = Size(p) /\ Len(f) <= SOCKET_MAX_SIZE
<1> DEFINE d == Len(p.data)
<1>1. d \in Nat /\ Size(p) = OVERHEAD + d /\ OVERHEAD > 0
  BY PacketType, Sizes DEF Size
<1>2. Refused(p) <=> d \notin 1..DATA_MAX_SIZE
  BY DEF Refused
<1>3. CASE Refused(p)
  <2>1. PICK g \in Leftovers : f = [i \in 1..OVERHEAD |-> IF i = 1 THEN NUL ELSE g]
    BY <1>3 DEF PackRequest
  <2>2. g \in Nat /\ NUL \in Nat
    BY FramingAssumption
  <2>3. OVERHEAD \in Nat /\ \A i \in 1..OVERHEAD : (IF i = 1 THEN NUL ELSE g) \in Nat
    BY <2>2, Sizes
  <2>4. f \in Seq(Nat) /\ Len(f) = OVERHEAD
    BY <2>1, <2>3
  <2>5. OVERHEAD \in Nat \ {0} /\ OVERHEAD <= SOCKET_MAX_SIZE + 1
    BY Sizes
  <2>6. ~Legal(p)
    BY <1>3 DEF Legal
  <2> QED
    BY <2>4, <2>5, <2>6, Zenon
<1>4. CASE ~Refused(p)
  <2>1. f = SubSeq(Fields(p), 1, Size(p))
    BY <1>4 DEF PackRequest, First, Fields, Size
  <2>2. Fields(p) \in Seq(Nat) /\ Size(p) \in Nat /\ Size(p) <= Len(Fields(p))
    BY FieldsJoined
  <2> HIDE DEF d
  <2>3. Size(p) \in Int /\ 1 <= Size(p) /\ Size(p) - 1 + 1 = Size(p)
    BY <1>1, <2>2, Sizes
  <2>4. f \in Seq(Nat) /\ Len(f) = Size(p)
    BY <2>1, <2>2, <2>3, SubSeqType
  <2>5. Size(p) <= SOCKET_MAX_SIZE + 1 /\ Size(p) \in Nat \ {0}
    BY <1>1, <1>2, <1>4, Sizes
  <2>6. ASSUME Legal(p) PROVE f = Fields(p) /\ Size(p) <= SOCKET_MAX_SIZE
    <3>1. Len(Fields(p)) = Size(p)
      BY <2>6, FieldsJoined
    <3>2. f = Fields(p)
      BY <2>1, <2>2, <3>1, SubSeqFull
    <3>3. d < Pow[LEN_WIDTH] /\ Pow[LEN_WIDTH] <= DATA_MAX_SIZE /\ Pow[LEN_WIDTH] \in Nat
      BY <2>6, FramingAssumption, PowRecursion, Radix DEF Legal, d
    <3>4. Size(p) <= SOCKET_MAX_SIZE
      BY <1>1, <3>3, Sizes
    <3> QED
      BY <3>2, <3>4
  <2> QED
    BY <2>4, <2>5, <2>6, Zenon
<1> QED
  BY <1>3, <1>4

(* What the receiver reads in a frame, or in as much of it as has come     *)
LEMMA FrameRead ==
  ASSUME NEW p \in Packets, Legal(p), NEW b \in Seq(Nat), Part(Fields(p), 0, b)
  PROVE  /\ Len(b) \in Nat /\ Len(b) <= Size(p) /\ BODY < Size(p)
         /\ Len(b) >= Len(HEAD) => SubSeq(b, 1, Len(HEAD)) = HEAD
         /\ Len(b) >= BODY => Strtol(SubSeq(b, FIELDS + 1, BODY)) = Len(p.data)
         /\ Len(b) = Size(p) => /\ Parse(b, Len(p.data)) = p
                                /\ SubSeq(b, BODY + Len(p.data) + 1, Size(p)) = TAIL
<1> DEFINE dS == Digits(p.seq, SEQ_WIDTH)
           dL == Digits(Len(p.data), LEN_WIDTH)
           f == Fields(p)
<1>1. /\ f \in Seq(Nat) /\ Len(f) = Size(p)
      /\ Part(f, 0, HEAD) /\ Part(f, Len(HEAD), dS) /\ Part(f, FIELDS - 1, <<p.type>>)
      /\ Part(f, FIELDS, dL) /\ Part(f, BODY, p.data) /\ Part(f, BODY + Len(p.data), TAIL)
  BY FieldsJoined
<1>2. /\ dS \in Seq(Nat) /\ Len(dS) = SEQ_WIDTH /\ Strtol(dS) = p.seq
      /\ dL \in Seq(Nat) /\ Len(dL) = LEN_WIDTH /\ Strtol(dL) = Len(p.data)
  BY PacketType, Radix, DigitsType, StrtolOfDigits DEF Legal
<1>3. /\ <<p.type>> \in Seq(Nat) /\ Len(<<p.type>>) = 1 /\ <<p.type>>[1] = p.type
      /\ p.data \in Seq(Nat)
  BY PacketType
<1> DEFINE d == Len(p.data)
           n == Len(b)
<1>4. /\ d \in Nat /\ n \in Nat /\ Size(p) = OVERHEAD + d /\ Size(p) \in Nat
      /\ 0 + n <= Size(p)
  BY <1>1, PacketType, LenProperties, FieldsJoined DEF Part, Size
<1> HIDE DEF dS, dL, f, d, n
<1>5. n <= Size(p) /\ BODY < Size(p)
  BY <1>4, Sizes
<1>6. Part(f, 0, b)
  BY DEF f
<1>7. ASSUME NEW o \in Nat, NEW x \in Seq(Nat), Part(f, o, x), o + Len(x) <= Len(b)
      PROVE  Part(b, o, x) /\ SubSeq(b, o + 1, o + Len(x)) = x
  BY <1>1, <1>6, <1>7, PartOfPrefix, PartIsSubSeq
<1> DEFINE h == Len(HEAD)
           t == Len(TAIL)
<1>8. /\ h \in Nat \ {0} /\ t \in Nat \ {0} /\ FIELDS = h + SEQ_WIDTH + 1
      /\ OVERHEAD = BODY + t /\ HEAD \in Seq(Nat) /\ TAIL \in Seq(Nat)
  BY Layout
<1> HIDE DEF h, t
<1>9. ASSUME n >= h PROVE SubSeq(b, 1, h) = HEAD
  <2>1. 0 \in Nat /\ 0 + h <= n /\ 0 + 1 = 1 /\ 0 + h = h
    BY <1>4, <1>8, <1>9
  <2>2. SubSeq(b, 0 + 1, 0 + h) = HEAD
    BY <1>1, <1>7, <1>8, <2>1, Zenon DEF h, n
  <2> QED
    BY <2>1, <2>2
<1>10. ASSUME n >= BODY PROVE Strtol(SubSeq(b, FIELDS + 1, BODY)) = d
  <2>1. FIELDS \in Nat /\ FIELDS + LEN_WIDTH = BODY /\ BODY <= n
    BY <1>4, <1>10, Sizes
  <2>2. SubSeq(b, FIELDS + 1, BODY) = dL
    BY <1>1, <1>2, <1>7, <2>1, Zenon DEF n
  <2> QED
    BY <1>2, <2>2 DEF d
<1>11. ASSUME n = Size(p)
       PROVE  Parse(b, d) = p /\ SubSeq(b, BODY + d + 1, Size(p)) = TAIL
  <2>1. /\ BODY + d \in Nat /\ BODY + d + t = Size(p) /\ Size(p) <= n
        /\ FIELDS - 1 \in Nat /\ (FIELDS - 1) + 1 = FIELDS /\ FIELDS <= n
        /\ h + SEQ_WIDTH = FIELDS - 1 /\ FIELDS - 1 <= n /\ BODY + d <= n
        /\ h \in Nat /\ BODY \in Nat
    BY <1>4, <1>8, <1>11, Sizes, Radix
  <2>2. SubSeq(b, BODY + d + 1, Size(p)) = TAIL
    BY <1>1, <1>7, <1>8, <2>1, ZenonT(30) DEF d, n, t
  <2>3. SubSeq(b, BODY + 1, BODY + d) = p.data
    BY <1>1, <1>3, <1>7, <2>1, ZenonT(30) DEF d, n
  <2>4. SubSeq(b, h + 1, FIELDS - 1) = dS
    BY <1>1, <1>2, <1>7, <2>1, ZenonT(30) DEF n, h
  <2>5. b[FIELDS] = p.type
    <3>1. Part(b, FIELDS - 1, <<p.type>>)
      BY <1>1, <1>3, <1>7, <2>1, ZenonT(30) DEF n
    <3>2. 1 \in 1..Len(<<p.type>>)
      BY <1>3
    <3>3. b[(FIELDS - 1) + 1] = <<p.type>>[1]
      BY <3>1, <3>2 DEF Part
    <3> QED
      BY <1>3, <2>1, <3>3
  <2>6. Parse(b, d) = [seq |-> p.seq, type |-> p.type, data |-> p.data]
    BY <1>2, <2>3, <2>4, <2>5 DEF Parse, h
  <2> QED
    BY <2>2, <2>6, PacketType
<1> QED
  BY <1>4, <1>5, <1>9, <1>10, <1>11 DEF n, d, h

-----------------------------------------------------------------------------
(* The search for the head *)

(* The search for the head, wherever it ends, leaves a string.             *)
LEMMA SearchType ==
  ASSUME buf \in Seq(Nat)
  PROVE  /\ Behind \in Nat
         /\ Heads # {} => /\ Min(Heads) \in 1..Len(buf) /\ FromHead \in Seq(Nat)
                          /\ Len(FromHead) = Len(buf) - Min(Heads) + 1
<1>1. Len(buf) \in Nat /\ Len(HEAD) \in Nat /\ Heads \subseteq 1..Len(buf)
      /\ WrongXs \subseteq 1..Len(buf)
  BY LenProperties, Layout DEF Heads, WrongXs, IsX
<1>2. ASSUME Heads # {} PROVE Min(Heads) \in 1..Len(buf)
  <2>1. Heads \in SUBSET Nat
    BY <1>1
  <2>2. Min(Heads) \in Heads
    BY <1>2, <2>1, MinOfNats
  <2> QED
    BY <1>1, <2>2
<1>3. ASSUME Heads # {}
      PROVE  FromHead \in Seq(Nat) /\ Len(FromHead) = Len(buf) - Min(Heads) + 1
  <2> DEFINE m == Min(Heads)
             n == Len(buf)
  <2>1. m \in 1..n /\ n \in Nat
    BY <1>1, <1>2, <1>3
  <2>2. FromHead = SubSeq(buf, (m - 1) + 1, n)
    BY DEF FromHead, AfterFirst
  <2>3. n <= Len(buf)
    BY <2>1
  <2> HIDE DEF m, n
  <2>4. (m - 1) + 1 \in Nat \ {0} /\ n \in Int /\ (m - 1) + 1 <= n
        /\ n - ((m - 1) + 1) + 1 = n - m + 1
    BY <2>1
  <2> QED
    BY <2>2, <2>3, <2>4, SubSeqType DEF m, n
<1>4. Behind \in Nat
  <2> DEFINE lines == {i + Len(HEAD) : i \in WrongXs \cup (IF Heads = {} THEN {} ELSE {Min(Heads)})}
             w == {0} \cup (WrongXs \ {Max(WrongXs \cup {0})})
             last == Max(w)
             scans == IF Heads = {} /\ WrongXs # {} THEN {Len(buf) + 1 + last} ELSE {}
             z == {0} \cup {e - Len(buf) : e \in lines \cup scans}
  <2>1. Behind = Max(z)
    BY DEF Behind
  <2>2. last \in 0..Len(buf)
    <3>1. w \subseteq {0} \cup WrongXs /\ 0 \in w
      <4> DEFINE last2 == Max(WrongXs \cup {0})
      <4> HIDE DEF last2
      <4> QED
        BY Zenon DEF last2
    <3> HIDE DEF w
    <3>2. \A x \in {0} \cup WrongXs : x \in Int /\ x \in 0..Len(buf) /\ x <= Len(buf)
      BY <1>1
    <3>3. w \in SUBSET Int /\ w # {} /\ (\A x \in w : x <= Len(buf)) /\ Len(buf) \in Int
      BY <1>1, <3>1, <3>2
    <3>4. last \in w
      BY <3>3, MaxBelow, Zenon
    <3> QED
      BY <3>1, <3>2, <3>4, Zenon
  <2>3. lines \cup scans \subseteq 0..Len(buf) + Len(HEAD) + Len(buf) + 1
    <3>1. \A i \in WrongXs \cup (IF Heads = {} THEN {} ELSE {Min(Heads)}) : i \in 1..Len(buf)
      BY <1>1, <1>2
    <3> HIDE DEF last
    <3> QED
      BY <1>1, <2>2, <3>1, SMTT(30)
  <2>4. z \in SUBSET Int /\ 0 \in z /\ \A x \in z : x <= Len(buf) + Len(HEAD) + 1
    <3> HIDE DEF lines, scans
    <3> QED
      BY <1>1, <2>3
  <2>5. Len(buf) + Len(HEAD) + 1 \in Int
    BY <1>1
  <2> HIDE DEF z
  <2>6. Max(z) \in z /\ 0 <= Max(z)
    <3>1. z # {}
      BY <2>4
    <3> QED
      BY <2>4, <2>5, <3>1, MaxBelow, Zenon
  <2>7. Max(z) \in Int
    BY <2>4, <2>6
  <2>8. \A x \in Int : 0 <= x => x \in Nat
    OBVIOUS
  <2> QED
    BY <2>1, <2>6, <2>7, <2>8, Zenon
<1> QED
  BY <1>2, <1>3, <1>4

(* With the head at the front, it is found at once and nothing behind the  *)
(* content is looked at.                                                   *)
LEMMA SearchCalm ==
  ASSUME buf \in Seq(Nat), Enough, SubSeq(buf, 1, Len(HEAD)) = HEAD
  PROVE  Heads # {} /\ FromHead = buf /\ Behind = 0
<1>1. /\ Len(buf) \in Nat /\ Len(HEAD) \in Nat \ {0} /\ Len(HEAD) < Len(buf)
      /\ Heads \subseteq 1..Len(buf)
  BY LenProperties, Layout DEF Heads, IsX, Enough
<1>2. 1 \in Heads
  <2>1. buf[1] = X
    <3>1. 1 \in 1..Len(HEAD) - 1 + 1 /\ 1 + 1 - 1 = 1 /\ Len(HEAD) \in Int /\ Len(HEAD) <= Len(buf)
      BY <1>1
    <3>2. SubSeq(buf, 1, Len(HEAD))[1] = buf[1]
      BY <3>1, SubSeqType
    <3> QED
      BY <3>2 DEF X
  <2>2. 1 + Len(HEAD) - 1 = Len(HEAD) /\ Len(HEAD) <= Len(buf) /\ 1 \in 1..Len(buf)
    BY <1>1
  <2>3. HeadAt(1)
    BY <2>2 DEF HeadAt
  <2> QED
    BY <2>1, <2>2, <2>3 DEF Heads, IsX
<1>3. Min(Heads) = 1
  <2>1. Heads \in SUBSET Nat /\ Heads # {}
    BY <1>1, <1>2
  <2>2. Min(Heads) \in Heads /\ Min(Heads) <= 1
    BY <1>2, <2>1, MinOfNats
  <2>3. \A x \in 1..Len(buf) : x <= 1 => x = 1
    BY <1>1
  <2> QED
    BY <1>1, <2>2, <2>3, Zenon
<1>4. FromHead = buf
  BY <1>3, SubSeqFull DEF FromHead, AfterFirst
<1>5. WrongXs = {}
  BY <1>1, <1>2 DEF WrongXs
<1>6. Behind = 0
  <2>1. Max({0} \cup ({} \ {Max({} \cup {0})})) = 0
    BY DEF Max
  <2> DEFINE c == 1 + Len(HEAD)
             k == Len(buf)
  <2>2. Behind = Max({0} \cup {e - k : e \in {c}})
    BY <1>2, <1>3, <1>5 DEF Behind
  <2>3. c \in Nat /\ k \in Nat /\ c <= k
    <3> DEFINE h == Len(HEAD)
    <3>1. h \in Nat /\ k \in Nat /\ h < k /\ c = 1 + h
      BY <1>1
    <3> HIDE DEF h, k, c
    <3> QED
      BY <3>1
  <2> HIDE DEF c, k
  <2>4. {0} \cup {e - k : e \in {c}} = {0, c - k}
    OBVIOUS
  <2>5. c - k \in Int /\ ~ (c - k > 0)
    BY <2>3
  <2> QED
    BY <2>2, <2>4, <2>5, MaxWithZero
<1> QED
  BY <1>2, <1>4, <1>6

-----------------------------------------------------------------------------
(* Types *)

(* A string cut in two is two strings, which make it up.                   *)
LEMMA CutType ==
  ASSUME NEW s \in Seq(Nat), NEW k \in Nat, k <= Len(s)
  PROVE  /\ First(s, k) \in Seq(Nat) /\ Len(First(s, k)) = k
         /\ AfterFirst(s, k) \in Seq(Nat) /\ Len(AfterFirst(s, k)) = Len(s) - k
         /\ First(s, k) \o AfterFirst(s, k) = s
<1> DEFINE n == Len(s)
<1>1. n \in Nat
  BY LenProperties
<1>2. /\ 1 \in Nat \ {0} /\ k \in Int /\ k <= n /\ (IF 1 <= k THEN k - 1 + 1 ELSE 0) = k
      /\ \A i \in 1..k : i \in 1..k - 1 + 1 /\ 1 + i - 1 = i
  OBVIOUS
<1>3. /\ First(s, k) \in Seq(Nat) /\ Len(First(s, k)) = k
      /\ \A i \in 1..k : First(s, k)[i] = s[i]
  <2>1. /\ SubSeq(s, 1, k) \in Seq(Nat)
        /\ Len(SubSeq(s, 1, k)) = IF 1 <= k THEN k - 1 + 1 ELSE 0
        /\ \A i \in 1..k - 1 + 1 : SubSeq(s, 1, k)[i] = s[1 + i - 1]
    BY <1>2, SubSeqType
  <2> QED
    BY <1>2, <2>1 DEF First
<1> HIDE DEF n
<1>4. /\ k + 1 \in Nat \ {0} /\ n \in Int /\ n <= n
      /\ (IF k + 1 <= n THEN n - (k + 1) + 1 ELSE 0) = n - k
      /\ \A i \in 1..n - k : i \in 1..n - (k + 1) + 1 /\ (k + 1) + i - 1 = k + i
  BY <1>1, <1>2
<1>5. /\ AfterFirst(s, k) \in Seq(Nat) /\ Len(AfterFirst(s, k)) = n - k
      /\ \A i \in 1..n - k : AfterFirst(s, k)[i] = s[k + i]
  <2>1. n <= Len(s)
    BY <1>1 DEF n
  <2>2. /\ SubSeq(s, k + 1, n) \in Seq(Nat)
        /\ Len(SubSeq(s, k + 1, n)) = IF k + 1 <= n THEN n - (k + 1) + 1 ELSE 0
        /\ \A i \in 1..n - (k + 1) + 1 : SubSeq(s, k + 1, n)[i] = s[(k + 1) + i - 1]
    BY <1>4, <2>1, SubSeqType
  <2>3. AfterFirst(s, k) = SubSeq(s, k + 1, n)
    BY DEF AfterFirst, n
  <2> QED
    BY <1>4, <2>2, <2>3
<1> DEFINE a == First(s, k)
           b == AfterFirst(s, k)
           c == a \o b
<1>6. /\ c \in Seq(Nat) /\ Len(c) = Len(a) + Len(b)
      /\ \A i \in 1..Len(a) + Len(b) : c[i] = IF i <= Len(a) THEN a[i] ELSE b[i - Len(a)]
  BY <1>3, <1>5, ConcatProperties
<1>7. k + (n - k) = n
  BY <1>1
<1>8. Len(c) = n /\ \A i \in 1..n : c[i] = IF i <= k THEN a[i] ELSE b[i - k]
  BY <1>3, <1>5, <1>6, <1>7
<1>9. ASSUME NEW i \in 1..n PROVE c[i] = s[i]
  <2>1. CASE i <= k
    BY <1>3, <1>8, <2>1
  <2>2. CASE ~(i <= k)
    <3>1. i - k \in 1..n - k /\ k + (i - k) = i
      BY <1>1, <2>2
    <3> QED
      BY <1>5, <1>8, <2>2, <3>1
  <2> QED
    BY <2>1, <2>2
<1> HIDE DEF c
<1>10. c = s
  BY <1>6, <1>8, <1>9, SeqEqual DEF n
<1> QED
  BY <1>3, <1>5, <1>10 DEF n, c

(* What is assumed of the other constants                                  *)
LEMMA BoundsType == MaxSends \in Nat /\ NUL \in Nat /\ Leftovers \subseteq Nat
<1>1. {SOCKET_MAX_SIZE, DATA_MAX_SIZE, NUL, MaxSends} \cup Leftovers \subseteq Nat
  BY FramingAssumption
<1> QED
  BY <1>1

(* A write keeps the types,                                                *)
LEMMA WriteType ==
  ASSUME TypeOK, NEW p \in Packets, NEW f \in PackRequest(p), NEW k \in 1..Len(f), Write(p, f, k)
  PROVE  TypeOK'
<1>1. f \in Seq(Nat) /\ Len(f) \in Nat /\ Len(f) - SOCKET_MAX_SIZE \in Int
  BY PackRequestType, Sizes
<1>2. spill' \in Nat
  BY <1>1, MaxWithZero DEF Write
<1>3. First(f, k) \in Seq(Nat) /\ Len(First(f, k)) = k /\ k \in Nat \ {0}
  BY <1>1, CutType
<1>4. net \in Seq(Nat) /\ net' = net \o First(f, k)
  BY DEF Write, TypeOK
<1>5. net' \in Seq(Nat) /\ Len(net') = Len(net) + k /\ Len(net) \in Nat
  <2>1. Len(net) \in Nat
    BY <1>4, LenProperties
  <2>2. /\ net \o First(f, k) \in Seq(Nat)
        /\ Len(net \o First(f, k)) = Len(net) + Len(First(f, k))
    BY <1>3, <1>4, ConcatProperties
  <2> QED
    BY <1>3, <1>4, <2>1, <2>2
<1>6. ends' \subseteq 1..Len(net')
  <2> DEFINE n == Len(net)
             m == Len(net')
  <2>1. m = n + k /\ n \in Nat /\ ends \subseteq 1..n /\ ends' = ends \cup {m}
    BY <1>5 DEF Write, TypeOK
  <2> HIDE DEF n, m
  <2>2. ends' \subseteq 1..m
    BY <1>3, <2>1
  <2> QED
    BY <2>2 DEF m
<1>7. sent' \in Seq(Packets)
  BY AppendProperties DEF Write, TypeOK
<1>8. sends' \in 0..MaxSends
  <2>1. MaxSends \in Nat
    BY BoundsType
  <2> QED
    BY <2>1 DEF Write, TypeOK
<1>9. {crashed, whole, alone}' \subseteq BOOLEAN
  BY DEF Write, TypeOK, receiver
<1> QED
  BY <1>2, <1>5, <1>6, <1>7, <1>8, <1>9 DEF Write, TypeOK, receiver

(* and a read does,                                                        *)
LEMMA RecvType ==
  ASSUME TypeOK, NEW k \in 1..SOCKET_MAX_SIZE, Recv(k)
  PROVE  TypeOK'
<1>1. net \in Seq(Nat) /\ buf \in Seq(Nat) /\ k \in Nat /\ k <= Len(net) /\ Len(net) \in Nat
  BY Sizes, LenProperties DEF TypeOK, Recv
<1>2. /\ rest' \in Seq(Nat) /\ net' \in Seq(Nat) /\ Len(net') = Len(net) - k
  BY <1>1, CutType DEF Recv
<1>3. buf' \in Seq(Nat)
  BY <1>1, <1>2, ConcatProperties DEF Recv
<1>4. ends' \subseteq 1..Len(net')
  <2> DEFINE n == Len(net)
             m == Len(net')
  <2>1. /\ m = n - k /\ n \in Nat /\ ends \subseteq 1..n
        /\ ends' = {e - k : e \in {end \in ends : end > k}}
    BY <1>1, <1>2 DEF Recv, TypeOK
  <2> HIDE DEF n, m
  <2>2. ASSUME NEW e \in ends, e > k PROVE e - k \in 1..m
    BY <1>1, <2>1, <2>2
  <2>3. ends' \subseteq 1..m
    BY <2>1, <2>2
  <2> QED
    BY <2>3 DEF m
<1>5. alone' \in BOOLEAN
  BY DEF Recv, TypeOK
<1> QED
  BY <1>2, <1>3, <1>4, <1>5 DEF Recv, TypeOK

(* and every answer of HandleChunkedRead,                                  *)
LEMMA HandledType ==
  ASSUME TypeOK, NEW b \in Seq(Nat), NEW again \in Seq(Nat), Handled(b, again),
         got' \in Seq(Packet)
  PROVE  TypeOK'
<1>1. past' \in Nat
  BY SearchType DEF Handled, TypeOK
<1>2. buf' \in Seq(Nat) /\ rest' \in Seq(Nat)
  BY ConcatProperties DEF Handled
<1> QED
  BY <1>1, <1>2 DEF Handled, TypeOK, history

(* What stands behind the head, when a whole message does *)
LEMMA CompleteType ==
  ASSUME TypeOK, Complete
  PROVE  /\ FromHead \in Seq(Nat) /\ Len(FromHead) \in Nat /\ BODY <= Len(FromHead)
         /\ ContentLen \in Nat /\ MsgLen \in Nat /\ MsgLen <= Len(FromHead)
         /\ Parse(FromHead, ContentLen) \in Packet
<1>1. FromHead \in Seq(Nat)
  BY SearchType DEF TypeOK, Complete
<1> DEFINE s == FromHead
           n == Len(s)
<1>2. n \in Nat /\ BODY < n /\ MsgLen <= n
  BY <1>1, LenProperties DEF Complete
<1>3. s \in Seq(Nat) /\ n = Len(s)
  BY <1>1
<1> HIDE DEF n, s
<1>4. /\ FIELDS + 1 \in Nat \ {0} /\ BODY \in Int /\ BODY <= n
      /\ BODY + 1 \in Nat \ {0} /\ FIELDS - 1 \in Int /\ FIELDS - 1 <= n /\ FIELDS \in 1..n
  BY <1>2, Sizes
<1> DEFINE u == SubSeq(s, FIELDS + 1, BODY)
<1>5. u \in Seq(Nat)
  BY <1>3, <1>4, SubSeqType
<1>6. ContentLen = Strtol(u)
  BY DEF ContentLen, s
<1> HIDE DEF u
<1>7. ContentLen \in Nat
  <2>1. Pow[Len(u)] \in Nat
    BY <1>5, LenProperties, PowRecursion
  <2>2. Strtol(u) \in 0..Pow[Len(u)] - 1
    BY <1>5, StrtolBound, Zenon
  <2> QED
    BY <1>6, <2>1, <2>2
<1>8. MsgLen = OVERHEAD + ContentLen /\ MsgLen \in Nat
  BY <1>7, Sizes DEF MsgLen
<1>9. BODY + ContentLen \in Int /\ BODY + ContentLen <= n
  BY <1>2, <1>7, <1>8, Sizes
<1>10. SubSeq(s, BODY + 1, BODY + ContentLen) \in Seq(Nat)
  BY <1>3, <1>4, <1>9, SubSeqType
<1>11. Strtol(SubSeq(s, Len(HEAD) + 1, FIELDS - 1)) \in 0..Pow[SEQ_WIDTH] - 1
  <2> DEFINE h == Len(HEAD)
  <2>1. h \in Nat /\ FIELDS = h + SEQ_WIDTH + 1
    BY Layout
  <2> HIDE DEF h
  <2>2. /\ h + 1 \in Nat \ {0} /\ h + 1 <= FIELDS - 1
        /\ (FIELDS - 1) - (h + 1) + 1 = SEQ_WIDTH
    BY <2>1, Radix
  <2>3. /\ SubSeq(s, h + 1, FIELDS - 1) \in Seq(Nat)
        /\ Len(SubSeq(s, h + 1, FIELDS - 1)) = SEQ_WIDTH
    BY <1>3, <1>4, <2>2, SubSeqType
  <2>4. Strtol(SubSeq(s, h + 1, FIELDS - 1)) \in 0..Pow[SEQ_WIDTH] - 1
    BY <2>3, StrtolBound, Zenon
  <2> QED
    BY <2>4 DEF h
<1>12. s[FIELDS] \in Nat
  BY <1>3, <1>4, ElementOfSeq
<1>13. Parse(s, ContentLen) \in Packet
  BY <1>10, <1>11, <1>12 DEF Parse, Packet
<1> QED
  BY <1>1, <1>2, <1>3, <1>4, <1>7, <1>8, <1>13 DEF s, n

(* No bytes are a string.                                                  *)
LEMMA EmptyIsString == << >> \in Seq(Nat)
  OBVIOUS

(* and so does OnRecvMsg as a whole.                                       *)
LEMMA ReadType ==
  ASSUME TypeOK, OnRecvMsg
  PROVE  TypeOK'
<1>1. buf \in Seq(Nat) /\ rest \in Seq(Nat) /\ got \in Seq(Packet)
  BY DEF TypeOK
<1>2. Heads # {} => FromHead \in Seq(Nat)
  BY <1>1, SearchType
<1>3. CASE MoreDataExpected
  <2>1. PICK b \in {buf, FromHead} : b \in Seq(Nat) /\ Handled(b, << >>)
    BY <1>1, <1>2, <1>3 DEF MoreDataExpected
  <2> QED
    BY <1>1, <1>3, <2>1, EmptyIsString, HandledType DEF MoreDataExpected
<1>4. CASE DataTooLong
  BY <1>1, <1>4, EmptyIsString, HandledType DEF DataTooLong
<1>5. CASE NullString
  BY <1>5 DEF NullString, TypeOK, history
<1>6. CASE DataCorrupted
  <2>1. FIELDS \in Nat /\ FIELDS <= Len(FromHead) /\ FromHead \in Seq(Nat)
    BY <1>6, CompleteType, Sizes DEF DataCorrupted
  <2>2. AfterFirst(FromHead, FIELDS) \in Seq(Nat)
    BY <2>1, CutType
  <2> QED
    BY <1>1, <1>6, <2>2, EmptyIsString, HandledType DEF DataCorrupted
<1>7. CASE AllDataRead
  <2>1. /\ MsgLen \in Nat /\ MsgLen <= Len(FromHead) /\ FromHead \in Seq(Nat)
        /\ Parse(FromHead, ContentLen) \in Packet
    BY <1>7, CompleteType DEF AllDataRead
  <2>2. AfterFirst(FromHead, MsgLen) \in Seq(Nat)
    BY <2>1, CutType
  <2>3. AfterFirst(rest, MsgLen) \in Seq(Nat)
    <3>1. MsgLen + 1 \in Nat \ {0} /\ Len(rest) \in Int /\ Len(rest) <= Len(rest)
      BY <1>1, <2>1, LenProperties
    <3> QED
      BY <1>1, <3>1, SubSeqType DEF AfterFirst
  <2>4. got' \in Seq(Packet)
    BY <1>1, <1>7, <2>1, AppendProperties DEF AllDataRead
  <2> QED
    BY <1>7, <2>2, <2>3, <2>4, HandledType DEF AllDataRead
<1> QED
  BY <1>3, <1>4, <1>5, <1>6, <1>7 DEF OnRecvMsg

(* A step of the sender is a write of a frame, or of as much as it is torn  *)
(* after.                                                                  *)
LEMMA SenderStep ==
  ASSUME NEW p \in Packets, Send(p) \/ SendLoss(p)
  PROVE  \E f \in PackRequest(p) : \E k \in (TornAt \cup {Len(f)}) \cap 1..Len(f) : Write(p, f, k)
<1>1. CASE Send(p)
  <2>1. PICK f \in PackRequest(p) : Write(p, f, Len(f))
    BY <1>1 DEF Send
  <2>2. Len(f) \in 1..Len(f)
    BY PackRequestType
  <2> QED
    BY <2>1, <2>2
<1>2. CASE SendLoss(p)
  <2>1. PICK f \in PackRequest(p) : \E k \in TornAt \cap (0..Len(f) - 1) : Write(p, f, k)
    BY <1>2 DEF SendLoss
  <2>2. PICK k \in TornAt \cap (0..Len(f) - 1) : Write(p, f, k)
    BY <2>1
  <2>3. k \in Nat \ {0} /\ Len(f) \in Nat
    BY FramingAssumption, PackRequestType
  <2>4. k \in 1..Len(f)
    BY <2>2, <2>3
  <2> QED
    BY <2>2, <2>4
<1> QED
  BY <1>1, <1>2

(* Every byte string stays one of bytes, and what is parsed of a frame     *)
(* fits the widths of its fields, whatever is sent and however it is torn. *)
THEOREM TypeCorrect == Spec => []TypeOK
<1>1. Init => TypeOK
  <2>1. << >> \in Seq(Nat) /\ << >> \in Seq(Packet) /\ << >> \in Seq(Packets)
    BY EmptySeq
  <2>2. 0 \in 0..MaxSends
    BY BoundsType
  <2> SUFFICES ASSUME Init PROVE TypeOK
    OBVIOUS
  <2>3. {crashed, whole, alone} \subseteq BOOLEAN
    BY Zenon DEF Init
  <2>4. ends = {} /\ spill = 0 /\ past = 0 /\ sends = 0
    BY DEF Init
  <2>5. /\ net \in Seq(Nat) /\ buf \in Seq(Nat) /\ rest \in Seq(Nat) /\ got \in Seq(Packet)
        /\ sent \in Seq(Packets)
    BY <2>1 DEF Init
  <2> QED
    BY <2>2, <2>3, <2>4, <2>5 DEF TypeOK
<1>2. TypeOK /\ [Next]_vars => TypeOK'
  <2> SUFFICES ASSUME TypeOK, [Next]_vars PROVE TypeOK'
    OBVIOUS
  <2>1. CASE \E p \in Packets : Send(p) \/ SendLoss(p)
    BY <2>1, SenderStep, WriteType
  <2>2. CASE \E k \in 1..SOCKET_MAX_SIZE : Recv(k)
    BY <2>2, RecvType
  <2>3. CASE OnRecvMsg
    BY <2>3, ReadType
  <2>4. CASE UNCHANGED vars
    BY <2>4 DEF vars, receiver, history, TypeOK
  <2> QED
    BY <2>1, <2>2, <2>3, <2>4 DEF Next
<1> QED
  BY <1>1, <1>2, PTL DEF Spec

-----------------------------------------------------------------------------
(* The calm case: whole frames of legal packets, each read on its own.     *)
(* Then the frames of the packets not yet in MsgQ stand one behind the     *)
(* other in buf and net, their ends are the ends of writes, and buf is     *)
(* part of the first of them: all of it only while OnRecvMsg is at work.   *)

G == Len(got)
N == Len(sent)
B == Len(buf)
M == Len(net)

Ascending(off, g, n) == \A i, j \in g..n : i <= j => off[i] <= off[j]
Placed(off, j, b, bytes, packets, cuts) ==
  /\ off[j] = off[j - 1] + Size(packets[j])
  /\ Part(bytes, off[j - 1], Fields(packets[j]))
  /\ off[j] > b => off[j] - b \in cuts
Laid(off, g, n, b, m, bytes, packets, cuts, unread) ==
  /\ off \in [g..n -> Nat] /\ off[g] = 0 /\ off[n] = b + m /\ Ascending(off, g, n)
  /\ \A j \in g + 1..n : Placed(off, j, b, bytes, packets, cuts)
  /\ g < n => b <= off[g + 1] /\ (unread = << >> => b < off[g + 1])

Offsets(off) == Laid(off, G, N, B, M, buf \o net, sent, ends, rest)

CalmInv ==
  whole /\ alone =>
    /\ ~crashed /\ past = 0 /\ spill = 0 /\ Len(rest) <= B
    /\ G <= N /\ \A i \in 1..G : got[i] = sent[i]
    /\ \A j \in 1..N : Legal(sent[j])
    /\ \E off : Offsets(off)

(* Lengths are numbers.                                                    *)
LEMMA CountTypes ==
  ASSUME TypeOK
  PROVE  G \in Nat /\ N \in Nat /\ B \in Nat /\ M \in Nat /\ Len(rest) \in Nat
BY LenProperties DEF TypeOK, G, N, B, M

(* Concatenation is associative.                                           *)
LEMMA BytesJoined ==
  ASSUME NEW s \in Seq(Nat), NEW t \in Seq(Nat), NEW u \in Seq(Nat)
  PROVE  (s \o t) \o u = s \o (t \o u)
BY SMTT(30)

(* A write puts its frame behind the others.                               *)
LEMMA CalmWrite ==
  ASSUME TypeOK, TypeOK', CalmInv, NEW p \in Packets, NEW f \in PackRequest(p), NEW k \in 1..Len(f),
         Write(p, f, k)
  PROVE  CalmInv'
<1> SUFFICES ASSUME whole', alone'
             PROVE  /\ (~crashed /\ past = 0 /\ spill = 0 /\ Len(rest) <= B)'
                    /\ (G <= N /\ \A i \in 1..G : got[i] = sent[i])'
                    /\ (\A j \in 1..N : Legal(sent[j]))'
                    /\ \E off : Offsets(off)'
  BY Zenon DEF CalmInv
<1>1. whole /\ alone /\ Legal(p) /\ k = Len(f)
  BY DEF Write
<1>2. /\ f \in Seq(Nat) /\ f = Fields(p) /\ Len(f) = Size(p) /\ Size(p) \in Nat \ {0}
      /\ Size(p) <= SOCKET_MAX_SIZE /\ SOCKET_MAX_SIZE \in Nat
  BY <1>1, PackRequestType, Sizes
<1>3. spill' = 0
  <2>1. Size(p) - SOCKET_MAX_SIZE \in Int /\ ~ (Size(p) - SOCKET_MAX_SIZE > 0)
    BY <1>2
  <2> QED
    BY <1>2, <2>1, MaxWithZero DEF Write
<1>4. ~Refused(p) /\ First(f, k) = f
  BY <1>1, <1>2, SubSeqFull DEF Legal, First
<1>5. /\ net' = net \o f /\ sent' = Append(sent, p) /\ UNCHANGED <<buf, rest, got, crashed, past>>
      /\ ends' = ends \cup {M'}
  BY <1>1, <1>4 DEF Write, receiver, M
<1>6. /\ G \in Nat /\ N \in Nat /\ B \in Nat /\ M \in Nat
      /\ sent \in Seq(Packets) /\ net \in Seq(Nat) /\ buf \in Seq(Nat)
  BY CountTypes DEF TypeOK
<1>7. /\ G' = G /\ B' = B /\ N' = N + 1 /\ M' = M + Size(p)
      /\ sent'[N + 1] = p /\ \A j \in 1..N : sent'[j] = sent[j]
  BY <1>2, <1>5, <1>6, AppendProperties, ConcatProperties DEF G, N, B, M
<1>8. /\ buf \o net \in Seq(Nat) /\ Len(buf \o net) = B + M
      /\ buf' \o net' = (buf \o net) \o f
  <2>1. (buf \o net) \o f = buf \o (net \o f)
    BY <1>2, <1>6, BytesJoined, Zenon
  <2>2. buf' \o net' = buf \o (net \o f)
    BY <1>5
  <2>3. buf \o net \in Seq(Nat) /\ Len(buf \o net) = Len(buf) + Len(net)
    BY <1>6, ConcatProperties
  <2> QED
    BY <2>1, <2>2, <2>3 DEF B, M
<1>9. /\ ~crashed /\ past = 0 /\ Len(rest) <= B /\ G <= N
      /\ \A i \in 1..G : got[i] = sent[i]
      /\ \A j \in 1..N : Legal(sent[j])
  BY <1>1 DEF CalmInv
<1>10. PICK off : Offsets(off)
  BY <1>1 DEF CalmInv
<1>11. /\ off \in [G..N -> Nat] /\ off[G] = 0 /\ off[N] = B + M
       /\ \A i, j \in G..N : i <= j => off[i] <= off[j]
  BY <1>10 DEF Offsets, Laid, Ascending, Placed
<1>12. PICK new : /\ new \in [G..N + 1 -> Nat] /\ new[G] = 0 /\ new[N + 1] = B + (M + Size(p))
                  /\ new[N] = B + M /\ \A j \in G..N : new[j] = off[j]
  <2> DEFINE z == [j \in G..N + 1 |-> IF j <= N THEN off[j] ELSE B + (M + Size(p))]
  <2>1. B + (M + Size(p)) \in Nat /\ \A j \in G..N + 1 : j <= N => j \in G..N /\ off[j] \in Nat
    <3>1. B + (M + Size(p)) \in Nat
      BY <1>2, <1>6
    <3>2. \A j \in G..N + 1 : j <= N => j \in G..N
      BY <1>6
    <3> QED
      BY <1>11, <3>1, <3>2
  <2>2. z \in [G..N + 1 -> Nat]
    BY <2>1
  <2>3. \A j \in G..N : j \in G..N + 1 /\ j <= N
    BY <1>6
  <2>4. N + 1 \in G..N + 1 /\ ~ (N + 1 <= N) /\ G \in G..N /\ N \in G..N
    BY <1>6, <1>9
  <2>5. (\A j \in G..N : z[j] = off[j]) /\ z[N + 1] = B + (M + Size(p))
    BY <2>3, <2>4
  <2> HIDE DEF z
  <2>6. z[G] = 0 /\ z[N] = B + M
    BY <1>11, <2>4, <2>5
  <2> QED
    BY <2>2, <2>5, <2>6
<1>13. ASSUME NEW i \in G..N + 1, NEW j \in G..N + 1, i <= j PROVE new[i] <= new[j]
  <2>1. CASE j \in G..N
    <3>1. i \in G..N
      BY <1>6, <1>13, <2>1
    <3> QED
      BY <1>11, <1>12, <1>13, <2>1, <3>1
  <2>2. CASE i = N + 1
    BY <1>6, <1>12, <1>13, <2>2
  <2>3. CASE i \in G..N /\ j = N + 1
    <3>1. N \in G..N /\ i <= N
      BY <1>6, <1>9, <2>3
    <3>2. off[i] <= off[N] /\ off[i] \in Nat
      BY <1>11, <2>3, <3>1
    <3>3. new[i] <= B + M /\ new[i] \in Nat
      BY <1>11, <1>12, <2>3, <3>2
    <3>4. B + M <= B + (M + Size(p)) /\ B + M \in Nat /\ B + (M + Size(p)) \in Nat
      BY <1>2, <1>6, SMTT(30)
    <3>5. new[j] = B + (M + Size(p))
      BY <1>12, <2>3
    <3> QED
      BY <3>3, <3>4, <3>5
  <2> QED
    BY <1>6, <1>13, <2>1, <2>2, <2>3
<1>14. ASSUME NEW j \in G + 1..N + 1
       PROVE  /\ new[j] = new[j - 1] + Size(sent'[j])
              /\ Part(buf' \o net', new[j - 1], Fields(sent'[j]))
              /\ new[j] > B => new[j] - B \in ends'
  <2>1. CASE j \in G + 1..N
    <3>1. j - 1 \in G..N /\ j \in G..N /\ j \in 1..N
      BY <1>6, <2>1
    <3>2. /\ new[j] = off[j] /\ new[j - 1] = off[j - 1] /\ sent'[j] = sent[j]
          /\ off[j - 1] \in Nat
      BY <1>7, <1>11, <1>12, <3>1
    <3>3. /\ off[j] = off[j - 1] + Size(sent[j])
          /\ Part(buf \o net, off[j - 1], Fields(sent[j]))
          /\ off[j] > B => off[j] - B \in ends
      BY <1>10, <2>1 DEF Offsets, Laid, Ascending, Placed
    <3>4. Fields(sent[j]) \in Seq(Nat)
      BY <1>6, <3>1, FieldsJoined, ElementOfSeq DEF N
    <3>5. Part(buf' \o net', off[j - 1], Fields(sent[j]))
      BY <1>2, <1>8, <3>2, <3>3, <3>4, PartOfConcat
    <3> QED
      BY <1>5, <3>2, <3>3, <3>5
  <2>2. CASE j = N + 1
    <3>1. /\ j - 1 = N /\ new[j - 1] = B + M /\ new[j] = B + (M + Size(p)) /\ sent'[j] = p
      <4>1. j - 1 = N
        BY <1>6, <2>2
      <4> QED
        BY <1>7, <1>12, <2>2, <4>1, Zenon
    <3>2. new[j] = new[j - 1] + Size(p) /\ new[j] - B = M'
      <4>1. B + (M + Size(p)) = (B + M) + Size(p) /\ (B + (M + Size(p))) - B = M + Size(p)
        BY <1>2, <1>6
      <4> QED
        BY <1>7, <3>1, <4>1
    <3>3. Part(buf' \o net', B + M, Fields(p))
      BY <1>2, <1>8, PartOfConcat
    <3> QED
      BY <1>5, <3>1, <3>2, <3>3
  <2> QED
    BY <1>6, <2>1, <2>2
<1>15. B <= new[G + 1] /\ (rest = << >> => B < new[G + 1])
  <2>1. CASE G < N
    <3>1. G + 1 \in G..N
      BY <1>6, <2>1
    <3> QED
      BY <1>10, <1>12, <2>1, <3>1 DEF Offsets, Laid, Ascending, Placed
  <2>2. CASE G = N
    <3>1. B = 0 /\ M = 0
      BY <1>6, <1>11, <2>2
    <3> QED
      BY <1>2, <1>12, <2>2, <3>1
  <2> QED
    BY <1>6, <1>9, <2>1, <2>2
<1>16. Offsets(new)'
  <2>1. new \in [G'..N' -> Nat] /\ new[G'] = 0 /\ new[N'] = B' + M'
    BY <1>7, <1>12
  <2>2. Ascending(new, G', N')
    BY <1>7, <1>13 DEF Ascending
  <2>3. \A j \in G' + 1..N' : Placed(new, j, B', buf' \o net', sent', ends')
    BY <1>7, <1>14 DEF Placed
  <2>4. B' <= new[G' + 1] /\ (rest' = << >> => B' < new[G' + 1])
    BY <1>5, <1>7, <1>15
  <2>5. Laid(new, G', N', B', M', buf' \o net', sent', ends', rest')
    BY <2>1, <2>2, <2>3, <2>4, Zenon DEF Laid
  <2> QED
    BY <2>5 DEF Offsets
<1>17. (G <= N /\ \A i \in 1..G : got[i] = sent[i])'
  <2>1. G' <= N'
    BY <1>6, <1>7, <1>9
  <2>2. ASSUME NEW i \in 1..G PROVE got'[i] = sent'[i]
    <3>1. i \in 1..N
      BY <1>6, <1>9
    <3> QED
      BY <1>5, <1>7, <1>9, <3>1
  <2> QED
    BY <1>7, <2>1, <2>2
<1>18. (\A j \in 1..N : Legal(sent[j]))'
  <2> SUFFICES ASSUME NEW j \in 1..N + 1 PROVE Legal(sent'[j])
    BY <1>7 DEF Legal, Refused
  <2>1. CASE j = N + 1
    BY <1>1, <1>7, <2>1
  <2>2. CASE j \in 1..N
    BY <1>7, <1>9, <2>2
  <2> QED
    BY <1>6, <2>1, <2>2
<1> QED
  BY <1>3, <1>5, <1>7, <1>9, <1>16, <1>17, <1>18

(* A read of the bytes of one write moves them to buf.                     *)
LEMMA CalmRecv ==
  ASSUME TypeOK, TypeOK', CalmInv, NEW k \in 1..SOCKET_MAX_SIZE, Recv(k)
  PROVE  CalmInv'
<1> SUFFICES ASSUME whole', alone'
             PROVE  /\ (~crashed /\ past = 0 /\ spill = 0 /\ Len(rest) <= B)'
                    /\ (G <= N /\ \A i \in 1..G : got[i] = sent[i])'
                    /\ (\A j \in 1..N : Legal(sent[j]))'
                    /\ \E off : Offsets(off)'
  BY Zenon DEF CalmInv
<1>1. /\ whole /\ alone /\ ends \cap (1..k - 1) = {} /\ rest = << >> /\ k \in Nat \ {0}
      /\ UNCHANGED <<got, crashed, past, spill, sent>>
  <2>1. alone /\ ends \cap (1..k - 1) = {}
    BY Zenon DEF Recv
  <2>2. k \in Nat \ {0}
    BY Sizes
  <2> QED
    BY <2>1, <2>2, Zenon DEF Recv
<1>2. /\ G \in Nat /\ N \in Nat /\ B \in Nat /\ M \in Nat /\ k <= M
      /\ net \in Seq(Nat) /\ buf \in Seq(Nat) /\ ends \subseteq 1..M
  BY CountTypes DEF TypeOK, Recv, M
<1>3. /\ rest' = First(net, k) /\ net' = AfterFirst(net, k) /\ buf' = buf \o rest'
  BY DEF Recv
<1>4. /\ rest' \in Seq(Nat) /\ Len(rest') = k /\ net' \in Seq(Nat) /\ Len(net') = M - k
      /\ rest' \o net' = net
  BY <1>1, <1>2, <1>3, CutType DEF M
<1>5. G' = G /\ N' = N /\ B' = B + k /\ M' = M - k
  <2>1. Len(buf \o rest') = Len(buf) + Len(rest')
    BY <1>2, <1>4, ConcatProperties
  <2>2. B' = B + k
    BY <1>3, <1>4, <2>1, Zenon DEF B
  <2> QED
    BY <1>1, <1>4, <2>2, Zenon DEF G, N, M
<1>6. buf' \o net' = buf \o net
  <2>1. (buf \o rest') \o net' = buf \o (rest' \o net')
    BY <1>2, <1>4, BytesJoined, Zenon
  <2>2. buf' \o net' = (buf \o rest') \o net'
    BY <1>3, Zenon
  <2>3. buf \o (rest' \o net') = buf \o net
    BY <1>4, Zenon
  <2> QED
    BY <2>1, <2>2, <2>3, Zenon
<1>7. /\ ~crashed /\ past = 0 /\ spill = 0 /\ G <= N
      /\ \A i \in 1..G : got[i] = sent[i]
      /\ \A j \in 1..N : Legal(sent[j])
  BY <1>1 DEF CalmInv
<1>8. PICK off : Offsets(off)
  BY <1>1 DEF CalmInv
<1>9. /\ off \in [G..N -> Nat] /\ off[G] = 0 /\ off[N] = B + M /\ Ascending(off, G, N)
      /\ \A j \in G + 1..N : Placed(off, j, B, buf \o net, sent, ends)
      /\ G < N => B < off[G + 1]
  BY <1>1, <1>8 DEF Offsets, Laid
<1>10. G < N
  BY <1>1, <1>2, <1>7, <1>9
<1>11. ASSUME NEW j \in G + 1..N PROVE Placed(off, j, B', buf' \o net', sent', ends')
  <2>1. off[j] \in Nat /\ Placed(off, j, B, buf \o net, sent, ends)
    BY <1>2, <1>9
  <2>2. ASSUME off[j] > B + k PROVE off[j] - (B + k) \in ends'
    <3>1. off[j] - B \in ends /\ off[j] - B > k /\ off[j] - (B + k) = (off[j] - B) - k
      BY <1>1, <1>2, <2>1, <2>2 DEF Placed
    <3>2. (off[j] - B) - k \in ends'
      BY <3>1 DEF Recv
    <3> QED
      BY <3>1, <3>2
  <2> QED
    BY <1>1, <1>5, <1>6, <2>1, <2>2 DEF Placed
<1>12. B + k <= off[G + 1]
  <2>1. G + 1 \in G + 1..N /\ off[G + 1] \in Nat
    BY <1>2, <1>9, <1>10
  <2>2. off[G + 1] - B \in ends
    BY <1>2, <1>9, <1>10, <2>1 DEF Placed
  <2>3. off[G + 1] - B \notin 1..k - 1
    BY <1>1, <2>2
  <2> QED
    BY <1>1, <1>2, <1>9, <1>10, <2>1, <2>3
<1>13. rest' # << >>
  BY <1>1, <1>4, EmptySeq
<1>14. Offsets(off)'
  <2>1. off[N'] = B' + M'
    BY <1>1, <1>2, <1>5, <1>9
  <2>2. \A j \in G' + 1..N' : Placed(off, j, B', buf' \o net', sent', ends')
    BY <1>5, <1>11
  <2>3. B' <= off[G' + 1]
    BY <1>5, <1>12
  <2>4. off \in [G'..N' -> Nat] /\ off[G'] = 0 /\ Ascending(off, G', N')
    BY <1>5, <1>9
  <2>5. Laid(off, G', N', B', M', buf' \o net', sent', ends', rest')
    BY <1>13, <2>1, <2>2, <2>3, <2>4, Zenon DEF Laid
  <2> QED
    BY <2>5 DEF Offsets
<1>15. Len(rest') <= B'
  BY <1>1, <1>2, <1>4, <1>5
<1>16. (G <= N /\ \A i \in 1..G : got[i] = sent[i])'
  BY <1>1, <1>5, <1>7
<1>17. (\A j \in 1..N : Legal(sent[j]))'
  BY <1>1, <1>5, <1>7 DEF Legal, Refused
<1> QED
  BY <1>1, <1>7, <1>14, <1>15, <1>16, <1>17

(* What OnRecvMsg has before it in the calm case                           *)
LEMMA CalmFrame ==
  ASSUME TypeOK, CalmInv, whole, alone, rest # << >>, NEW off, Offsets(off)
  PROVE  /\ G < N /\ G + 1 \in 1..N /\ sent[G + 1] \in Packets /\ Legal(sent[G + 1])
         /\ off[G + 1] = Size(sent[G + 1]) /\ B <= Size(sent[G + 1])
         /\ Part(Fields(sent[G + 1]), 0, buf)
<1>1. /\ G \in Nat /\ N \in Nat /\ B \in Nat /\ M \in Nat /\ Len(rest) \in Nat \ {0}
      /\ sent \in Seq(Packets) /\ net \in Seq(Nat) /\ buf \in Seq(Nat)
  <2>1. rest \in Seq(Nat)
    BY DEF TypeOK
  <2>2. Len(rest) # 0
    BY <2>1, EmptySeq
  <2> QED
    BY <2>2, CountTypes DEF TypeOK
<1>2. Len(rest) <= B /\ G <= N /\ \A j \in 1..N : Legal(sent[j])
  BY DEF CalmInv
<1>3. /\ off \in [G..N -> Nat] /\ off[G] = 0 /\ off[N] = B + M
      /\ \A j \in G + 1..N : Placed(off, j, B, buf \o net, sent, ends)
      /\ G < N => B <= off[G + 1]
  BY DEF Offsets, Laid
<1>4. G < N
  BY <1>1, <1>2, <1>3
<1>5. G + 1 \in G + 1..N /\ G + 1 \in 1..N /\ (G + 1) - 1 = G
  BY <1>1, <1>4
<1> DEFINE p == sent[G + 1]
<1>6. p \in Packets /\ Legal(p)
  BY <1>1, <1>2, <1>5, ElementOfSeq DEF N
<1> HIDE DEF p
<1>7. off[G + 1] = off[G] + Size(p) /\ Part(buf \o net, off[G], Fields(p))
  BY <1>3, <1>5 DEF Placed, p
<1>8. Size(p) \in Nat /\ Fields(p) \in Seq(Nat) /\ Len(Fields(p)) = Size(p)
  BY <1>6, FieldsJoined
<1>9. off[G + 1] = Size(p) /\ B <= Size(p) /\ Part(buf \o net, 0, Fields(p))
  BY <1>3, <1>4, <1>7, <1>8
<1>10. Part(Fields(p), 0, buf)
  <2>1. 0 + Len(buf) <= Len(Fields(p))
    BY <1>1, <1>8, <1>9 DEF B
  <2>2. ASSUME NEW i \in 1..Len(buf) PROVE Fields(p)[0 + i] = buf[i]
    <3>1. i \in 1..B /\ i \in 1..Len(Fields(p)) /\ 0 + i = i
      BY <1>1, <1>8, <1>9 DEF B
    <3>2. (buf \o net)[0 + i] = Fields(p)[i]
      BY <1>9, <3>1 DEF Part
    <3>3. (buf \o net)[i] = buf[i]
      BY <1>1, <3>1, ConcatProperties DEF B, M
    <3> QED
      BY <3>1, <3>2, <3>3
  <2> QED
    BY <2>1, <2>2 DEF Part
<1> QED
  BY <1>4, <1>5, <1>6, <1>9, <1>10 DEF p

(* A calm buffer is read at once, or waits for the rest of its frame.      *)
LEMMA CalmSearch ==
  ASSUME TypeOK, NEW p \in Packets, Legal(p), Part(Fields(p), 0, buf)
  PROVE  /\ Enough => Heads # {} /\ FromHead = buf /\ Behind = 0
         /\ Complete <=> B = Size(p)
         /\ Complete => /\ TailFits /\ MsgLen = B /\ MsgLen = Len(FromHead)
                        /\ Parse(FromHead, ContentLen) = p
<1> DEFINE h == Len(HEAD)
           d == Len(p.data)
<1>1. /\ buf \in Seq(Nat) /\ B \in Nat /\ Len(buf) = B /\ h \in Nat /\ h < FIELDS
      /\ d \in Nat /\ Size(p) = OVERHEAD + d
  <2>1. FIELDS = h + SEQ_WIDTH + 1 /\ h \in Nat
    BY Layout
  <2>2. h < FIELDS
    <3> HIDE DEF h
    <3> QED
      BY <2>1, Radix
  <2> QED
    BY <2>1, <2>2, CountTypes, PacketType DEF TypeOK, B, Size
<1>2. /\ B <= Size(p) /\ BODY < Size(p)
      /\ B >= h => SubSeq(buf, 1, h) = HEAD
      /\ B >= BODY => Strtol(SubSeq(buf, FIELDS + 1, BODY)) = d
      /\ B = Size(p) => /\ Parse(buf, d) = p
                        /\ SubSeq(buf, BODY + d + 1, Size(p)) = TAIL
  BY <1>1, FrameRead
<1>3. Enough <=> B > h
  BY <1>1 DEF Enough
<1>4. ASSUME Enough PROVE Heads # {} /\ FromHead = buf /\ Behind = 0
  <2>1. SubSeq(buf, 1, h) = HEAD
    <3> HIDE DEF h
    <3> QED
      BY <1>1, <1>2, <1>3, <1>4
  <2> QED
    BY <1>1, <1>4, <2>1, SearchCalm
<1> HIDE DEF h, d
<1>5. ASSUME Enough, B > BODY PROVE ContentLen = d /\ MsgLen = Size(p)
  <2>1. ContentLen = Strtol(SubSeq(buf, FIELDS + 1, BODY))
    BY <1>4, <1>5 DEF ContentLen
  <2>2. ContentLen = d
    BY <1>1, <1>2, <1>5, <2>1, Sizes
  <2> QED
    BY <1>1, <2>2 DEF MsgLen
<1>6. ASSUME Complete PROVE B = Size(p) /\ ContentLen = d /\ MsgLen = B /\ FromHead = buf
  <2>1. Enough /\ FromHead = buf /\ B > BODY /\ MsgLen <= B
    BY <1>1, <1>4, <1>6 DEF Complete
  <2>2. ContentLen = d /\ MsgLen = Size(p)
    BY <1>5, <2>1
  <2> QED
    BY <1>1, <1>2, <2>1, <2>2, Sizes
<1>7. ASSUME B = Size(p) PROVE Complete
  <2>1. B > BODY /\ Enough
    BY <1>1, <1>2, <1>3, <1>7, Sizes
  <2>2. Heads # {} /\ FromHead = buf /\ MsgLen = B
    BY <1>4, <1>5, <1>7, <2>1
  <2> QED
    BY <1>1, <2>1, <2>2 DEF Complete
<1>8. ASSUME Complete PROVE TailFits /\ Parse(FromHead, ContentLen) = p
  BY <1>2, <1>6, <1>8 DEF TailFits
<1> QED
  BY <1>1, <1>4, <1>6, <1>7, <1>8

(* OnRecvMsg waits for the frame in buf, or hands over all of it.          *)
LEMMA CalmRead ==
  ASSUME TypeOK, TypeOK', CalmInv, OnRecvMsg
  PROVE  CalmInv'
<1> SUFFICES ASSUME whole', alone'
             PROVE  /\ (~crashed /\ past = 0 /\ spill = 0 /\ Len(rest) <= B)'
                    /\ (G <= N /\ \A i \in 1..G : got[i] = sent[i])'
                    /\ (\A j \in 1..N : Legal(sent[j]))'
                    /\ \E off : Offsets(off)'
  BY Zenon DEF CalmInv
<1>1. whole /\ alone /\ rest # << >> /\ UNCHANGED <<sent, net, ends, spill>>
  BY DEF OnRecvMsg, MoreDataExpected, DataTooLong, NullString, DataCorrupted, AllDataRead,
         Handled, history
<1>2. /\ G \in Nat /\ N \in Nat /\ B \in Nat /\ M \in Nat
      /\ sent \in Seq(Packets) /\ net \in Seq(Nat) /\ buf \in Seq(Nat) /\ rest \in Seq(Nat)
      /\ got \in Seq(Packet)
  BY CountTypes DEF TypeOK
<1>3. /\ ~crashed /\ past = 0 /\ spill = 0 /\ G <= N /\ Len(rest) <= B /\ Len(rest) \in Nat
      /\ \A i \in 1..G : got[i] = sent[i]
      /\ \A j \in 1..N : Legal(sent[j])
  BY <1>1, <1>2, LenProperties DEF CalmInv
<1>4. PICK off : Offsets(off)
  BY <1>1 DEF CalmInv
<1>5. /\ off \in [G..N -> Nat] /\ off[G] = 0 /\ off[N] = B + M /\ Ascending(off, G, N)
      /\ \A j \in G + 1..N : Placed(off, j, B, buf \o net, sent, ends)
      /\ G < N => B <= off[G + 1]
  BY <1>4 DEF Offsets, Laid
<1> DEFINE p == sent[G + 1]
<1>6. /\ G < N /\ G + 1 \in 1..N /\ p \in Packets /\ Legal(p)
      /\ off[G + 1] = Size(p) /\ B <= Size(p) /\ Part(Fields(p), 0, buf) /\ Size(p) \in Nat
  BY <1>1, <1>4, CalmFrame, FieldsJoined
<1> HIDE DEF p
<1>7. /\ Enough => Heads # {} /\ FromHead = buf /\ Behind = 0
      /\ Complete <=> B = Size(p)
      /\ Complete => /\ TailFits /\ MsgLen = B /\ MsgLen = Len(FromHead)
                     /\ Parse(FromHead, ContentLen) = p
  BY <1>6, CalmSearch
<1>8. ~Enough => ~Complete
  BY DEF Complete
<1>9. N' = N /\ M' = M /\ (\A j \in 1..N : Legal(sent[j]))'
  BY <1>1, <1>3 DEF N, M, Legal, Refused
<1>10. CASE MoreDataExpected
  <2>1. ~Complete /\ Handled(buf, << >>) /\ UNCHANGED got
    BY <1>7, <1>8, <1>10 DEF MoreDataExpected, NoHead
  <2>2. buf' = buf /\ rest' = << >> /\ past' = 0 /\ ~crashed'
    BY <1>2, <1>3, <1>7, <2>1, ConcatEmptySeq DEF Handled
  <2>3. B < Size(p)
    BY <1>2, <1>6, <1>7, <2>1
  <2>4. G' = G /\ B' = B
    BY <2>1, <2>2 DEF G, B
  <2>5. Laid(off, G, N, B, M, buf \o net, sent, ends, << >>)
    BY <1>5, <1>6, <2>3 DEF Laid
  <2>6. Laid(off, G', N', B', M', buf' \o net', sent', ends', rest')
    BY <1>1, <1>9, <2>2, <2>4, <2>5, Zenon
  <2>7. Offsets(off)'
    BY <2>6 DEF Offsets
  <2>8. Len(rest') <= B'
    BY <1>2, <2>2, <2>4, EmptySeq
  <2>9. (G <= N /\ \A i \in 1..G : got[i] = sent[i])'
    BY <1>1, <1>3, <1>9, <2>1, <2>4
  <2> QED
    BY <1>1, <1>3, <1>9, <2>2, <2>7, <2>8, <2>9
<1>11. ~DataTooLong /\ ~NullString /\ ~DataCorrupted
  BY <1>7 DEF DataTooLong, NullString, DataCorrupted, NoHead
<1>12. CASE AllDataRead
  <2>1. /\ Complete /\ Enough /\ FromHead = buf /\ B = Size(p) /\ MsgLen = B /\ Behind = 0
        /\ Parse(FromHead, ContentLen) = p
    BY <1>7, <1>8, <1>12 DEF AllDataRead
  <2>2. AfterFirst(FromHead, MsgLen) = << >>
    BY <1>2, <2>1, SubSeqEmpty DEF AfterFirst, B
  <2>3. AfterFirst(rest, MsgLen) = << >>
    <3>1. MsgLen + 1 \in Int /\ Len(rest) \in Int /\ Len(rest) < MsgLen + 1
      BY <1>2, <1>3, <2>1
    <3> QED
      BY <3>1, SubSeqEmpty DEF AfterFirst
  <2>4. got' = Append(got, p) /\ Handled(<< >>, << >>)
    BY <1>12, <2>1, <2>2, <2>3 DEF AllDataRead
  <2>5. buf' = << >> /\ rest' = << >> /\ past' = 0 /\ ~crashed'
    BY <1>3, <2>1, <2>4, ConcatEmptySeq, EmptySeq DEF Handled
  <2>6. /\ G' = G + 1 /\ got'[G + 1] = p /\ (\A i \in 1..G : got'[i] = got[i])
        /\ B' = 0 /\ Len(rest') = 0
    <3>1. p \in Packet
      BY <2>1, CompleteType
    <3> QED
      BY <1>2, <2>4, <2>5, <3>1, AppendProperties, EmptySeq DEF G, B
  <2>7. PICK new : new \in [G + 1..N -> Nat] /\ \A j \in G + 1..N : new[j] = off[j] - B
    <3>1. ASSUME NEW j \in G + 1..N PROVE off[j] - B \in Nat
      <4>1. /\ G + 1 \in G..N /\ j \in G..N /\ G + 1 <= j /\ off[j] \in Nat /\ off[G + 1] \in Nat
        BY <1>2, <1>5, <1>6
      <4>2. off[G + 1] <= off[j]
        BY <1>5, <4>1 DEF Ascending
      <4> QED
        BY <1>2, <1>6, <2>1, <4>1, <4>2
    <3> DEFINE z == [j \in G + 1..N |-> off[j] - B]
    <3>2. z \in [G + 1..N -> Nat] /\ \A j \in G + 1..N : z[j] = off[j] - B
      BY <3>1
    <3> HIDE DEF z
    <3> QED
      BY <3>2
  <2>8. new[G + 1] = 0 /\ new[N] = 0 + M
    <3>1. G + 1 \in G + 1..N /\ N \in G + 1..N
      BY <1>2, <1>6
    <3>2. new[G + 1] = off[G + 1] - B /\ new[N] = off[N] - B
      BY <2>7, <3>1
    <3>3. off[G + 1] = B /\ off[N] = B + M
      BY <1>5, <1>6, <2>1
    <3> QED
      BY <1>2, <3>2, <3>3
  <2>9. Ascending(new, G + 1, N)
    <3> SUFFICES ASSUME NEW i \in G + 1..N, NEW j \in G + 1..N, i <= j PROVE new[i] <= new[j]
      BY DEF Ascending
    <3>1. i \in G..N /\ j \in G..N /\ off[i] \in Nat /\ off[j] \in Nat
      BY <1>2, <1>5
    <3>2. off[i] <= off[j]
      BY <1>5, <3>1 DEF Ascending
    <3>3. new[i] = off[i] - B /\ new[j] = off[j] - B
      BY <2>7, Zenon
    <3>4. \A x, y, b \in Nat : x <= y => x - b <= y - b
      OBVIOUS
    <3>5. B \in Nat
      BY <1>2
    <3>6. off[i] - B <= off[j] - B
      BY <3>1, <3>2, <3>4, <3>5, Zenon
    <3> QED
      BY <3>3, <3>6, Zenon
  <2>10. << >> \o net = net
    BY <1>2, ConcatEmptySeq
  <2>11. ASSUME NEW j \in (G + 1) + 1..N PROVE Placed(new, j, 0, net, sent, ends)
    <3>1. /\ j \in G + 1..N /\ j - 1 \in G + 1..N /\ j \in 1..N
          /\ off[j] \in Nat /\ off[j - 1] \in Nat
      BY <1>2, <1>5
    <3>2. new[j] = off[j] - B /\ new[j - 1] = off[j - 1] - B /\ new[j - 1] \in Nat
      BY <2>7, <3>1
    <3>3. Placed(off, j, B, buf \o net, sent, ends)
      BY <1>5, <3>1
    <3>4. sent[j] \in Packets /\ Size(sent[j]) \in Nat /\ Fields(sent[j]) \in Seq(Nat)
      BY <1>2, <3>1, FieldsJoined, ElementOfSeq DEF N
    <3>5. new[j] = new[j - 1] + Size(sent[j])
      <4>1. off[j] = off[j - 1] + Size(sent[j])
        BY <3>3 DEF Placed
      <4> QED
        BY <1>2, <3>1, <3>2, <3>4, <4>1, SMTT(30)
    <3>6. Part(net, new[j - 1], Fields(sent[j]))
      <4>1. Part(buf \o net, off[j - 1], Fields(sent[j])) /\ off[j - 1] = Len(buf) + new[j - 1]
        BY <1>2, <3>1, <3>2, <3>3 DEF Placed, B
      <4> QED
        BY <1>2, <3>2, <3>4, <4>1, PartOfRest, SMTT(30)
    <3>7. new[j] > 0 => new[j] - 0 \in ends
      BY <1>2, <3>1, <3>2, <3>3 DEF Placed
    <3> QED
      BY <3>5, <3>6, <3>7 DEF Placed
  <2>12. G + 1 < N => 0 < new[(G + 1) + 1]
    <3> SUFFICES ASSUME G + 1 < N PROVE 0 < new[(G + 1) + 1]
      OBVIOUS
    <3>1. (G + 1) + 1 \in (G + 1) + 1..N /\ ((G + 1) + 1) - 1 = G + 1 /\ (G + 1) + 1 \in 1..N
      BY <1>2
    <3>2. sent[(G + 1) + 1] \in Packets
      BY <1>2, <3>1, ElementOfSeq DEF N
    <3>3. Size(sent[(G + 1) + 1]) \in Nat \ {0}
      <4>1. Len(sent[(G + 1) + 1].data) \in Nat
        BY <3>2, PacketType
      <4> QED
        BY <4>1, Sizes DEF Size
    <3>4. new[(G + 1) + 1] = 0 + Size(sent[(G + 1) + 1])
      BY <2>8, <2>11, <3>1 DEF Placed
    <3> QED
      BY <3>3, <3>4
  <2>13. Laid(new, G + 1, N, 0, M, net, sent, ends, << >>)
    <3>1. G + 1 < N => 0 <= new[(G + 1) + 1]
      BY <1>2, <2>7, <2>12
    <3> QED
      BY <2>7, <2>8, <2>9, <2>11, <2>12, <3>1, Zenon DEF Laid
  <2>14. Laid(new, G', N', B', M', buf' \o net', sent', ends', rest')
    <3>1. buf' \o net' = net
      BY <1>1, <2>5, <2>10, Zenon
    <3> QED
      BY <1>1, <1>9, <2>5, <2>6, <2>13, <3>1, Zenon
  <2>15. Offsets(new)'
    BY <2>14 DEF Offsets
  <2>16. (G <= N /\ \A i \in 1..G : got[i] = sent[i])'
    <3>1. G + 1 <= N
      BY <1>2, <1>6
    <3>2. ASSUME NEW i \in 1..G + 1 PROVE got'[i] = sent[i]
      BY <1>2, <1>3, <2>6, <3>2 DEF p
    <3> QED
      BY <1>1, <1>9, <2>6, <3>1, <3>2
  <2> QED
    BY <1>1, <1>3, <1>9, <2>5, <2>6, <2>15, <2>16
<1> QED
  BY <1>10, <1>11, <1>12 DEF OnRecvMsg

(* The calm case gives what CalmExact promises of it.                      *)
LEMMA CalmImplies ==
  ASSUME TypeOK, CalmInv
  PROVE  CalmExact
<1> SUFFICES ASSUME whole, alone
             PROVE  /\ ~crashed /\ past = 0 /\ spill = 0 /\ IsPrefix(got, sent)
                    /\ Quiet => got = sent
  BY DEF CalmExact
<1>1. /\ G \in Nat /\ N \in Nat /\ B \in Nat /\ M \in Nat
      /\ sent \in Seq(Packets) /\ got \in Seq(Packet)
  BY CountTypes DEF TypeOK
<1>2. /\ ~crashed /\ past = 0 /\ spill = 0 /\ G <= N
      /\ \A i \in 1..G : got[i] = sent[i]
  BY DEF CalmInv
<1> DEFINE S == Packets \cup Packet
<1>3. sent \in Seq(S) /\ got \in Seq(S)
  BY <1>1, SeqMonotonic
<1> HIDE DEF S
<1>4. IsPrefix(got, sent)
  <2>1. SubSeq(got, 1, G) = got
    BY <1>1, SubSeqFull DEF G
  <2>2. \A i \in 1..G : sent[i] \in S
    <3>1. \A i \in 1..G : i \in 1..N
      BY <1>1, <1>2
    <3> QED
      BY <1>3, <3>1, ElementOfSeq DEF N
  <2>3. 1 \in Int /\ G \in Int /\ (IF 1 <= G THEN G - 1 + 1 ELSE 0) = G
        /\ \A i \in 1..G : i \in 1..G - 1 + 1 /\ 1 + i - 1 = i
    BY <1>1
  <2>4. /\ SubSeq(sent, 1, G) \in Seq(S)
        /\ Len(SubSeq(sent, 1, G)) = IF 1 <= G THEN G - 1 + 1 ELSE 0
        /\ \A i \in 1..G - 1 + 1 : SubSeq(sent, 1, G)[i] = sent[1 + i - 1]
    BY <2>2, <2>3, SubSeqProperties
  <2>5. got = SubSeq(sent, 1, G)
    <3>1. Len(got) = Len(SubSeq(sent, 1, G))
      BY <2>3, <2>4 DEF G
    <3>2. \A i \in 1..Len(got) : got[i] = SubSeq(sent, 1, G)[i]
      BY <1>2, <2>3, <2>4 DEF G
    <3> QED
      BY <1>3, <2>4, <3>1, <3>2, SeqEqual
  <2> QED
    BY <1>2, <2>1, <2>5 DEF IsPrefix, G, N
<1>5. ASSUME Quiet PROVE got = sent
  <2>1. PICK off : Offsets(off)
    BY DEF CalmInv
  <2>2. rest = << >> /\ M = 0
    BY <1>5, EmptySeq DEF Quiet, M
  <2>3. /\ off \in [G..N -> Nat] /\ off[N] = B + M /\ Ascending(off, G, N)
        /\ G < N => B < off[G + 1]
    BY <2>1, <2>2 DEF Offsets, Laid
  <2>4. ~(G < N)
    <3> SUFFICES ASSUME G < N PROVE FALSE
      OBVIOUS
    <3>1. G + 1 \in G..N /\ N \in G..N /\ G + 1 <= N
      BY <1>1
    <3>2. off[G + 1] <= off[N] /\ off[G + 1] \in Nat
      BY <2>3, <3>1 DEF Ascending
    <3> QED
      BY <1>1, <2>2, <2>3, <3>2
  <2>5. Len(got) = Len(sent)
    BY <1>1, <1>2, <2>4 DEF G, N
  <2> QED
    BY <1>2, <1>3, <2>5, SeqEqual DEF G
<1> QED
  BY <1>2, <1>4, <1>5

(* For every layout and every way a stream of whole frames is cut without  *)
(* joining two of them in one read, MsgQ receives just the packets sent,   *)
(* in order and as soon as they are read, and no buffer is overrun.        *)
THEOREM CalmIsExact == Spec => []CalmExact
<1>1. Init => CalmInv
  <2> SUFFICES ASSUME Init, whole, alone
               PROVE  /\ ~crashed /\ past = 0 /\ spill = 0 /\ Len(rest) <= B
                      /\ G <= N /\ \A i \in 1..G : got[i] = sent[i]
                      /\ \A j \in 1..N : Legal(sent[j])
                      /\ \E off : Offsets(off)
    BY Zenon DEF CalmInv
  <2>1. G = 0 /\ N = 0 /\ B = 0 /\ M = 0 /\ Len(rest) = 0
    BY EmptySeq DEF Init, G, N, B, M
  <2> DEFINE off == [j \in 0..0 |-> 0]
  <2>2. off \in [0..0 -> Nat] /\ off[0] = 0
    OBVIOUS
  <2> HIDE DEF off
  <2>3. Ascending(off, 0, 0)
    BY <2>2 DEF Ascending
  <2>4. Laid(off, 0, 0, 0, 0, buf \o net, sent, ends, rest)
    BY <2>2, <2>3 DEF Laid
  <2>5. Offsets(off)
    BY <2>1, <2>4, Zenon DEF Offsets
  <2> QED
    BY <2>1, <2>5 DEF Init
<1>2. TypeOK /\ TypeOK' /\ CalmInv /\ [Next]_vars => CalmInv'
  <2> SUFFICES ASSUME TypeOK, TypeOK', CalmInv, [Next]_vars PROVE CalmInv'
    OBVIOUS
  <2>1. CASE \E p \in Packets : Send(p) \/ SendLoss(p)
    BY <2>1, SenderStep, CalmWrite
  <2>2. CASE \E k \in 1..SOCKET_MAX_SIZE : Recv(k)
    BY <2>2, CalmRecv
  <2>3. CASE OnRecvMsg
    BY <2>3, CalmRead
  <2>4. CASE UNCHANGED vars
    BY <2>4 DEF vars, receiver, history, CalmInv, Offsets, G, N, B, M, Legal, Refused
  <2> QED
    BY <2>1, <2>2, <2>3, <2>4 DEF Next
<1>3. TypeOK /\ CalmInv => CalmExact
  BY CalmImplies
<1> QED
  BY <1>1, <1>2, <1>3, TypeCorrect, PTL DEF Spec

(* Whatever the layout, and whatever is sent, m_sendTmpBuf is overrun by   *)
(* the type byte DATA_MAX_SIZE leaves out, and by no more.                 *)
THEOREM OneByteTooLong == Spec => []SpillIsTheTypeByte
<1>1. Init => SpillIsTheTypeByte
  BY DEF Init, SpillIsTheTypeByte
<1>2. SpillIsTheTypeByte /\ [Next]_vars => SpillIsTheTypeByte'
  <2> SUFFICES ASSUME SpillIsTheTypeByte, [Next]_vars PROVE SpillIsTheTypeByte'
    OBVIOUS
  <2>1. ASSUME NEW p \in Packets, NEW f \in PackRequest(p), NEW k, Write(p, f, k)
        PROVE  SpillIsTheTypeByte'
    <3>1. spill' = Max({0, Len(f) - SOCKET_MAX_SIZE})
      BY <2>1 DEF Write
    <3> DEFINE n == Len(f)
    <3>2. n \in Nat /\ n <= SOCKET_MAX_SIZE + 1
      BY PackRequestType
    <3> HIDE DEF n
    <3>3. n - SOCKET_MAX_SIZE \in Int /\ n - SOCKET_MAX_SIZE <= 1
      BY <3>2, Sizes
    <3>4. Len(f) = n
      BY DEF n
    <3> QED
      BY <3>1, <3>3, <3>4, MaxWithZero DEF SpillIsTheTypeByte
  <2>2. CASE UNCHANGED spill
    BY <2>2 DEF SpillIsTheTypeByte
  <2>3. CASE \E p \in Packets : Send(p) \/ SendLoss(p)
    BY <2>1, <2>3 DEF Send, SendLoss
  <2>4. CASE \E k \in 1..SOCKET_MAX_SIZE : Recv(k)
    BY <2>2, <2>4 DEF Recv
  <2>5. CASE OnRecvMsg
    BY <2>2, <2>5 DEF OnRecvMsg, MoreDataExpected, DataTooLong, NullString, DataCorrupted,
                      AllDataRead, Handled
  <2> QED
    BY <2>2, <2>3, <2>4, <2>5 DEF Next, vars
<1> QED
  BY <1>1, <1>2, PTL DEF Spec

-----------------------------------------------------------------------------
(* The bytes of the head and the tail *)

Marks(j) == {HEAD[j], Last(TAIL)}

(* The jth byte of the head and the last one of the tail stand nowhere     *)
(* else in a frame.                                                        *)
Marking(j) ==
  /\ j \in 2..Len(HEAD)
  /\ NUL \notin Marks(j) /\ Marks(j) \cap Leftovers = {}
  /\ \A d \in Nat : d < BASE => d \notin Marks(j)
  /\ \A p \in Packets : /\ p.type \notin Marks(j)
                       /\ \A i \in 1..Len(p.data) : p.data[i] \notin Marks(j)

(* What Distinct says, byte by byte                                        *)
LEMMA MarkBytes ==
  ASSUME Distinct
  PROVE  /\ Len(HEAD) \in Nat /\ Len(TAIL) \in Nat \ {0} /\ LEN_WIDTH <= Len(HEAD)
         /\ SEQ_WIDTH + 2 <= Len(HEAD)
         /\ \A i, j \in 1..Len(HEAD) : HEAD[i] = HEAD[j] => i = j
         /\ \A i, j \in 1..Len(TAIL) : TAIL[i] = TAIL[j] => i = j
         /\ \A i \in 1..Len(HEAD), j \in 1..Len(TAIL) : HEAD[i] # TAIL[j]
         /\ \A j \in 1..Len(HEAD) : HEAD[j] \in Nat /\ ~(HEAD[j] < BASE) /\ HEAD[j] # NUL
         /\ \E j : Marking(j)
         /\ \A p \in Packets : ~HasHead(p.data)
<1> DEFINE h == Len(HEAD)
           t == Len(TAIL)
<1>1. h \in Nat /\ t \in Nat \ {0} /\ HEAD \in Seq(Nat) /\ TAIL \in Seq(Nat)
  BY Layout, FramingAssumption
<1>2. /\ LEN_WIDTH <= h /\ SEQ_WIDTH + 2 <= h /\ IsInjective(HEAD) /\ IsInjective(TAIL)
      /\ Range(HEAD) \cap Range(TAIL) = {} /\ (Range(HEAD) \cup Range(TAIL)) \cap 0..BASE - 1 = {}
      /\ NUL \notin Range(HEAD) /\ \A p \in Packets : ~HasHead(p.data)
  BY DEF Distinct
<1>3. DOMAIN HEAD = 1..h /\ DOMAIN TAIL = 1..t
  BY <1>1, LenProperties
<1>4. /\ \A i, j \in 1..h : HEAD[i] = HEAD[j] => i = j
      /\ \A i, j \in 1..t : TAIL[i] = TAIL[j] => i = j
  <2> HIDE DEF h, t
  <2> QED
    BY <1>2, <1>3 DEF IsInjective
<1>5. /\ \A i \in 1..h : HEAD[i] \in Range(HEAD)
      /\ \A j \in 1..t : TAIL[j] \in Range(TAIL)
  BY <1>3 DEF Range
<1>6. \A i \in 1..h, j \in 1..t : HEAD[i] # TAIL[j]
  BY <1>2, <1>5
<1>7. \A j \in 1..h : HEAD[j] \in Nat /\ HEAD[j] \notin 0..BASE - 1 /\ HEAD[j] # NUL
  BY <1>1, <1>2, <1>5, ElementOfSeq
<1>8. \A j \in 1..h : ~(HEAD[j] < BASE)
  BY <1>7, Radix
<1>9. PICK j \in 2..h : /\ Marks(j) \cap ({NUL} \cup Leftovers) = {}
                        /\ \A p \in Packets : Marks(j) \cap (Range(p.data) \cup {p.type}) = {}
  BY DEF Distinct, Marks, Last
<1>10. ASSUME NEW d \in Nat, d < BASE PROVE d \notin Marks(j)
  <2>1. d \in 0..BASE - 1
    BY <1>10, Radix
  <2>2. j \in 1..h /\ t \in 1..t
    BY <1>1
  <2>3. Marks(j) \subseteq Range(HEAD) \cup Range(TAIL)
    BY <1>5, <2>2 DEF Marks, Last
  <2> QED
    BY <1>2, <2>1, <2>3
<1>11. ASSUME NEW p \in Packets
       PROVE  p.type \notin Marks(j) /\ \A i \in 1..Len(p.data) : p.data[i] \notin Marks(j)
  <2>1. DOMAIN p.data = 1..Len(p.data)
    BY PacketType, LenProperties
  <2>2. \A i \in 1..Len(p.data) : p.data[i] \in Range(p.data)
    BY <2>1 DEF Range
  <2> QED
    BY <1>9, <2>2
<1>12. NUL \notin Marks(j) /\ Marks(j) \cap Leftovers = {}
  BY <1>9
<1>13. Marking(j)
  BY <1>9, <1>10, <1>11, <1>12 DEF Marking, h
<1> QED
  BY <1>1, <1>2, <1>4, <1>6, <1>7, <1>8, <1>13 DEF h, t

(* What does not begin with a digit is read as 0.                          *)
LEMMA NoDigits ==
  ASSUME NEW s \in Seq(Nat), Len(s) >= 1, ~(s[1] < BASE)
  PROVE  Strtol(s) = 0
<1>1. DigitsOf(s) \in 0..Len(s) /\ Len(s) \in Nat /\ \A j \in 1..DigitsOf(s) : s[j] < BASE
  BY DigitsOfIs, LenProperties
<1>2. DigitsOf(s) = 0
  <2> DEFINE d == DigitsOf(s)
  <2> HIDE DEF d
  <2>1. d \in Nat /\ \A j \in 1..d : s[j] < BASE
    BY <1>1 DEF d
  <2>2. d = 0
    BY <2>1
  <2> QED
    BY <2>2 DEF d
<1>3. PICK v : Horner(v, s, DigitsOf(s)) /\ Strtol(s) = v[DigitsOf(s)]
  BY StrtolIsHorner
<1> QED
  BY <1>2, <1>3 DEF Horner

(* c is the m bytes of s and behind them the n bytes of u. *)
Joined(c, s, m, u, n) ==
  /\ c \in Seq(Nat) /\ Len(c) = m + n
  /\ \A i \in 1..m : c[i] = s[i]
  /\ \A i \in m + 1..m + n : c[i] = u[i - m]

(* A concatenation, byte by byte                                           *)
LEMMA ConcatBytes ==
  ASSUME NEW s \in Seq(Nat), NEW u \in Seq(Nat)
  PROVE  Joined(s \o u, s, Len(s), u, Len(u))
<1> DEFINE c == s \o u
           m == Len(s)
           n == Len(u)
<1>1. /\ c \in Seq(Nat) /\ Len(c) = m + n /\ m \in Nat /\ n \in Nat
      /\ \A i \in 1..m + n : c[i] = IF i <= m THEN s[i] ELSE u[i - m]
  BY ConcatProperties, LenProperties
<1> HIDE DEF c, m, n
<1>2. \A i \in 1..m : i \in 1..m + n /\ i <= m
  BY <1>1
<1>3. \A i \in m + 1..m + n : i \in 1..m + n /\ ~(i <= m)
  BY <1>1
<1>4. /\ \A i \in 1..m : c[i] = s[i]
      /\ \A i \in m + 1..m + n : c[i] = u[i - m]
  BY <1>1, <1>2, <1>3
<1>5. Joined(c, s, m, u, n)
  BY <1>1, <1>4, Zenon DEF Joined
<1> QED
  BY <1>5 DEF c, m, n

(* The first m bytes of s are the head, and behind it none of Q. *)
HeadOnly(s, m, Q) ==
  /\ \A i \in 1..Len(HEAD) : s[i] = HEAD[i]
  /\ \A i \in Len(HEAD) + 1..m : s[i] \notin Q

(* This stays so when bytes that are not of Q follow.                      *)
LEMMA HeadOnlyConcat ==
  ASSUME NEW Q, NEW s, NEW u, NEW c, NEW m \in Nat, NEW n \in Nat, Joined(c, s, m, u, n),
         Len(HEAD) <= m, HeadOnly(s, m, Q), \A i \in 1..n : u[i] \notin Q
  PROVE  HeadOnly(c, m + n, Q)
<1> DEFINE h == Len(HEAD)
<1>1. /\ h \in Nat /\ h <= m
      /\ \A i \in 1..h : s[i] = HEAD[i]
      /\ \A i \in h + 1..m : s[i] \notin Q
  BY Layout DEF HeadOnly
<1>2. /\ \A i \in 1..m : c[i] = s[i]
      /\ \A i \in m + 1..m + n : c[i] = u[i - m]
  BY DEF Joined
<1> HIDE DEF h
<1>3. \A i \in 1..h : c[i] = HEAD[i]
  BY <1>1, <1>2
<1>4. ASSUME NEW i \in h + 1..m + n PROVE c[i] \notin Q
  <2>1. CASE i \in h + 1..m
    BY <1>1, <1>2, <2>1
  <2>2. CASE i \in m + 1..m + n
    <3>1. i - m \in 1..n
      BY <2>2
    <3> QED
      BY <1>2, <2>2, <3>1
  <2> QED
    BY <1>1, <2>1, <2>2
<1> QED
  BY <1>3, <1>4 DEF HeadOnly, h

(* The fields of a packet, byte by byte: the head, bytes that are not of Q,*)
(* and behind the first z bytes the tail                                   *)
LEMMA FieldBytes ==
  ASSUME NEW p \in Packets, NEW Q, p.type \notin Q, \A d \in Nat : d < BASE => d \notin Q,
         \A i \in 1..Len(p.data) : p.data[i] \notin Q
  PROVE  \E z \in Nat : /\ BODY + Len(p.data) <= z /\ Len(HEAD) <= z
                        /\ z = BODY + Len(p.data) => /\ p.seq < Pow[SEQ_WIDTH]
                                                     /\ Len(p.data) < Pow[LEN_WIDTH]
                        /\ Len(Fields(p)) = z + Len(TAIL) /\ HeadOnly(Fields(p), z, Q)
                        /\ \A o \in z + 1..z + Len(TAIL) : Fields(p)[o] = TAIL[o - z]
<1> DEFINE dS == Digits(p.seq, SEQ_WIDTH)
           dL == Digits(Len(p.data), LEN_WIDTH)
           y == <<p.type>>
           s1 == HEAD \o dS
           s2 == s1 \o y
           s3 == s2 \o dL
           s4 == s3 \o p.data
           s5 == s4 \o TAIL
           h == Len(HEAD)
           t == Len(TAIL)
           l == Len(p.data)
           a == Len(dS)
           b == Len(dL)
           e1 == h + a
           e2 == e1 + 1
           e3 == e2 + b
           z == e3 + l
<1>1. /\ dS \in Seq(Nat) /\ a = IF p.seq < Pow[SEQ_WIDTH] THEN SEQ_WIDTH ELSE SEQ_WIDTH + 1
      /\ dL \in Seq(Nat) /\ b = IF l < Pow[LEN_WIDTH] THEN LEN_WIDTH ELSE LEN_WIDTH + 1
      /\ (\A i \in 1..a : dS[i] < BASE) /\ (\A i \in 1..b : dL[i] < BASE)
      /\ SEQ_WIDTH \in Nat /\ LEN_WIDTH \in Nat
  BY PacketType, Radix, DigitsType
<1>2. y \in Seq(Nat) /\ Len(y) = 1 /\ y[1] = p.type
  BY PacketType
<1>3. p.data \in Seq(Nat) /\ TAIL \in Seq(Nat) /\ HEAD \in Seq(Nat) /\ l \in Nat /\ h \in Nat /\ t \in Nat
  BY PacketType, Layout
<1>4. Fields(p) = s5
  BY DEF Fields
<1> HIDE DEF dS, dL, y
<1>5. a \in Nat /\ b \in Nat
  BY <1>1
<1>6. \A i \in 1..a : dS[i] \notin Q
  <2>1. \A i \in 1..a : dS[i] \in Nat /\ dS[i] < BASE
    BY <1>1, ElementOfSeq
  <2> QED
    BY <2>1
<1>7. \A i \in 1..b : dL[i] \notin Q
  <2>1. \A i \in 1..b : dL[i] \in Nat /\ dL[i] < BASE
    BY <1>1, ElementOfSeq
  <2> QED
    BY <2>1
<1>8. (\A i \in 1..1 : y[i] \notin Q) /\ \A i \in 1..l : p.data[i] \notin Q
  BY <1>2
<1>9. HeadOnly(HEAD, h, Q)
  BY <1>3 DEF HeadOnly
<1>10. Joined(s1, HEAD, h, dS, a)
  BY <1>1, <1>3, ConcatBytes, Zenon
<1>11. s1 \in Seq(Nat) /\ Len(s1) = e1
  BY <1>10 DEF Joined
<1> HIDE DEF s1
<1>12. Joined(s2, s1, e1, y, 1)
  <2>1. Joined(s2, s1, Len(s1), y, Len(y))
    BY <1>2, <1>11, ConcatBytes, Zenon
  <2> QED
    BY <1>2, <1>11, <2>1, Zenon
<1>13. s2 \in Seq(Nat) /\ Len(s2) = e2
  BY <1>12 DEF Joined
<1> HIDE DEF s2
<1>14. Joined(s3, s2, e2, dL, b)
  <2>1. Joined(s3, s2, Len(s2), dL, b)
    BY <1>1, <1>13, ConcatBytes, Zenon
  <2> QED
    BY <1>13, <2>1, Zenon
<1>15. s3 \in Seq(Nat) /\ Len(s3) = e3
  BY <1>14 DEF Joined
<1> HIDE DEF s3
<1>16. Joined(s4, s3, e3, p.data, l)
  <2>1. Joined(s4, s3, Len(s3), p.data, l)
    BY <1>3, <1>15, ConcatBytes, Zenon
  <2> QED
    BY <1>15, <2>1, Zenon
<1>17. s4 \in Seq(Nat) /\ Len(s4) = z
  BY <1>16 DEF Joined
<1> HIDE DEF s4
<1>18. Joined(s5, s4, z, TAIL, t)
  <2>1. Joined(s5, s4, Len(s4), TAIL, t)
    BY <1>3, <1>17, ConcatBytes, Zenon
  <2> QED
    BY <1>17, <2>1, Zenon
<1> HIDE DEF s5
<1>19. /\ e1 \in Nat /\ e2 \in Nat /\ e3 \in Nat /\ z \in Nat
       /\ h <= e1 /\ h <= e2 /\ h <= e3 /\ h <= z /\ h <= h
  <2> HIDE DEF h, a, b, l
  <2> QED
    BY <1>3, <1>5
<1>20. HeadOnly(s4, z, Q)
  <2>1. HeadOnly(s1, h + a, Q)
    BY <1>3, <1>5, <1>6, <1>9, <1>10, <1>19, HeadOnlyConcat, Zenon
  <2> HIDE DEF h, a, b, l
  <2>2. e1 = h + a /\ e2 = e1 + 1 /\ e3 = e2 + b /\ z = e3 + l /\ 1 \in Nat
    OBVIOUS
  <2> HIDE DEF e1, e2, e3, z
  <2>3. HeadOnly(s1, e1, Q)
    BY <2>1, <2>2, Zenon
  <2> USE DEF h
  <2>4. HeadOnly(s2, e1 + 1, Q)
    BY <1>8, <1>12, <1>19, <2>2, <2>3, HeadOnlyConcat, Zenon
  <2>5. HeadOnly(s3, e2 + b, Q)
    <3>1. HeadOnly(s2, e2, Q)
      BY <2>2, <2>4, Zenon
    <3> QED
      BY <1>5, <1>7, <1>14, <1>19, <3>1, HeadOnlyConcat, Zenon
  <2>6. HeadOnly(s4, e3 + l, Q)
    <3>1. HeadOnly(s3, e3, Q)
      BY <2>2, <2>5, Zenon
    <3> QED
      BY <1>3, <1>8, <1>16, <1>19, <3>1, HeadOnlyConcat, Zenon
  <2> QED
    BY <2>2, <2>6, Zenon
<1>21. z = (((h + a) + 1) + b) + l
  OBVIOUS
<1> HIDE DEF e1, e2, e3, z
<1>22. /\ Len(s5) = z + t
       /\ \A i \in 1..z : s5[i] = s4[i]
       /\ \A i \in z + 1..z + t : s5[i] = TAIL[i - z]
  BY <1>18 DEF Joined
<1>23. HeadOnly(s5, z, Q)
  <2>1. (\A i \in 1..h : s4[i] = HEAD[i]) /\ \A i \in h + 1..z : s4[i] \notin Q
    BY <1>20 DEF HeadOnly
  <2>2. (\A i \in 1..h : i \in 1..z) /\ \A i \in h + 1..z : i \in 1..z
    <3> HIDE DEF h
    <3> QED
      BY <1>3, <1>19
  <2>3. (\A i \in 1..h : s5[i] = HEAD[i]) /\ \A i \in h + 1..z : s5[i] \notin Q
    BY <1>22, <2>1, <2>2
  <2> QED
    BY <2>3 DEF HeadOnly
<1> HIDE DEF h, t, l, a, b
<1>24. BODY = ((h + SEQ_WIDTH) + 1) + LEN_WIDTH
  BY Layout DEF h
<1>25. BODY + l <= z /\ (z = BODY + l => a = SEQ_WIDTH /\ b = LEN_WIDTH)
  BY <1>1, <1>3, <1>5, <1>21, <1>24
<1>26. (a = SEQ_WIDTH => p.seq < Pow[SEQ_WIDTH]) /\ (b = LEN_WIDTH => l < Pow[LEN_WIDTH])
  BY <1>1
<1> QED
  BY <1>4, <1>19, <1>22, <1>23, <1>25, <1>26 DEF h, t, l

(* A byte that marks the head tells where in a frame it stands; the last   *)
(* one of the tail ends the frame of a legal packet.                       *)
LEMMA FrameBytes ==
  ASSUME Distinct, NEW j, Marking(j),
         NEW p \in Packets, NEW f \in PackRequest(p), NEW o \in 1..Len(f)
  PROVE  /\ f[o] = HEAD[j] => o = j
         /\ f[o] = TAIL[Len(TAIL)] => o = Len(f) /\ Legal(p)
<1> DEFINE h == Len(HEAD)
           t == Len(TAIL)
           l == Len(p.data)
           Q == Marks(j)
<1>0. /\ j \in 2..h /\ HEAD[j] \in Q /\ TAIL[t] \in Q /\ NUL \notin Q /\ Q \cap Leftovers = {}
      /\ p.type \notin Q /\ (\A d \in Nat : d < BASE => d \notin Q)
      /\ \A i \in 1..l : p.data[i] \notin Q
  BY DEF Marking, Marks, Last
<1>1. /\ h \in Nat /\ t \in Nat \ {0} /\ l \in Nat /\ OVERHEAD = BODY + t /\ BODY \in Nat
      /\ j \in 1..h
  <2>1. /\ h \in Nat /\ t \in Nat \ {0} /\ l \in Nat /\ OVERHEAD = BODY + t /\ BODY \in Nat
    BY Layout, PacketType
  <2> HIDE DEF h
  <2> QED
    BY <1>0, <2>1
<1> HIDE DEF Q
<1>2. CASE Refused(p)
  <2>1. PICK g \in Leftovers : f = [i \in 1..OVERHEAD |-> IF i = 1 THEN NUL ELSE g]
    BY <1>2 DEF PackRequest
  <2>2. o \in 1..OVERHEAD
    <3>1. OVERHEAD \in Nat /\ DOMAIN f = 1..OVERHEAD /\ f \in Seq(Nat)
      BY <2>1, Sizes, PackRequestType
    <3> QED
      BY <3>1, LenProperties
  <2>3. f[o] \notin Q
    BY <1>0, <2>1, <2>2
  <2> QED
    BY <1>0, <2>3
<1>3. CASE ~Refused(p)
  <2>1. f = First(Fields(p), Size(p))
    BY <1>3 DEF PackRequest, Fields, Size
  <2>2. Fields(p) \in Seq(Nat) /\ Size(p) \in Nat /\ Size(p) <= Len(Fields(p)) /\ Size(p) = OVERHEAD + l
    BY FieldsJoined DEF Size
  <2>3. Len(f) = Size(p) /\ f[o] = Fields(p)[o]
    <3>1. Len(f) = Size(p)
      BY <2>1, <2>2, CutType
    <3>2. 1 \in Nat \ {0} /\ Size(p) \in Int /\ o \in 1..Size(p) - 1 + 1 /\ 1 + o - 1 = o
      BY <2>2, <3>1
    <3>3. SubSeq(Fields(p), 1, Size(p))[o] = Fields(p)[1 + o - 1]
      BY <2>2, <3>2, SubSeqType
    <3> QED
      BY <2>1, <3>1, <3>2, <3>3 DEF First
  <2>4. PICK z \in Nat : /\ BODY + l <= z /\ h <= z
                         /\ z = BODY + l => p.seq < Pow[SEQ_WIDTH] /\ l < Pow[LEN_WIDTH]
                         /\ Len(Fields(p)) = z + t /\ HeadOnly(Fields(p), z, Q)
                         /\ \A i \in z + 1..z + t : Fields(p)[i] = TAIL[i - z]
    <3> QED
      BY <1>0, FieldBytes
  <2> DEFINE n == Len(f)
  <2> HIDE DEF h, t, l, n
  <2>5. o \in 1..n /\ n = (BODY + t) + l /\ n <= z + t /\ n \in Nat
    BY <1>1, <2>2, <2>3, <2>4 DEF n
  <2>6. /\ \A i \in 1..h : Fields(p)[i] = HEAD[i]
        /\ \A i \in h + 1..z : Fields(p)[i] \notin Q
    BY <2>4 DEF HeadOnly, h
  <2>7. /\ \A i, k \in 1..h : HEAD[i] = HEAD[k] => i = k
        /\ \A i, k \in 1..t : TAIL[i] = TAIL[k] => i = k
        /\ \A i \in 1..h, k \in 1..t : HEAD[i] # TAIL[k]
    BY MarkBytes DEF h, t
  <2>8. CASE o \in 1..h
    <3>1. f[o] = HEAD[o]
      BY <2>3, <2>6, <2>8
    <3>2. f[o] # TAIL[t]
      BY <1>1, <2>7, <2>8, <3>1
    <3>4. f[o] = HEAD[j] => o = j
      BY <1>1, <2>7, <2>8, <3>1, Zenon
    <3> QED
      BY <3>2, <3>4 DEF h, t
  <2>9. CASE o \in h + 1..z
    <3>1. f[o] \notin Q
      BY <2>3, <2>6, <2>9
    <3>2. f[o] # TAIL[t] /\ f[o] # HEAD[j]
      BY <1>0, <3>1
    <3> QED
      BY <3>2 DEF h, t
  <2>10. CASE o \in z + 1..z + t
    <3>1. o - z \in 1..t /\ t \in 1..t
      BY <1>1, <2>4, <2>10
    <3>2. f[o] = TAIL[o - z]
      BY <2>3, <2>4, <2>10, Zenon
    <3>3. f[o] # HEAD[j]
      <4>1. HEAD[j] # TAIL[o - z]
        BY <1>1, <2>7, <3>1
      <4> QED
        BY <3>2, <4>1
    <3>4. ASSUME f[o] = TAIL[t] PROVE o = n /\ Legal(p)
      <4>1. o - z = t
        BY <2>7, <3>1, <3>4, <3>2
      <4>2. z = BODY + l /\ o = n
        <5>1. t \in Nat /\ BODY \in Nat /\ l \in Nat /\ z \in Nat /\ BODY + l <= z
          BY <1>1, <2>4
        <5>2. o \in Nat /\ o <= n /\ n = (BODY + t) + l /\ n <= z + t
          BY <2>5
        <5> QED
          BY <4>1, <5>1, <5>2
      <4> QED
        BY <1>3, <2>4, <4>2 DEF Legal, l
    <3> QED
      BY <3>3, <3>4 DEF h, t, n
  <2> QED
    BY <1>1, <2>4, <2>5, <2>8, <2>9, <2>10
<1> QED
  BY <1>2, <1>3

(* The bytes of a prefix                                                   *)
LEMMA FirstBytes ==
  ASSUME NEW c \in Seq(Nat), NEW k \in Nat, k <= Len(c)
  PROVE  \A i \in 1..k : First(c, k)[i] = c[i]
<1>1. 1 \in Nat \ {0} /\ k \in Int /\ \A i \in 1..k : i \in 1..k - 1 + 1 /\ 1 + i - 1 = i
  OBVIOUS
<1>2. \A i \in 1..k - 1 + 1 : SubSeq(c, 1, k)[i] = c[1 + i - 1]
  BY <1>1, SubSeqType
<1> QED
  BY <1>1, <1>2 DEF First

(* A frame begins with the head's first byte, or with no byte of the head. *)
LEMMA FirstByte ==
  ASSUME Distinct, NEW p \in Packets, NEW f \in PackRequest(p), NEW j \in 2..Len(HEAD)
  PROVE  f[1] # HEAD[j]
<1> DEFINE h == Len(HEAD)
<1>1. /\ h \in Nat /\ j \in 1..h /\ 1 \in 1..h /\ 1 # j /\ OVERHEAD \in Nat \ {0}
  <2>1. h \in Nat /\ BODY < OVERHEAD /\ BODY \in Nat /\ OVERHEAD \in Nat
    BY Layout, Sizes
  <2> HIDE DEF h
  <2> QED
    BY <2>1 DEF h
<1>2. CASE Refused(p)
  <2>1. PICK g \in Leftovers : f = [i \in 1..OVERHEAD |-> IF i = 1 THEN NUL ELSE g]
    BY <1>2 DEF PackRequest
  <2>2. f[1] = NUL
    BY <1>1, <2>1
  <2> QED
    BY <1>1, <2>2, MarkBytes
<1>3. CASE ~Refused(p)
  <2>1. f = First(Fields(p), Size(p))
    BY <1>3 DEF PackRequest, Fields, Size
  <2>2. Fields(p) \in Seq(Nat) /\ Size(p) \in Nat /\ Size(p) <= Len(Fields(p)) /\ 1 <= Size(p)
    <3>1. Size(p) = OVERHEAD + Len(p.data) /\ Len(p.data) \in Nat
      BY PacketType DEF Size
    <3>2. 1 <= Size(p)
      BY <1>1, <3>1
    <3> QED
      BY <3>2, FieldsJoined
  <2>3. f[1] = Fields(p)[1]
    <3>1. 1 \in 1..Size(p)
      BY <2>2
    <3> QED
      BY <2>1, <2>2, <3>1, FirstBytes
  <2>4. Fields(p)[1] = HEAD[1]
    <3>1. PICK z \in Nat : HeadOnly(Fields(p), z, {})
      BY FieldBytes
    <3> QED
      BY <1>1, <3>1 DEF HeadOnly
  <2> QED
    BY <1>1, <2>3, <2>4, MarkBytes
<1> QED
  BY <1>2, <1>3

(* If no other X is written, X is the first byte of a frame.               *)
LEMMA FirstX ==
  ASSUME Distinct, X \notin Leftovers, NEW p \in Packets, NEW f \in PackRequest(p), NEW o \in 1..Len(f),
         X \notin Range(p.data) \cup {p.type}, f[o] = X
  PROVE  o = 1
<1> DEFINE h == Len(HEAD)
           t == Len(TAIL)
           l == Len(p.data)
<1>1. /\ h \in Nat \ {0} /\ t \in Nat \ {0} /\ l \in Nat /\ OVERHEAD = BODY + t /\ BODY \in Nat
  BY Layout, PacketType
<1>2. CASE Refused(p)
  <2>1. PICK g \in Leftovers : f = [i \in 1..OVERHEAD |-> IF i = 1 THEN NUL ELSE g]
    BY <1>2 DEF PackRequest
  <2>2. o \in 1..OVERHEAD
    <3>1. OVERHEAD \in Nat /\ DOMAIN f = 1..OVERHEAD /\ f \in Seq(Nat)
      BY <2>1, Sizes, PackRequestType
    <3> QED
      BY <3>1, LenProperties
  <2> QED
    BY <2>1, <2>2
<1>3. CASE ~Refused(p)
  <2>1. f = First(Fields(p), Size(p))
    BY <1>3 DEF PackRequest, Fields, Size
  <2>2. Fields(p) \in Seq(Nat) /\ Size(p) \in Nat /\ Size(p) <= Len(Fields(p)) /\ Size(p) = OVERHEAD + l
    BY FieldsJoined DEF Size
  <2>3. Len(f) = Size(p) /\ f[o] = Fields(p)[o]
    <3>1. Len(f) = Size(p)
      BY <2>1, <2>2, CutType
    <3>2. 1 \in Nat \ {0} /\ Size(p) \in Int /\ o \in 1..Size(p) - 1 + 1 /\ 1 + o - 1 = o
      BY <2>2, <3>1
    <3>3. SubSeq(Fields(p), 1, Size(p))[o] = Fields(p)[1 + o - 1]
      BY <2>2, <3>2, SubSeqType
    <3> QED
      BY <2>1, <3>1, <3>2, <3>3 DEF First
  <2>4. PICK z \in Nat : /\ BODY + l <= z /\ h <= z /\ Len(Fields(p)) = z + t
                         /\ HeadOnly(Fields(p), z, {X})
                         /\ \A i \in z + 1..z + t : Fields(p)[i] = TAIL[i - z]
    <3>1. p.type \notin {X}
      OBVIOUS
    <3>2. \A d \in Nat : d < BASE => d \notin {X}
      <4>1. 1 \in 1..Len(HEAD) /\ X = HEAD[1]
        BY <1>1 DEF X
      <4> QED
        BY <4>1, MarkBytes
    <3>3. \A i \in 1..Len(p.data) : p.data[i] \notin {X}
      <4>1. DOMAIN p.data = 1..Len(p.data)
        BY PacketType, LenProperties
      <4> QED
        BY <4>1 DEF Range
    <3> QED
      BY <3>1, <3>2, <3>3, FieldBytes
  <2> DEFINE n == Len(f)
  <2> HIDE DEF h, t, l, n
  <2>5. o \in 1..n /\ n = (BODY + t) + l /\ n <= z + t /\ n \in Nat
    BY <1>1, <2>2, <2>3, <2>4 DEF n
  <2>6. /\ \A i \in 1..h : Fields(p)[i] = HEAD[i]
        /\ \A i \in h + 1..z : Fields(p)[i] # X
    BY <2>4 DEF HeadOnly, h
  <2>7. /\ \A i, j \in 1..h : HEAD[i] = HEAD[j] => i = j
        /\ \A i \in 1..h, j \in 1..t : HEAD[i] # TAIL[j]
        /\ X = HEAD[1] /\ 1 \in 1..h
    BY <1>1, MarkBytes DEF h, t, X
  <2>8. CASE o \in 1..h
    BY <2>3, <2>6, <2>7, <2>8
  <2>9. CASE o \in h + 1..z
    BY <2>3, <2>6, <2>9
  <2>10. CASE o \in z + 1..z + t
    <3>1. o - z \in 1..t /\ f[o] = TAIL[o - z]
      BY <1>1, <2>3, <2>4, <2>10
    <3> QED
      BY <2>7, <3>1
  <2> QED
    BY <1>1, <2>4, <2>5, <2>8, <2>9, <2>10
<1> QED
  BY <1>2, <1>3

(* The frame of a legal packet, where the search looks: head and length,   *)
(* and what is read for the length if it starts a byte too early           *)
LEMMA LegalFrame ==
  ASSUME NEW p \in Packets, Legal(p), NEW f \in PackRequest(p)
  PROVE  /\ f = Fields(p) /\ Len(f) = OVERHEAD + Len(p.data) /\ Len(p.data) \in Nat \ {0}
         /\ \A j \in 1..Len(HEAD) : f[j] = HEAD[j]
         /\ Strtol(SubSeq(f, FIELDS + 1, BODY)) = Len(p.data)
         /\ SubSeq(f, FIELDS, BODY - 1)
              = <<p.type>> \o First(Digits(Len(p.data), LEN_WIDTH), LEN_WIDTH - 1)
<1> DEFINE l == Len(p.data)
           dL == Digits(l, LEN_WIDTH)
           w == LEN_WIDTH
<1>1. f = Fields(p) /\ Len(f) = Size(p) /\ f \in Seq(Nat) /\ Size(p) = OVERHEAD + l /\ l \in Nat
  BY PackRequestType, PacketType DEF Size
<1>2. l \in Nat \ {0}
  BY <1>1 DEF Legal, Refused
<1>3. /\ Part(f, 0, HEAD) /\ Part(f, FIELDS - 1, <<p.type>>) /\ Part(f, FIELDS, dL)
  BY <1>1, FieldsJoined
<1>4. dL \in Seq(Nat) /\ Len(dL) = w /\ w \in Nat \ {0}
  BY <1>1, Radix, DigitsType DEF Legal
<1>5. ASSUME NEW j \in 1..Len(HEAD) PROVE f[j] = HEAD[j]
  <2>1. f[0 + j] = HEAD[j] /\ Len(HEAD) \in Nat
    BY <1>3, Layout DEF Part
  <2>2. 0 + j = j
    BY <2>1
  <2> QED
    BY <2>1, <2>2
<1>6. Strtol(SubSeq(f, FIELDS + 1, BODY)) = l
  <2>1. Part(f, 0, f)
    BY <1>1, LenProperties DEF Part
  <2>2. BODY < Size(p) /\ Len(f) \in Nat
    BY <1>1, <2>1, FrameRead
  <2>3. Len(f) >= BODY
    BY <1>1, <2>2, Sizes
  <2> QED
    BY <1>1, <2>1, <2>3, FrameRead
<1>7. SubSeq(f, FIELDS, BODY - 1) = <<p.type>> \o First(dL, w - 1)
  <2> DEFINE y == <<p.type>>
             u == First(dL, w - 1)
             c == y \o u
             v == SubSeq(f, FIELDS, BODY - 1)
  <2>1. y \in Seq(Nat) /\ Len(y) = 1 /\ y[1] = p.type
    BY PacketType
  <2>2. u \in Seq(Nat) /\ Len(u) = w - 1 /\ \A i \in 1..w - 1 : u[i] = dL[i]
    <3>1. w - 1 \in Nat /\ w - 1 <= Len(dL) /\ w - 1 \in Int
      BY <1>4
    <3>2. u \in Seq(Nat) /\ Len(u) = w - 1
      BY <1>4, <3>1, CutType
    <3>3. \A i \in 1..w - 1 : i \in 1..(w - 1) - 1 + 1 /\ 1 + i - 1 = i
      BY <1>4
    <3>4. 1 \in Nat \ {0}
      OBVIOUS
    <3>5. \A i \in 1..(w - 1) - 1 + 1 : SubSeq(dL, 1, w - 1)[i] = dL[1 + i - 1]
      BY <1>4, <3>1, <3>4, SubSeqType
    <3> QED
      BY <3>2, <3>3, <3>5 DEF First
  <2> HIDE DEF y, u, dL
  <2>3. Joined(c, y, 1, u, w - 1)
    <3>1. Joined(c, y, Len(y), u, Len(u))
      BY <2>1, <2>2, ConcatBytes, Zenon
    <3> QED
      BY <2>1, <2>2, <3>1, Zenon
  <2>4. /\ c \in Seq(Nat) /\ Len(c) = w
        /\ c[1] = p.type /\ \A i \in 2..w : c[i] = dL[i - 1]
    <3>1. /\ c \in Seq(Nat) /\ Len(c) = 1 + (w - 1) /\ \A i \in 1..1 : c[i] = y[i]
          /\ \A i \in 1 + 1..1 + (w - 1) : c[i] = u[i - 1]
      BY <2>3 DEF Joined
    <3>2. 1 + (w - 1) = w /\ 1 + 1 = 2 /\ \A i \in 2..w : i - 1 \in 1..w - 1
      BY <1>4
    <3> QED
      BY <2>1, <2>2, <3>1, <3>2
  <2> HIDE DEF c
  <2>5. /\ FIELDS \in Nat \ {0} /\ BODY - 1 \in Int /\ BODY - 1 <= Len(f) /\ BODY = FIELDS + w
        /\ (BODY - 1) - FIELDS + 1 = w /\ FIELDS <= BODY - 1
    <3>1. OVERHEAD + l \in Nat /\ BODY - 1 <= OVERHEAD + l /\ Len(f) = OVERHEAD + l
      BY <1>1, Sizes
    <3>2. FIELDS \in Nat \ {0} /\ BODY \in Nat /\ BODY = FIELDS + w
      BY Sizes
    <3>3. BODY - 1 \in Int /\ (BODY - 1) - FIELDS + 1 = w /\ FIELDS <= BODY - 1
      BY <1>4, <3>2
    <3>4. BODY - 1 <= Len(f)
      BY <3>1, Zenon
    <3> QED
      BY <3>2, <3>3, <3>4, Zenon
  <2>6. /\ v \in Seq(Nat) /\ Len(v) = w /\ \A i \in 1..w : v[i] = f[FIELDS + i - 1]
    <3>1. /\ v \in Seq(Nat) /\ Len(v) = IF FIELDS <= BODY - 1 THEN (BODY - 1) - FIELDS + 1 ELSE 0
          /\ \A i \in 1..(BODY - 1) - FIELDS + 1 : v[i] = f[FIELDS + i - 1]
      BY <1>1, <2>5, SubSeqType, Zenon
    <3> QED
      BY <2>5, <3>1, Zenon
  <2> HIDE DEF v
  <2>7. ASSUME NEW i \in 1..w PROVE v[i] = c[i]
    <3>1. CASE i = 1
      <4>1. f[(FIELDS - 1) + 1] = y[1]
        <5>1. 1 \in 1..Len(y) /\ Part(f, FIELDS - 1, y)
          BY <1>3, <2>1 DEF y
        <5> QED
          BY <5>1 DEF Part
      <4>2. (FIELDS - 1) + 1 = FIELDS + i - 1
        BY <2>5, <3>1
      <4> QED
        BY <2>1, <2>4, <2>6, <3>1, <4>1, <4>2
    <3>2. CASE i # 1
      <4>1. i \in 2..w /\ i - 1 \in 1..w /\ FIELDS + (i - 1) = FIELDS + i - 1
        BY <1>4, <2>5, <3>2
      <4>2. f[FIELDS + (i - 1)] = dL[i - 1]
        <5>1. i - 1 \in 1..Len(dL) /\ Part(f, FIELDS, dL)
          BY <1>3, <1>4, <4>1 DEF dL
        <5> QED
          BY <5>1 DEF Part
      <4> QED
        BY <2>4, <2>6, <4>1, <4>2
    <3> QED
      BY <3>1, <3>2
  <2>8. v = c
    BY <2>4, <2>6, <2>7, SeqEqual
  <2> QED
    BY <2>8 DEF v, c, y, u
<1> QED
  BY <1>1, <1>2, <1>5, <1>6, <1>7

(* No frame is shorter than one without data.                              *)
LEMMA FrameLength ==
  ASSUME NEW p \in Packets, NEW f \in PackRequest(p)
  PROVE  Len(f) \in Nat /\ OVERHEAD <= Len(f)
<1>1. CASE Refused(p)
  <2>1. PICK g \in Leftovers : f = [i \in 1..OVERHEAD |-> IF i = 1 THEN NUL ELSE g]
    BY <1>1 DEF PackRequest
  <2>2. OVERHEAD \in Nat /\ DOMAIN f = 1..OVERHEAD /\ f \in Seq(Nat)
    BY <2>1, Sizes, PackRequestType
  <2>3. Len(f) = OVERHEAD
    BY <2>2
  <2> QED
    BY <2>2, <2>3
<1>2. CASE ~Refused(p)
  <2>1. f = First(Fields(p), Size(p))
    BY <1>2 DEF PackRequest, Fields, Size
  <2>2. /\ Fields(p) \in Seq(Nat) /\ Size(p) \in Nat /\ Size(p) <= Len(Fields(p))
        /\ Size(p) = OVERHEAD + Len(p.data) /\ Len(p.data) \in Nat /\ OVERHEAD \in Nat
    BY FieldsJoined, PacketType, Sizes DEF Size
  <2>3. Len(f) = Size(p)
    BY <2>1, <2>2, CutType
  <2>4. OVERHEAD <= Size(p)
    BY <2>2
  <2> QED
    BY <2>2, <2>3, <2>4
<1> QED
  BY <1>1, <1>2

-----------------------------------------------------------------------------
(* Where the bytes come from.  Of every write so far: the packet p, its    *)
(* frame f, how many bytes k of it were written, and which of the packets  *)
(* written to the last byte it is, or 0.  Of every byte not dropped yet:   *)
(* the number of its write, and its offset in the frame.                   *)

Frames == [p : Packets, f : Seq(Nat), k : Nat, i : Nat]

(* A write ends at the frame's end, and is one of packets, or is torn. *)
FrameOf(r, packets) ==
  /\ r.f \in PackRequest(r.p) /\ r.k \in 1..Len(r.f) /\ r.k \in TornAt \cup {Len(r.f)}
  /\ r.k = Len(r.f) /\ ~Refused(r.p) => r.i # 0
  /\ r.i # 0 => r.i \in 1..Len(packets) /\ packets[r.i] = r.p

Written(W, packets) ==
  /\ W \in Seq(Frames)
  /\ \A w \in 1..Len(W) : FrameOf(W[w], packets)
  /\ \A v, w \in 1..Len(W) : v < w /\ W[v].i # 0 /\ W[w].i # 0 => W[v].i < W[w].i

(* Byte x is where its label says, and is not followed by another write's  *)
(* before its own ends.                                                    *)
ByteOf(W, num, off, n, bytes, x) ==
  /\ off[x] <= W[num[x]].k /\ bytes[x] = W[num[x]].f[off[x]]
  /\ off[x] = W[num[x]].k \/ (x < n /\ num[x + 1] = num[x])

(* Bytes of one write stand in order, except that some behind the fields   *)
(* may stand there again; a later write stands behind it from its start.   *)
Follows(num, off, x, y) ==
  \/ /\ num[x] = num[y] /\ off[y] <= off[x] + (y - x)
     /\ off[y] <= BODY => off[y] = off[x] + (y - x)
  \/ num[x] < num[y] /\ \E s \in x + 1..y : num[s] = num[y] /\ off[s] = 1

Labelled(W, num, off, n, bytes) ==
  /\ num \in [1..n -> 1..Len(W)] /\ off \in [1..n -> Nat \ {0}]
  /\ \A x \in 1..n : ByteOf(W, num, off, n, bytes, x)
  /\ \A x, y \in 1..n : x < y => Follows(num, off, x, y)

(* The write of a byte                                                     *)
LEMMA WriteOfByte ==
  ASSUME NEW W, NEW packets, Written(W, packets), NEW n \in Nat, NEW num, NEW off, NEW bytes,
         Labelled(W, num, off, n, bytes), NEW x \in 1..n
  PROVE  /\ num[x] \in 1..Len(W) /\ Len(W) \in Nat /\ FrameOf(W[num[x]], packets)
         /\ W[num[x]].p \in Packets /\ W[num[x]].f \in PackRequest(W[num[x]].p)
         /\ off[x] \in 1..Len(W[num[x]].f) /\ off[x] \in Nat \ {0} /\ Len(W[num[x]].f) \in Nat
         /\ bytes[x] = W[num[x]].f[off[x]]
<1> DEFINE r == W[num[x]]
<1>1. /\ num[x] \in 1..Len(W) /\ off[x] \in Nat \ {0} /\ ByteOf(W, num, off, n, bytes, x)
  BY DEF Labelled
<1>2. W \in Seq(Frames) /\ FrameOf(r, packets) /\ Len(W) \in Nat
  BY <1>1, LenProperties DEF Written
<1>3. r \in Frames
  BY <1>1, <1>2, ElementOfSeq
<1>4. r.p \in Packets /\ r.f \in PackRequest(r.p) /\ r.k \in 1..Len(r.f)
  BY <1>2, <1>3 DEF FrameOf, Frames
<1>5. off[x] <= r.k /\ bytes[x] = r.f[off[x]]
  BY <1>1 DEF ByteOf
<1> HIDE DEF r
<1>6. Len(r.f) \in Nat
  BY <1>4, PackRequestType
<1>7. off[x] \in 1..Len(r.f)
  BY <1>1, <1>4, <1>5, <1>6
<1> QED
  BY <1>1, <1>2, <1>4, <1>5, <1>6, <1>7 DEF r

(* Where the head stands, a frame begins.                                  *)
LEMMA HeadOffsets ==
  ASSUME Distinct, NEW W, NEW packets, Written(W, packets),
         NEW n \in Nat, NEW num, NEW off, NEW bytes, Labelled(W, num, off, n, bytes),
         NEW a \in 1..n, a + Len(HEAD) - 1 <= n,
         \A j \in 1..Len(HEAD) : bytes[a + j - 1] = HEAD[j]
  PROVE  \A j \in 1..Len(HEAD) : off[a + j - 1] = j
<1> DEFINE h == Len(HEAD)
<1>1. h \in Nat /\ BODY \in Nat /\ h < BODY
  <2>1. h \in Nat /\ BODY = h + SEQ_WIDTH + 1 + LEN_WIDTH
    BY Layout
  <2> HIDE DEF h
  <2> QED
    BY <2>1, Radix
<1>2. PICK g : Marking(g)
  BY MarkBytes
<1>3. g \in 2..h
  BY <1>2 DEF Marking
<1>4. /\ \A x \in 1..n : /\ W[num[x]].p \in Packets /\ W[num[x]].f \in PackRequest(W[num[x]].p)
                          /\ off[x] \in 1..Len(W[num[x]].f) /\ off[x] \in Nat
                          /\ bytes[x] = W[num[x]].f[off[x]] /\ num[x] \in 1..Len(W)
      /\ \A x, y \in 1..n : x < y => Follows(num, off, x, y)
  <2>1. \A x, y \in 1..n : x < y => Follows(num, off, x, y)
    BY DEF Labelled
  <2> SUFFICES ASSUME NEW x \in 1..n
               PROVE  /\ W[num[x]].p \in Packets /\ W[num[x]].f \in PackRequest(W[num[x]].p)
                      /\ off[x] \in 1..Len(W[num[x]].f) /\ off[x] \in Nat
                      /\ bytes[x] = W[num[x]].f[off[x]] /\ num[x] \in 1..Len(W)
    BY <2>1
  <2> QED
    BY WriteOfByte
<1> DEFINE y == a + g - 1
<1> HIDE DEF h
<1>5. y \in 1..n /\ g \in 1..h /\ y \in Nat /\ a \in Nat /\ g \in Nat
  BY <1>1, <1>3 DEF h
<1>6. bytes[y] = HEAD[g]
  BY <1>5 DEF h
<1> HIDE DEF y
<1>7. off[y] = g
  <2> DEFINE r == W[num[y]]
  <2>1. r.p \in Packets /\ r.f \in PackRequest(r.p) /\ off[y] \in 1..Len(r.f) /\ bytes[y] = r.f[off[y]]
    BY <1>4, <1>5
  <2> HIDE DEF r
  <2>2. r.f[off[y]] = HEAD[g] => off[y] = g
    BY <1>2, <2>1, FrameBytes
  <2> QED
    BY <1>6, <2>1, <2>2
<1>8. ASSUME NEW j \in 1..h PROVE off[a + j - 1] = j
  <2> DEFINE x == a + j - 1
  <2>1. x \in 1..n /\ y = x + (g - j) /\ j \in Nat
    BY <1>1, <1>5 DEF h, y
  <2>2. bytes[x] = HEAD[j]
    BY DEF h
  <2> HIDE DEF x
  <2>3. off[x] \in Nat /\ off[y] \in Nat
    BY <1>4, <1>5, <2>1
  <2>4. CASE j = g
    <3>1. x = y
      BY <1>5, <2>1, <2>4
    <3> QED
      BY <1>7, <2>4, <3>1 DEF x
  <2>5. CASE j < g
    <3>1. x < y /\ y - x = g - j /\ g <= BODY
      BY <1>1, <1>5, <2>1, <2>5
    <3>2. Follows(num, off, x, y)
      BY <1>4, <1>5, <2>1, <3>1
    <3>3. CASE num[x] = num[y]
      <4>1. ~(num[x] < num[y])
        <5>1. num[x] \in Int /\ num[y] \in Int
          BY <1>4, <1>5, <2>1
        <5> QED
          BY <3>3, <5>1
      <4>2. off[y] = off[x] + (y - x)
        BY <1>7, <3>1, <3>2, <4>1 DEF Follows
      <4>3. off[x] = j
        BY <1>5, <1>7, <2>1, <2>3, <3>1, <4>2
      <4> QED
        BY <4>3 DEF x
    <3>4. CASE num[x] # num[y]
      <4>1. PICK s \in x + 1..y : num[s] = num[y] /\ off[s] = 1
        BY <3>2, <3>4 DEF Follows
      <4>2. s \in 1..n /\ s \in Nat /\ ~(num[s] < num[y])
        <5>1. s \in 1..n /\ s \in Nat
          BY <1>5, <2>1, <4>1
        <5>2. num[s] \in Int /\ num[y] \in Int
          BY <1>4, <1>5, <5>1
        <5> QED
          BY <4>1, <5>1, <5>2
      <4>3. off[y] = 1 + (y - s)
        <5>1. CASE s = y
          BY <1>5, <4>1, <5>1
        <5>2. CASE s < y
          <6>1. Follows(num, off, s, y)
            BY <1>4, <1>5, <4>2, <5>2
          <6> QED
            BY <1>7, <3>1, <4>1, <4>2, <6>1 DEF Follows
        <5> QED
          BY <1>5, <4>1, <4>2, <5>1, <5>2
      <4>4. s = a
        BY <1>5, <1>7, <4>2, <4>3, SMTT(30) DEF y
      <4> QED
        BY <1>5, <2>1, <4>1, <4>4 DEF x
    <3> QED
      BY <3>3, <3>4
  <2>6. CASE g < j
    <3>1. y < x /\ x - y = j - g /\ j <= BODY
      BY <1>1, <1>5, <2>1, <2>6
    <3>2. Follows(num, off, y, x)
      BY <1>4, <1>5, <2>1, <3>1
    <3>3. ASSUME num[x] # num[y] PROVE FALSE
      <4>1. PICK s \in y + 1..x : num[s] = num[x] /\ off[s] = 1
        BY <3>2, <3>3 DEF Follows
      <4> DEFINE i == s - a + 1
      <4>2. s \in 1..n /\ i \in 2..h /\ a + i - 1 = s /\ i \in 1..h
        BY <1>1, <1>3, <1>5, <2>1, <4>1 DEF x, y
      <4> HIDE DEF i
      <4>3. bytes[s] = HEAD[i]
        BY <4>2 DEF h
      <4> DEFINE r == W[num[s]]
      <4>4. r.p \in Packets /\ r.f \in PackRequest(r.p) /\ bytes[s] = r.f[1]
        BY <1>4, <4>1, <4>2
      <4> HIDE DEF r
      <4>5. r.f[1] # HEAD[i]
        BY <4>2, <4>4, FirstByte DEF h
      <4> QED
        BY <4>3, <4>4, <4>5
    <3>4. off[x] <= off[y] + (x - y) /\ (off[x] <= BODY => off[x] = off[y] + (x - y))
      <4>1. num[x] = num[y] /\ num[x] \in Int /\ num[y] \in Int
        BY <1>4, <1>5, <2>1, <3>3
      <4>2. ~(num[y] < num[x])
        BY <4>1
      <4> QED
        BY <3>2, <4>2 DEF Follows
    <3>5. off[x] = j
      BY <1>5, <1>7, <1>1, <2>1, <2>3, <3>1, <3>4, SMTT(30)
    <3> QED
      BY <3>5 DEF x
  <2> QED
    BY <1>5, <2>1, <2>4, <2>5, <2>6
<1> QED
  BY <1>8 DEF h

(* Where the tail's last byte stands, a whole legal frame ends.            *)
LEMMA TailOffset ==
  ASSUME Distinct, NEW W, NEW packets, Written(W, packets),
         NEW n \in Nat, NEW num, NEW off, NEW bytes, Labelled(W, num, off, n, bytes),
         NEW e \in 1..n, bytes[e] = TAIL[Len(TAIL)]
  PROVE  /\ Legal(W[num[e]].p) /\ W[num[e]].p \in Packets /\ W[num[e]].f \in PackRequest(W[num[e]].p)
         /\ off[e] = Len(W[num[e]].f) /\ W[num[e]].k = Len(W[num[e]].f) /\ W[num[e]].i # 0
<1> DEFINE r == W[num[e]]
<1>1. /\ r.p \in Packets /\ r.f \in PackRequest(r.p) /\ off[e] \in 1..Len(r.f)
      /\ bytes[e] = r.f[off[e]] /\ Len(r.f) \in Nat /\ FrameOf(r, packets)
  BY WriteOfByte
<1>2. off[e] = Len(r.f) /\ Legal(r.p)
  <2>1. PICK g : Marking(g)
    BY MarkBytes
  <2> HIDE DEF r
  <2> QED
    BY <1>1, <2>1, FrameBytes
<1>3. off[e] <= r.k /\ r.k \in 1..Len(r.f) /\ (r.k = Len(r.f) /\ ~Refused(r.p) => r.i # 0)
  BY <1>1 DEF Labelled, ByteOf, FrameOf
<1>4. ~Refused(r.p)
  BY <1>2 DEF Legal
<1> DEFINE l == Len(r.f)
<1> HIDE DEF r, l
<1>5. l \in Nat /\ l <= r.k /\ r.k \in 1..l
  BY <1>1, <1>2, <1>3 DEF l
<1>6. r.k = l
  BY <1>5
<1> QED
  BY <1>1, <1>2, <1>3, <1>4, <1>6 DEF l, r

(* Between the start s of a write and a later byte e of it *)
Spanned(num, off, s, e) ==
  \A x \in s..e : /\ num[x] = num[e] /\ off[x] \in Nat /\ off[x] <= (x - s) + 1
                  /\ (x - s) + 1 <= BODY => off[x] = (x - s) + 1
                  /\ off[e] <= off[x] + (e - x)

(* The labels are the offsets, unless bytes stand there again.             *)
LEMMA FrameSpan ==
  ASSUME NEW W, NEW n \in Nat, NEW num, NEW off, NEW bytes, Labelled(W, num, off, n, bytes),
         NEW s \in 1..n, NEW e \in s..n, num[s] = num[e], off[s] = 1, Len(W) \in Nat
  PROVE  Spanned(num, off, s, e)
<1> SUFFICES ASSUME NEW x \in s..e
             PROVE  /\ num[x] = num[e] /\ off[x] \in Nat /\ off[x] <= (x - s) + 1
                    /\ (x - s) + 1 <= BODY => off[x] = (x - s) + 1
                    /\ off[e] <= off[x] + (e - x)
  BY DEF Spanned
<1>1. /\ x \in 1..n /\ e \in 1..n /\ off[x] \in Nat /\ off[e] \in Nat /\ BODY \in Nat
      /\ num[x] \in Nat /\ num[s] \in Nat /\ num[e] \in Nat
  <2>1. /\ x \in 1..n /\ e \in 1..n
    OBVIOUS
  <2>2. 1..Len(W) \subseteq Nat
    OBVIOUS
  <2> QED
    BY <2>1, <2>2, Sizes DEF Labelled
<1>2. /\ s < x => Follows(num, off, s, x)
      /\ x < e => Follows(num, off, x, e)
  BY <1>1 DEF Labelled
<1>3. num[x] = num[e]
  <2>1. CASE x = s \/ x = e
    BY <2>1
  <2>2. CASE s < x /\ x < e
    <3>1. num[s] <= num[x] /\ num[x] <= num[e]
      BY <1>1, <1>2, <2>2 DEF Follows
    <3> QED
      BY <1>1, <3>1
  <2> QED
    BY <1>1, <2>1, <2>2
<1>4. /\ off[x] <= (x - s) + 1
      /\ (x - s) + 1 <= BODY => off[x] = (x - s) + 1
  <2>1. CASE x = s
    BY <2>1
  <2>2. CASE s < x
    <3>1. off[x] <= 1 + (x - s) /\ (off[x] <= BODY => off[x] = 1 + (x - s))
      BY <1>1, <1>2, <1>3, <2>2 DEF Follows
    <3> QED
      BY <1>1, <3>1
  <2> QED
    BY <2>1, <2>2
<1>5. off[e] <= off[x] + (e - x)
  <2>1. CASE x = e
    BY <1>1, <2>1
  <2>2. CASE x < e
    BY <1>1, <1>2, <1>3, <2>2 DEF Follows
  <2> QED
    BY <1>1, <2>1, <2>2
<1> QED
  BY <1>1, <1>3, <1>4, <1>5

(* The bytes of what is behind it                                          *)
LEMMA RestBytes ==
  ASSUME NEW c \in Seq(Nat), NEW n \in Nat, Len(c) = n, NEW k \in 0..n
  PROVE  \A x \in 1..n - k : AfterFirst(c, k)[x] = c[k + x]
<1>1. /\ k + 1 \in Nat \ {0} /\ n \in Int /\ n <= Len(c)
      /\ \A x \in 1..n - k : x \in 1..n - (k + 1) + 1 /\ (k + 1) + x - 1 = k + x
  OBVIOUS
<1>2. \A x \in 1..n - (k + 1) + 1 : SubSeq(c, k + 1, n)[x] = c[(k + 1) + x - 1]
  BY <1>1, SubSeqType
<1>3. AfterFirst(c, k) = SubSeq(c, k + 1, n)
  BY DEF AfterFirst
<1> QED
  BY <1>1, <1>2, <1>3

(* A piece of a string, and the same piece of a prefix of it               *)
LEMMA PrefixSubSeq ==
  ASSUME NEW c \in Seq(Nat), NEW k \in Nat, k <= Len(c), NEW m \in Nat \ {0}, NEW n \in Int, n <= k
  PROVE  SubSeq(First(c, k), m, n) = SubSeq(c, m, n)
<1> DEFINE b == First(c, k)
           u == SubSeq(b, m, n)
           v == SubSeq(c, m, n)
<1>1. b \in Seq(Nat) /\ Len(b) = k
  BY CutType
<1>2. \A i \in 1..k : b[i] = c[i]
  <2>1. 1 \in Nat \ {0} /\ k \in Int /\ \A i \in 1..k : i \in 1..k - 1 + 1 /\ 1 + i - 1 = i
    OBVIOUS
  <2>2. \A i \in 1..k - 1 + 1 : SubSeq(c, 1, k)[i] = c[1 + i - 1]
    BY <2>1, SubSeqType
  <2> QED
    BY <2>1, <2>2 DEF First
<1>3. n <= Len(c)
  <2> DEFINE z == Len(c)
  <2>1. z \in Nat /\ k <= z
    BY LenProperties
  <2> HIDE DEF z
  <2>2. n <= z
    BY <2>1
  <2> QED
    BY <2>2 DEF z
<1> HIDE DEF b
<1> DEFINE q == IF m <= n THEN n - m + 1 ELSE 0
<1>4. /\ u \in Seq(Nat) /\ Len(u) = q
      /\ \A i \in 1..n - m + 1 : u[i] = b[m + i - 1]
  BY <1>1, SubSeqType
<1>5. /\ v \in Seq(Nat) /\ Len(v) = q
      /\ \A i \in 1..n - m + 1 : v[i] = c[m + i - 1]
  BY <1>3, SubSeqType
<1> HIDE DEF u, v
<1>6. ASSUME NEW i \in 1..q PROVE u[i] = v[i]
  <2>1. i \in 1..n - m + 1 /\ m + i - 1 \in 1..k
    OBVIOUS
  <2> QED
    BY <1>2, <1>4, <1>5, <2>1
<1> HIDE DEF q
<1>7. u = v
  BY <1>4, <1>5, <1>6, SeqEqual
<1> QED
  BY <1>7 DEF u, v, b

(* Strings with the same bytes have the same pieces.                       *)
LEMMA SamePiece ==
  ASSUME NEW c \in Seq(Nat), NEW f \in Seq(Nat), NEW m \in Nat \ {0}, NEW n \in Int,
         n <= Len(c), n <= Len(f), \A i \in 1..n : c[i] = f[i]
  PROVE  SubSeq(c, m, n) = SubSeq(f, m, n)
<1> DEFINE u == SubSeq(c, m, n)
           v == SubSeq(f, m, n)
           q == IF m <= n THEN n - m + 1 ELSE 0
<1>1. u \in Seq(Nat) /\ Len(u) = q /\ \A i \in 1..n - m + 1 : u[i] = c[m + i - 1]
  BY SubSeqType
<1>2. v \in Seq(Nat) /\ Len(v) = q /\ \A i \in 1..n - m + 1 : v[i] = f[m + i - 1]
  BY SubSeqType
<1> HIDE DEF u, v
<1>3. ASSUME NEW i \in 1..q PROVE u[i] = v[i]
  <2>1. i \in 1..n - m + 1 /\ m + i - 1 \in 1..n
    OBVIOUS
  <2> QED
    BY <1>1, <1>2, <2>1
<1> HIDE DEF q
<1>4. u = v
  BY <1>1, <1>2, <1>3, SeqEqual
<1> QED
  BY <1>4 DEF u, v

(* A string that begins with the frame of a legal packet is parsed as it.  *)
LEMMA ParseOfFrame ==
  ASSUME NEW p \in Packets, Legal(p), NEW c \in Seq(Nat), NEW l, l = Len(p.data), OVERHEAD + l <= Len(c),
         \A i \in 1..OVERHEAD + l : c[i] = Fields(p)[i]
  PROVE  Parse(c, l) = p
<1> DEFINE k == OVERHEAD + l
           b == First(c, k)
<1>1. l \in Nat /\ k \in Nat /\ k <= Len(c) /\ k = Size(p) /\ Len(Fields(p)) = k
  BY PacketType, Sizes, FieldsJoined DEF Size
<1>2. b \in Seq(Nat) /\ Len(b) = k
  BY <1>1, CutType
<1>3. \A i \in 1..k : b[i] = c[i]
  <2> HIDE DEF k
  <2>1. 1 \in Nat \ {0} /\ k \in Int /\ \A i \in 1..k : i \in 1..k - 1 + 1 /\ 1 + i - 1 = i
    BY <1>1
  <2>2. \A i \in 1..k - 1 + 1 : SubSeq(c, 1, k)[i] = c[1 + i - 1]
    BY <1>1, <2>1, SubSeqType
  <2> QED
    BY <2>1, <2>2 DEF First
<1>4. \A i \in 1..k : c[i] = Fields(p)[i]
  OBVIOUS
<1> HIDE DEF k
<1>5. Part(Fields(p), 0, b)
  <2>1. 0 + k = k /\ \A i \in 1..k : 0 + i = i
    BY <1>1
  <2>2. 0 + Len(b) <= Len(Fields(p))
    BY <1>1, <1>2, <2>1
  <2>3. ASSUME NEW i \in 1..Len(b) PROVE Fields(p)[0 + i] = b[i]
    <3>1. i \in 1..k /\ 0 + i = i
      BY <1>2, <2>1
    <3> QED
      BY <1>3, <1>4, <3>1
  <2> QED
    BY <2>2, <2>3 DEF Part
<1>6. Parse(b, l) = p
  BY <1>1, <1>2, <1>5, FrameRead
<1>7. Parse(b, l) = Parse(c, l)
  <2>1. /\ Len(HEAD) + 1 \in Nat \ {0} /\ BODY + 1 \in Nat \ {0} /\ FIELDS - 1 \in Int
        /\ FIELDS - 1 <= k /\ BODY + l \in Int /\ BODY + l <= k /\ FIELDS \in 1..k
    <3>1. Len(HEAD) + 1 \in Nat \ {0}
      <4> DEFINE h == Len(HEAD)
      <4>1. h \in Nat
        BY Layout
      <4> HIDE DEF h
      <4>2. h + 1 \in Nat \ {0}
        BY <4>1
      <4> QED
        BY <4>2 DEF h
    <3>2. k = OVERHEAD + l /\ l \in Nat
      BY <1>1 DEF k
    <3>3. /\ BODY + 1 \in Nat \ {0} /\ FIELDS - 1 \in Int
          /\ FIELDS - 1 <= k /\ BODY + l \in Int /\ BODY + l <= k /\ FIELDS \in 1..k
      <4> HIDE DEF k
      <4>1. /\ OVERHEAD \in Nat /\ FIELDS \in Nat \ {0} /\ BODY \in Nat
            /\ FIELDS < BODY /\ BODY < OVERHEAD
        BY Sizes
      <4> DEFINE y == l
      <4>2. k = OVERHEAD + y /\ y \in Nat
        BY <3>2
      <4> HIDE DEF y
      <4>3. /\ BODY + 1 \in Nat \ {0} /\ FIELDS - 1 \in Int
            /\ FIELDS - 1 <= k /\ BODY + y \in Int /\ BODY + y <= k /\ FIELDS \in 1..k
        BY <4>1, <4>2
      <4> QED
        BY <4>3 DEF y
    <3> QED
      BY <3>1, <3>3
  <2>2. SubSeq(b, Len(HEAD) + 1, FIELDS - 1) = SubSeq(c, Len(HEAD) + 1, FIELDS - 1)
    BY <1>1, <2>1, PrefixSubSeq
  <2>3. SubSeq(b, BODY + 1, BODY + l) = SubSeq(c, BODY + 1, BODY + l)
    BY <1>1, <2>1, PrefixSubSeq
  <2>4. b[FIELDS] = c[FIELDS]
    BY <1>3, <2>1
  <2> QED
    BY <2>2, <2>3, <2>4 DEF Parse
<1> QED
  BY <1>6, <1>7

(* The head, or its end, at place i of data                                *)
LEMMA HasHeadAt ==
  ASSUME NEW d \in Seq(Nat), NEW j \in 1..LEN_WIDTH, NEW i \in Nat \ {0}, j # 1 => i = 1,
         NEW v \in Nat, Len(d) = v, NEW h \in Nat \ {0}, h = Len(HEAD), j <= h, i + h - j <= v,
         \A q \in j..h : d[i + q - j] = HEAD[q]
  PROVE  HasHead(d)
<1> DEFINE a == SubSeq(d, i, i + h - j)
           b == SubSeq(HEAD, j, h)
<1>0. j \in Nat \ {0} /\ LEN_WIDTH \in Nat
  BY Radix
<1>1. i \in 1..IF j = 1 THEN v ELSE 1
  BY <1>0
<1>2. HEAD \in Seq(Nat)
  BY Layout
<1>3. /\ i + h - j \in Int /\ i <= i + h - j /\ (i + h - j) - i + 1 = h - j + 1
  BY <1>0
<1>4. /\ a \in Seq(Nat) /\ Len(a) = IF i <= i + h - j THEN (i + h - j) - i + 1 ELSE 0
      /\ \A x \in 1..(i + h - j) - i + 1 : a[x] = d[i + x - 1]
  <2>1. i + h - j <= Len(d)
    OBVIOUS
  <2> QED
    BY <1>3, <2>1, SubSeqType
<1>5. /\ b \in Seq(Nat) /\ Len(b) = IF j <= h THEN h - j + 1 ELSE 0
      /\ \A x \in 1..h - j + 1 : b[x] = HEAD[j + x - 1]
  <2>1. h <= Len(HEAD) /\ h \in Int
    OBVIOUS
  <2> QED
    BY <1>0, <1>2, <2>1, SubSeqType
<1> HIDE DEF a, b
<1>6. Len(a) = h - j + 1 /\ Len(b) = h - j + 1
  BY <1>3, <1>4, <1>5
<1>7. ASSUME NEW x \in 1..h - j + 1 PROVE a[x] = b[x]
  <2>1. j + x - 1 \in j..h /\ i + (j + x - 1) - j = i + x - 1
    BY <1>0
  <2>2. d[i + x - 1] = HEAD[j + x - 1]
    BY <2>1
  <2> QED
    BY <1>3, <1>4, <1>5, <2>2
<1>8. a = b
  BY <1>4, <1>5, <1>6, <1>7, SeqEqual, ZenonT(30)
<1> QED
  BY <1>1, <1>8 DEF HasHead, a, b

-----------------------------------------------------------------------------
(* What HandleChunkedRead takes for a packet *)

(* At place m begins what is read as a frame with val bytes of data, which *)
(* are the first bytes of c.                                               *)
Message(bytes, n, c, m, val) ==
  /\ m \in 1..n /\ val \in Nat /\ m + OVERHEAD + val - 1 <= n
  /\ bytes[m] = X
  /\ \E a \in {m, m + 1} : /\ a + Len(HEAD) - 1 <= n
                           /\ \A j \in 1..Len(HEAD) : bytes[a + j - 1] = HEAD[j]
  /\ bytes[m + OVERHEAD + val - 1] = TAIL[Len(TAIL)]
  /\ c \in Seq(Nat) /\ OVERHEAD + val <= Len(c)
  /\ \A i \in 1..OVERHEAD + val : c[i] = bytes[m + i - 1]
  /\ val = Strtol(SubSeq(c, FIELDS + 1, BODY))

(* At place s begins the write of byte e, at the first byte read, at the   *)
(* next one, or behind the head.                                           *)
Begins(W, num, off, m, e, val, s) ==
  /\ s \in m..e /\ off[s] = 1 /\ num[s] = num[e]
  /\ s = m \/ s = m + 1 \/ m + Len(HEAD) <= s
  /\ OVERHEAD + Len(W[num[e]].p.data) + (s - m) <= OVERHEAD + val
  /\ Spanned(num, off, s, e)

(* The last byte read ends a whole frame, which began after the first one. *)
LEMMA MessageSpan ==
  ASSUME Distinct, NEW W, NEW packets, Written(W, packets),
         NEW n \in Nat, NEW num, NEW off, NEW bytes, Labelled(W, num, off, n, bytes),
         NEW c, NEW m, NEW val, Message(bytes, n, c, m, val), NEW e, e = m + OVERHEAD + val - 1
  PROVE  /\ e \in 1..n /\ m \in 1..n /\ val \in Nat /\ m < e /\ e - m = OVERHEAD + val - 1
         /\ Legal(W[num[e]].p) /\ W[num[e]].p \in Packets /\ W[num[e]].f \in PackRequest(W[num[e]].p)
         /\ off[e] = OVERHEAD + Len(W[num[e]].p.data) /\ Len(W[num[e]].p.data) \in Nat \ {0}
         /\ off[e] = W[num[e]].k /\ W[num[e]].i # 0
         /\ \E s : Begins(W, num, off, m, e, val, s)
<1> DEFINE h == Len(HEAD)
           r == W[num[e]]
           l == Len(r.p.data)
<1>1. /\ h \in Nat /\ 3 <= h /\ BODY \in Nat /\ h < BODY /\ OVERHEAD \in Nat /\ BODY < OVERHEAD
  <2>1. h \in Nat /\ SEQ_WIDTH + 2 <= h /\ SEQ_WIDTH \in Nat \ {0}
    BY MarkBytes, Radix
  <2>2. BODY = h + SEQ_WIDTH + 1 + LEN_WIDTH /\ LEN_WIDTH \in Nat
    BY Layout, Radix
  <2>3. OVERHEAD \in Nat /\ BODY < OVERHEAD
    BY Sizes
  <2> HIDE DEF h
  <2> QED
    BY <2>1, <2>2, <2>3
<1>2. /\ m \in 1..n /\ val \in Nat /\ e <= n /\ bytes[e] = TAIL[Len(TAIL)]
      /\ \E a \in {m, m + 1} : /\ a + h - 1 <= n
                               /\ \A j \in 1..h : bytes[a + j - 1] = HEAD[j]
  BY DEF Message
<1>3. PICK a \in {m, m + 1} : a + h - 1 <= n /\ \A j \in 1..h : bytes[a + j - 1] = HEAD[j]
  BY <1>2
<1>4. e \in 1..n /\ m < e /\ a < e /\ a \in 1..n /\ e - m = OVERHEAD + val - 1
  <2> HIDE DEF h
  <2> QED
    BY <1>1, <1>2, <1>3
<1>5. \A j \in 1..h : off[a + j - 1] = j
  BY <1>3, <1>4, HeadOffsets
<1>6. /\ Legal(r.p) /\ r.p \in Packets /\ r.f \in PackRequest(r.p)
      /\ off[e] = Len(r.f) /\ r.k = Len(r.f) /\ r.i # 0
  BY <1>2, <1>4, TailOffset, SMTT(30)
<1>7. Len(r.f) = OVERHEAD + l /\ l \in Nat \ {0}
  BY <1>6, LegalFrame
<1> HIDE DEF h, l, r
<1>8. off[a] = 1
  <2>1. 1 \in 1..h /\ a + 1 - 1 = a
    BY <1>1, <1>4
  <2> QED
    BY <1>5, <2>1
<1>9. \E s \in a..e : off[s] = 1 /\ num[s] = num[e] /\ (s = a \/ a + h <= s)
  <2>1. Follows(num, off, a, e)
    BY <1>4 DEF Labelled
  <2>2. CASE num[a] = num[e]
    <3>1. a \in a..e
      BY <1>4
    <3> QED
      BY <1>8, <2>2, <3>1
  <2>3. CASE num[a] # num[e]
    <3>1. PICK s \in a + 1..e : num[s] = num[e] /\ off[s] = 1
      BY <2>1, <2>3 DEF Follows
    <3>2. ASSUME s < a + h PROVE FALSE
      <4>1. s - a + 1 \in 1..h /\ a + (s - a + 1) - 1 = s /\ s - a + 1 # 1
        BY <1>1, <1>4, <3>1, <3>2
      <4> QED
        BY <1>5, <3>1, <4>1
    <3>3. s \in a..e /\ a + h <= s
      BY <1>1, <1>4, <3>1, <3>2
    <3> QED
      BY <3>1, <3>3
  <2> QED
    BY <2>2, <2>3
<1>10. PICK s \in a..e : off[s] = 1 /\ num[s] = num[e] /\ (s = a \/ a + h <= s)
  BY <1>9
<1>11. s \in 1..n /\ e \in s..n /\ s \in s..e /\ s \in m..e
  BY <1>2, <1>3, <1>4, <1>10
<1>12. Spanned(num, off, s, e)
  <2>1. Len(W) \in Nat
    BY <1>4, WriteOfByte
  <2>2. s \in 1..n /\ off[s] = 1 /\ e \in s..n /\ num[s] = num[e]
    BY <1>10, <1>11
  <2> QED
    BY <2>1, <2>2, FrameSpan
<1>13. off[e] <= off[s] + (e - s)
  BY <1>11, <1>12 DEF Spanned
<1>14. OVERHEAD + l + (s - m) <= OVERHEAD + val
  <2>1. OVERHEAD + l <= 1 + (e - s)
    BY <1>6, <1>7, <1>10, <1>13
  <2>2. l \in Nat /\ OVERHEAD \in Nat /\ val \in Nat /\ m \in Nat /\ s \in Int /\ e \in Int
    BY <1>1, <1>2, <1>4, <1>7, <1>11
  <2>3. e - m = OVERHEAD + val - 1
    BY <1>4
  <2> QED
    BY <2>1, <2>2, <2>3
<1>15. s = m \/ s = m + 1 \/ m + h <= s
  <2>1. h \in Nat /\ m \in Nat /\ s \in Int /\ (a = m \/ a = m + 1) /\ (s = a \/ a + h <= s)
    BY <1>1, <1>2, <1>3, <1>10, <1>11
  <2>2. CASE a = m
    BY <2>1, <2>2
  <2>3. CASE a = m + 1
    BY <2>1, <2>3
  <2> QED
    BY <2>1, <2>2, <2>3
<1>16. Begins(W, num, off, m, e, val, s)
  BY <1>10, <1>11, <1>14, <1>15, <1>12 DEF Begins, h, l, r
<1> QED
  BY <1>2, <1>4, <1>6, <1>7, <1>16 DEF r, l

(* A whole frame, alone or behind an X or the fields of a torn frame       *)
Ended(W, num, off, e) ==
  /\ Legal(W[num[e]].p) /\ W[num[e]].p \in Packets /\ W[num[e]].f \in PackRequest(W[num[e]].p)
  /\ off[e] = OVERHEAD + Len(W[num[e]].p.data) /\ Len(W[num[e]].p.data) \in Nat \ {0}

(* The bytes of a frame up to its data, where its write begins             *)
LEMMA FrameBegin ==
  ASSUME NEW W, NEW packets, Written(W, packets),
         NEW n \in Nat, NEW num, NEW off, NEW bytes, Labelled(W, num, off, n, bytes),
         NEW m \in 1..n, NEW e \in m..n, NEW val, NEW s, Begins(W, num, off, m, e, val, s),
         Ended(W, num, off, e)
  PROVE  \A i \in 1..BODY : s + i - 1 \in m..e /\ bytes[s + i - 1] = W[num[e]].f[i]
<1> DEFINE l == Len(W[num[e]].p.data)
<1>1. /\ s \in m..e /\ off[s] = 1 /\ Spanned(num, off, s, e) /\ off[e] = OVERHEAD + l
      /\ l \in Nat /\ OVERHEAD \in Nat /\ BODY < OVERHEAD /\ BODY \in Nat
  BY Sizes DEF Begins, Ended
<1>2. OVERHEAD + l <= 1 + (e - s)
  <2>1. off[e] <= 1 + (e - s)
    BY <1>1, SMTT(30) DEF Spanned
  <2> QED
    BY <1>1, <2>1
<1> HIDE DEF l
<1> SUFFICES ASSUME NEW i \in 1..BODY
             PROVE  s + i - 1 \in m..e /\ bytes[s + i - 1] = W[num[e]].f[i]
  OBVIOUS
<1> DEFINE x == s + i - 1
<1>3. x \in s..e /\ x \in m..e /\ x \in 1..n /\ (x - s) + 1 = i /\ i <= BODY
  BY <1>1, <1>2
<1> HIDE DEF x
<1>4. num[x] = num[e] /\ off[x] = i
  BY <1>1, <1>3 DEF Spanned
<1>5. bytes[x] = W[num[x]].f[off[x]]
  BY <1>3 DEF Labelled, ByteOf
<1>6. bytes[x] = W[num[e]].f[i]
  BY <1>4, <1>5, Zenon
<1> QED
  BY <1>3, <1>6 DEF x

(* The frame begins where the search stopped: this is its packet.          *)
LEMMA ReadWhole ==
  ASSUME NEW W, NEW packets, Written(W, packets),
         NEW n \in Nat, NEW num, NEW off, NEW bytes, Labelled(W, num, off, n, bytes),
         NEW c, NEW m, NEW val, Message(bytes, n, c, m, val), NEW e \in m..n,
         e - m = OVERHEAD + val - 1, Ended(W, num, off, e), Begins(W, num, off, m, e, val, m)
  PROVE  Parse(c, val) = W[num[e]].p
<1> DEFINE r == W[num[e]]
           l == Len(r.p.data)
<1>1. /\ m \in 1..n /\ val \in Nat /\ c \in Seq(Nat) /\ OVERHEAD + val <= Len(c)
      /\ \A i \in 1..OVERHEAD + val : c[i] = bytes[m + i - 1]
      /\ val = Strtol(SubSeq(c, FIELDS + 1, BODY))
  BY DEF Message
<1>2. \A i \in 1..BODY : m + i - 1 \in m..e /\ bytes[m + i - 1] = r.f[i]
  BY <1>1, FrameBegin
<1>3. /\ Legal(r.p) /\ r.p \in Packets /\ r.f \in PackRequest(r.p) /\ off[e] = OVERHEAD + l
      /\ l \in Nat
  BY DEF Ended
<1>4. /\ r.f = Fields(r.p) /\ Len(r.f) = OVERHEAD + l /\ Strtol(SubSeq(r.f, FIELDS + 1, BODY)) = l
      /\ r.f \in Seq(Nat)
  BY <1>3, LegalFrame, PackRequestType
<1>5. /\ FIELDS \in Nat /\ BODY \in Nat /\ OVERHEAD \in Nat /\ FIELDS < BODY /\ BODY < OVERHEAD
  BY Sizes
<1> HIDE DEF r, l
<1>6. \A i \in 1..BODY : c[i] = r.f[i]
  <2>1. \A i \in 1..BODY : i \in 1..OVERHEAD + val
    BY <1>1, <1>5
  <2> QED
    BY <1>1, <1>2, <2>1
<1>7. SubSeq(c, FIELDS + 1, BODY) = SubSeq(r.f, FIELDS + 1, BODY)
  <2> DEFINE z == Len(c)
             y == Len(r.f)
  <2>1. OVERHEAD + val <= z /\ y = OVERHEAD + l /\ z \in Nat /\ val \in Nat /\ l \in Nat
    BY <1>1, <1>3, <1>4, LenProperties
  <2> HIDE DEF z, y
  <2>2. FIELDS + 1 \in Nat \ {0} /\ BODY \in Int /\ BODY <= z /\ BODY <= y
    BY <1>5, <2>1
  <2>3. BODY <= Len(c) /\ BODY <= Len(r.f)
    BY <2>2 DEF z, y
  <2>4. c \in Seq(Nat) /\ r.f \in Seq(Nat)
    BY <1>1, <1>4
  <2> QED
    BY <1>6, <2>2, <2>3, <2>4, SamePiece
<1>8. val = l
  BY <1>1, <1>4, <1>7
<1>9. ASSUME NEW i \in 1..OVERHEAD + l PROVE c[i] = Fields(r.p)[i]
  <2> DEFINE x == m + i - 1
  <2>1. x \in m..e /\ x \in 1..n /\ i \in 1..OVERHEAD + val /\ (x - m) + 1 = i
    <3>1. m \in Nat /\ m <= n /\ m >= 1 /\ e - m = OVERHEAD + l - 1 /\ e <= n /\ e \in Nat /\ n \in Nat
      BY <1>1, <1>8
    <3>2. l \in Nat /\ OVERHEAD \in Nat /\ val = l
      BY <1>3, <1>5, <1>8
    <3> QED
      BY <3>1, <3>2
  <2>2. c[i] = bytes[x]
    BY <1>1, <2>1
  <2> HIDE DEF x
  <2>3. num[x] = num[e] /\ off[x] \in Nat /\ off[x] <= i /\ off[e] <= off[x] + (e - x)
    BY <2>1 DEF Begins, Spanned
  <2>4. off[x] = i
    <3> DEFINE o == off[x]
    <3>1. o \in Nat /\ o <= i /\ OVERHEAD + l <= o + (e - x)
      BY <1>3, <2>3
    <3> HIDE DEF o
    <3>2. e - m = OVERHEAD + l - 1 /\ (x - m) + 1 = i /\ x \in Int /\ m \in Int /\ e \in Int /\ i \in Int
      BY <1>1, <1>8, <2>1
    <3>3. l \in Nat /\ OVERHEAD \in Nat
      BY <1>3, <1>5
    <3>4. o = i
      BY <3>1, <3>2, <3>3
    <3> QED
      BY <3>4 DEF o
  <2>5. bytes[x] = W[num[x]].f[off[x]]
    BY <2>1 DEF Labelled, ByteOf
  <2>6. bytes[x] = r.f[i]
    BY <2>3, <2>4, <2>5, Zenon DEF r
  <2> QED
    BY <1>4, <2>2, <2>6
<1>10. l = Len(r.p.data) /\ OVERHEAD + l <= Len(c) /\ c \in Seq(Nat)
  BY <1>1, <1>8 DEF l
<1>11. Parse(c, l) = r.p
  BY <1>3, <1>9, <1>10, ParseOfFrame
<1> QED
  BY <1>8, <1>11 DEF r

(* The frame begins a byte behind the X where the search stopped: then the *)
(* length read is too small, or the X would be one that is never written.  *)
LEMMA NotShifted ==
  ASSUME Distinct, Unshifted, NEW W, NEW packets, Written(W, packets),
         NEW n \in Nat, NEW num, NEW off, NEW bytes, Labelled(W, num, off, n, bytes),
         NEW c, NEW m, NEW val, Message(bytes, n, c, m, val), NEW e \in m..n,
         e - m = OVERHEAD + val - 1, Ended(W, num, off, e), NEW s \in Nat, Begins(W, num, off, m, e, val, s), s - m = 1
  PROVE  FALSE
<1> DEFINE r == W[num[e]]
           l == Len(r.p.data)
           shifted == <<r.p.type>> \o First(Digits(l, LEN_WIDTH), LEN_WIDTH - 1)
<1>1. /\ m \in 1..n /\ val \in Nat /\ c \in Seq(Nat) /\ OVERHEAD + val <= Len(c)
      /\ \A i \in 1..OVERHEAD + val : c[i] = bytes[m + i - 1]
      /\ val = Strtol(SubSeq(c, FIELDS + 1, BODY)) /\ bytes[m] = X
  BY DEF Message
<1>2. \A i \in 1..BODY : s + i - 1 \in m..e /\ bytes[s + i - 1] = r.f[i]
  <2>1. m \in 1..n /\ Begins(W, num, off, m, e, val, s)
    BY <1>1
  <2> QED
    BY <2>1, FrameBegin
<1>3. /\ Legal(r.p) /\ r.p \in Packets /\ r.f \in PackRequest(r.p) /\ l \in Nat
  BY DEF Ended
<1>4. /\ Len(r.f) = OVERHEAD + l /\ SubSeq(r.f, FIELDS, BODY - 1) = shifted
      /\ r.f \in Seq(Nat)
  BY <1>3, LegalFrame, PackRequestType
<1>5. /\ FIELDS \in Nat \ {0} /\ BODY \in Nat /\ OVERHEAD \in Nat /\ FIELDS < BODY /\ BODY < OVERHEAD
  BY Sizes
<1>6. OVERHEAD + l + (s - m) <= OVERHEAD + val
  BY DEF Begins
<1>7. s \in m..e /\ m + 1 \in m..e /\ off[m + 1] = 1 /\ num[m + 1] = num[e]
  <2>1. s \in m..e /\ off[s] = 1 /\ num[s] = num[e]
    BY DEF Begins
  <2>2. s = m + 1
    <3>1. m \in Int
      BY <1>1
    <3> QED
      BY <3>1
  <2> QED
    BY <2>1, <2>2, Zenon
<1> HIDE DEF r, l, shifted
<1>8. l + 1 <= val
  BY <1>1, <1>3, <1>5, <1>6
<1>9. Strtol(shifted) = val
  <2> DEFINE z == Len(c)
             y == Len(r.f)
             u == SubSeq(c, FIELDS + 1, BODY)
             v == SubSeq(r.f, FIELDS, BODY - 1)
             w == BODY - FIELDS
  <2>1. OVERHEAD + val <= z /\ y = OVERHEAD + l /\ z \in Nat /\ val \in Nat /\ l \in Nat
    BY <1>1, <1>3, <1>4, LenProperties
  <2> HIDE DEF z, y, u, v
  <2>2. /\ FIELDS + 1 \in Nat \ {0} /\ BODY \in Int /\ BODY <= z /\ BODY - 1 <= y
        /\ BODY - 1 \in Int /\ w \in Nat /\ BODY - (FIELDS + 1) + 1 = w /\ (BODY - 1) - FIELDS + 1 = w
        /\ FIELDS + 1 <= BODY /\ FIELDS <= BODY - 1
    BY <1>5, <2>1
  <2>3. u \in Seq(Nat) /\ Len(u) = w /\ \A i \in 1..w : u[i] = c[FIELDS + 1 + i - 1]
    <3>1. /\ u \in Seq(Nat) /\ Len(u) = IF FIELDS + 1 <= BODY THEN BODY - (FIELDS + 1) + 1 ELSE 0
          /\ \A i \in 1..BODY - (FIELDS + 1) + 1 : u[i] = c[FIELDS + 1 + i - 1]
      BY <1>1, <2>2, SubSeqType DEF z, u
    <3> HIDE DEF w
    <3> QED
      BY <2>2, <3>1
  <2>4. v \in Seq(Nat) /\ Len(v) = w /\ \A i \in 1..w : v[i] = r.f[FIELDS + i - 1]
    <3>1. /\ v \in Seq(Nat) /\ Len(v) = IF FIELDS <= BODY - 1 THEN (BODY - 1) - FIELDS + 1 ELSE 0
          /\ \A i \in 1..(BODY - 1) - FIELDS + 1 : v[i] = r.f[FIELDS + i - 1]
      BY <1>4, <1>5, <2>2, SubSeqType DEF y, v
    <3> HIDE DEF w
    <3> QED
      BY <2>2, <3>1
  <2>5. ASSUME NEW i \in 1..w PROVE u[i] = v[i]
    <3>0. /\ m \in Int /\ s - m = 1 /\ s \in Int /\ FIELDS \in Nat \ {0} /\ FIELDS + w = BODY
          /\ BODY <= OVERHEAD + val /\ w \in Nat /\ OVERHEAD + val \in Nat
      <4>1. m \in Int /\ val \in Nat /\ s \in Int
        BY <1>1
      <4> QED
        BY <1>5, <4>1
    <3> HIDE DEF w
    <3>1. /\ FIELDS + i - 1 \in 1..BODY /\ FIELDS + 1 + i - 1 \in 1..OVERHEAD + val
          /\ m + (FIELDS + 1 + i - 1) - 1 = s + (FIELDS + i - 1) - 1
      BY <3>0
    <3>2. c[FIELDS + 1 + i - 1] = bytes[m + (FIELDS + 1 + i - 1) - 1]
      BY <1>1, <3>1
    <3>3. bytes[s + (FIELDS + i - 1) - 1] = r.f[FIELDS + i - 1]
      BY <1>2, <3>1
    <3> QED
      BY <2>3, <2>4, <3>1, <3>2, <3>3
  <2> HIDE DEF w
  <2>6. u = v
    BY <2>3, <2>4, <2>5, SeqEqual
  <2> QED
    BY <1>1, <1>4, <2>6 DEF u, v
<1>10. ~(val <= l)
  BY <1>1, <1>3, <1>8
<1>11. ~(Strtol(shifted) <= l)
  BY <1>9, <1>10
<1>12. /\ 1 \notin TornAt /\ X \notin Leftovers
       /\ \A p \in Packets : X \notin Range(p.data) \cup {p.type}
  BY <1>3, <1>11 DEF Unshifted, shifted, l
<1> DEFINE q == W[num[m]]
<1>13. /\ q.p \in Packets /\ q.f \in PackRequest(q.p) /\ off[m] \in 1..Len(q.f)
       /\ bytes[m] = q.f[off[m]] /\ FrameOf(q, packets) /\ num[m] \in 1..Len(W)
  BY <1>1, WriteOfByte, SMTT(30)
<1>14. ByteOf(W, num, off, n, bytes, m) /\ Follows(num, off, m, m + 1) /\ m + 1 \in 1..n
  <2>1. m + 1 \in 1..n /\ m < m + 1 /\ m \in 1..n
    BY <1>1, <1>7
  <2>2. \A x \in 1..n : ByteOf(W, num, off, n, bytes, x)
    BY DEF Labelled
  <2>3. \A x, y \in 1..n : x < y => Follows(num, off, x, y)
    BY DEF Labelled
  <2>4. Follows(num, off, m, m + 1)
    BY <2>1, <2>3
  <2> QED
    BY <2>1, <2>2, <2>4, Zenon
<1>15. off[m] = q.k \/ num[m + 1] = num[m]
  BY <1>14 DEF ByteOf
<1> HIDE DEF q
<1>16. off[m] = 1
  <2>1. q.f[off[m]] = X /\ X \notin Range(q.p.data) \cup {q.p.type} /\ X \notin Leftovers
    BY <1>1, <1>12, <1>13
  <2> QED
    BY <1>13, <2>1, FirstX
<1>17. num[m + 1] # num[m]
  <2>1. 1 <= BODY /\ (m + 1) - m = 1
    BY <1>1, <1>5
  <2>2. ASSUME num[m] = num[m + 1] PROVE FALSE
    <3>1. ~(num[m] < num[m + 1])
      <4>1. num[m] \in Int
        <5>1. 1..Len(W) \subseteq Int
          OBVIOUS
        <5> QED
          BY <1>13, <5>1
      <4> QED
        BY <2>2, <4>1
    <3>2. off[m + 1] = off[m] + 1
      BY <1>7, <1>14, <2>1, <3>1 DEF Follows
    <3> QED
      BY <1>7, <1>16, <3>2
  <2> QED
    BY <2>2
<1>18. q.k = 1 /\ (q.k \in TornAt \/ q.k = Len(q.f))
  BY <1>13, <1>15, <1>16, <1>17 DEF FrameOf
<1>19. Len(q.f) = 1
  BY <1>12, <1>18
<1>20. OVERHEAD <= Len(q.f)
  BY <1>13, FrameLength
<1> QED
  BY <1>5, <1>19, <1>20

(* The frame begins behind the head that was found: if its own head lies   *)
(* where the length is read, there is no length, otherwise it is data.     *)
LEMMA ReadAcross ==
  ASSUME Distinct, NEW W, NEW packets, Written(W, packets),
         NEW n \in Nat, NEW num, NEW off, NEW bytes, Labelled(W, num, off, n, bytes),
         NEW c, NEW m, NEW val, Message(bytes, n, c, m, val), NEW e \in m..n,
         e - m = OVERHEAD + val - 1, Ended(W, num, off, e),
         NEW s \in Nat, Begins(W, num, off, m, e, val, s), m + Len(HEAD) <= s
  PROVE  HasHead(Parse(c, val).data)
<1> DEFINE r == W[num[e]]
           l == Len(r.p.data)
           h == Len(HEAD)
           d == s - m
           z == Len(c)
<1>1. /\ m \in 1..n /\ val \in Nat /\ c \in Seq(Nat) /\ OVERHEAD + val <= z /\ z \in Nat
      /\ \A i \in 1..OVERHEAD + val : c[i] = bytes[m + i - 1]
      /\ val = Strtol(SubSeq(c, FIELDS + 1, BODY))
  BY LenProperties DEF Message
<1>2. \A i \in 1..BODY : s + i - 1 \in m..e /\ bytes[s + i - 1] = r.f[i]
  BY <1>1, FrameBegin
<1>3. Legal(r.p) /\ r.p \in Packets /\ r.f \in PackRequest(r.p) /\ l \in Nat
  BY DEF Ended
<1>4. \A j \in 1..h : r.f[j] = HEAD[j]
  BY <1>3, LegalFrame
<1>5. /\ FIELDS \in Nat /\ BODY \in Nat /\ OVERHEAD \in Nat /\ FIELDS < BODY /\ BODY < OVERHEAD
      /\ h \in Nat /\ h < FIELDS /\ LEN_WIDTH <= h /\ FIELDS + LEN_WIDTH = BODY
      /\ FIELDS <= 2 * h - 1 /\ LEN_WIDTH \in Nat \ {0} /\ 1 <= h
  <2>1. h \in Nat /\ LEN_WIDTH <= h /\ SEQ_WIDTH + 2 <= h
    BY MarkBytes
  <2>2. FIELDS = h + SEQ_WIDTH + 1 /\ BODY = FIELDS + LEN_WIDTH
    BY Layout
  <2>3. BODY < OVERHEAD /\ OVERHEAD \in Nat
    BY Sizes
  <2> HIDE DEF h
  <2> QED
    BY <2>1, <2>2, <2>3, Radix
<1>6. OVERHEAD + l + d <= OVERHEAD + val /\ m + h <= s
  BY DEF Begins
<1>7. \A j \in 1..h : HEAD[j] \in Nat /\ ~(HEAD[j] < BASE)
  BY MarkBytes
<1> HIDE DEF r, l, h, z
<1>8. d \in Nat /\ h <= d /\ d <= val /\ m \in Int
  <2>1. m \in Nat /\ val \in Nat
    BY <1>1
  <2>2. OVERHEAD + l + d <= OVERHEAD + val /\ l \in Nat /\ OVERHEAD \in Nat
    BY <1>3, <1>5, <1>6
  <2>3. d = s - m /\ m + h <= s /\ h \in Nat
    BY <1>5, <1>6
  <2> HIDE DEF d
  <2> QED
    BY <2>1, <2>2, <2>3
<1>9. ASSUME NEW j \in 1..h PROVE c[d + j] = HEAD[j]
  <2>1. val \in Nat /\ s \in Nat
    BY <1>1
  <2>2. d + j \in 1..OVERHEAD + val /\ m + (d + j) - 1 = s + j - 1 /\ j \in 1..BODY
    BY <1>5, <1>8, <2>1
  <2> HIDE DEF d
  <2>3. c[d + j] = bytes[m + (d + j) - 1]
    BY <1>1, <2>2
  <2>4. bytes[s + j - 1] = r.f[j] /\ r.f[j] = HEAD[j]
    BY <1>2, <1>4, <2>2
  <2> QED
    BY <2>2, <2>3, <2>4
<1> HIDE DEF d
<1>10. FIELDS < d
  <2> SUFFICES ASSUME d <= FIELDS PROVE FALSE
    BY <1>5, <1>8
  <2> DEFINE u == SubSeq(c, FIELDS + 1, BODY)
             w == BODY - FIELDS
             j == FIELDS + 1 - d
  <2>1. j \in 1..h /\ d + j = FIELDS + 1
    BY <1>5, <1>8
  <2> HIDE DEF j
  <2>2. c[FIELDS + 1] = HEAD[j] /\ ~(HEAD[j] < BASE)
    <3>1. c[d + j] = HEAD[j]
      BY <1>9, <2>1
    <3> QED
      BY <1>7, <2>1, <3>1
  <2>3. /\ FIELDS + 1 \in Nat \ {0} /\ BODY \in Int /\ BODY <= z /\ w \in Nat
        /\ BODY - (FIELDS + 1) + 1 = w /\ FIELDS + 1 <= BODY /\ 1 \in 1..w /\ FIELDS + 1 + 1 - 1 = FIELDS + 1
    <3>1. val \in Nat /\ OVERHEAD + val <= z /\ z \in Nat
      BY <1>1
    <3> QED
      BY <1>5, <3>1
  <2> HIDE DEF u, w
  <2>4. u \in Seq(Nat) /\ Len(u) = w /\ \A i \in 1..w : u[i] = c[FIELDS + 1 + i - 1]
    <3>1. /\ u \in Seq(Nat) /\ Len(u) = IF FIELDS + 1 <= BODY THEN BODY - (FIELDS + 1) + 1 ELSE 0
          /\ \A i \in 1..BODY - (FIELDS + 1) + 1 : u[i] = c[FIELDS + 1 + i - 1]
      BY <1>1, <2>3, SubSeqType DEF z, u
    <3> QED
      BY <2>3, <3>1
  <2>5. u[1] = c[FIELDS + 1]
    BY <2>3, <2>4
  <2>6. Len(u) >= 1 /\ ~(u[1] < BASE)
    BY <2>2, <2>3, <2>4, <2>5
  <2>7. Strtol(u) = 0
    BY <2>4, <2>6, NoDigits
  <2>8. val = 0
    BY <1>1, <2>7 DEF u
  <2> QED
    BY <1>5, <1>8, <2>8
<1> DEFINE v == SubSeq(c, BODY + 1, BODY + val)
           j == IF d >= BODY THEN 1 ELSE BODY + 1 - d
           i == j + d - BODY
<1>11. /\ j \in 1..LEN_WIDTH /\ i \in Nat \ {0} /\ (j # 1 => i = 1) /\ j <= h
       /\ i + h - j <= val
  <2>1. val \in Nat
    BY <1>1
  <2> QED
    BY <1>5, <1>8, <1>10, <2>1
<1>12. i + BODY = j + d
  BY <1>5, <1>8, <1>11
<1> HIDE DEF i, j
<1>13. v \in Seq(Nat) /\ Len(v) = val /\ \A x \in 1..val : v[x] = c[BODY + 1 + x - 1]
  <2>1. val \in Nat /\ OVERHEAD + val <= z /\ z \in Nat
    BY <1>1
  <2>2. /\ BODY + 1 \in Nat \ {0} /\ BODY + val \in Int /\ BODY + val <= z
        /\ (BODY + val) - (BODY + 1) + 1 = val /\ (BODY + 1 <= BODY + val <=> val # 0)
    BY <1>5, <2>1
  <2> HIDE DEF v
  <2>3. /\ v \in Seq(Nat)
        /\ Len(v) = IF BODY + 1 <= BODY + val THEN (BODY + val) - (BODY + 1) + 1 ELSE 0
        /\ \A x \in 1..(BODY + val) - (BODY + 1) + 1 : v[x] = c[BODY + 1 + x - 1]
    BY <1>1, <2>2, SubSeqType DEF z, v
  <2> QED
    BY <2>1, <2>2, <2>3
<1> HIDE DEF v
<1>14. ASSUME NEW q \in j..h PROVE v[i + q - j] = HEAD[q]
  <2>1. val \in Nat
    BY <1>1
  <2>2. /\ i + q - j \in 1..val /\ BODY + 1 + (i + q - j) - 1 = d + q /\ q \in 1..h
    BY <1>5, <1>8, <1>11, <1>12, <2>1
  <2>3. v[i + q - j] = c[BODY + 1 + (i + q - j) - 1]
    BY <1>13, <2>2
  <2>4. c[d + q] = HEAD[q]
    BY <1>9, <2>2
  <2> QED
    BY <2>2, <2>3, <2>4
<1>15. HasHead(v)
  <2>1. val \in Nat /\ h \in Nat \ {0} /\ h = Len(HEAD)
    BY <1>1, <1>5 DEF h
  <2> QED
    BY <1>11, <1>13, <1>14, <2>1, HasHeadAt
<1> QED
  BY <1>15 DEF Parse, v

(* What is read as a frame ends with a frame that was written to the last  *)
(* byte and is its packet, or has its head as data.                        *)
LEMMA MessageRead ==
  ASSUME Distinct, Unshifted, NEW W, NEW packets, Written(W, packets),
         NEW n \in Nat, NEW num, NEW off, NEW bytes, Labelled(W, num, off, n, bytes),
         NEW c, NEW m, NEW val, Message(bytes, n, c, m, val), NEW e, e = m + OVERHEAD + val - 1
  PROVE  /\ e \in m..n /\ m \in 1..n /\ val \in Nat /\ W[num[e]].i # 0
         /\ off[e] = W[num[e]].k /\ off[e] \in Nat /\ BODY < off[e] /\ off[e] <= OVERHEAD + val
         /\ \E s \in m..e : off[s] = 1 /\ num[s] = num[e]
         /\ Parse(c, val) = W[num[e]].p \/ HasHead(Parse(c, val).data)
<1> DEFINE l == Len(W[num[e]].p.data)
<1>1. /\ e \in 1..n /\ m \in 1..n /\ val \in Nat /\ m < e /\ e - m = OVERHEAD + val - 1
      /\ Ended(W, num, off, e) /\ off[e] = OVERHEAD + l /\ l \in Nat
      /\ off[e] = W[num[e]].k /\ W[num[e]].i # 0
      /\ \E s : Begins(W, num, off, m, e, val, s)
  BY MessageSpan DEF Ended
<1>2. PICK s : Begins(W, num, off, m, e, val, s)
  BY <1>1
<1>3. /\ s \in m..e /\ off[s] = 1 /\ num[s] = num[e] /\ (s = m \/ s = m + 1 \/ m + Len(HEAD) <= s)
      /\ OVERHEAD + l + (s - m) <= OVERHEAD + val
  BY <1>2 DEF Begins
<1> HIDE DEF l
<1>4. e \in m..n /\ s \in Nat /\ BODY < OVERHEAD /\ OVERHEAD \in Nat /\ BODY \in Nat
  <2>1. m \in Nat /\ s \in m..e /\ m < e /\ e \in 1..n
    BY <1>1, <1>3
  <2>2. BODY < OVERHEAD /\ OVERHEAD \in Nat /\ BODY \in Nat
    BY Sizes
  <2> QED
    BY <2>1, <2>2
<1>5. off[e] \in Nat /\ BODY < off[e] /\ off[e] <= OVERHEAD + val
  BY <1>1, <1>3, <1>4
<1>6. Parse(c, val) = W[num[e]].p \/ HasHead(Parse(c, val).data)
  <2>0. Message(bytes, n, c, m, val) /\ Labelled(W, num, off, n, bytes) /\ Written(W, packets)
    OBVIOUS
  <2>1. CASE s = m
    <3>1. Begins(W, num, off, m, e, val, m)
      BY <1>2, <2>1
    <3> QED
      BY <1>1, <1>4, <3>1, ReadWhole
  <2>2. CASE s = m + 1
    <3>1. s - m = 1
      BY <1>1, <2>2
    <3> QED
      BY <1>1, <1>2, <1>4, <3>1, NotShifted
  <2>3. CASE m + Len(HEAD) <= s
    BY <1>1, <1>2, <1>4, <2>3, ReadAcross
  <2> QED
    BY <1>3, <2>1, <2>2, <2>3
<1> QED
  BY <1>1, <1>3, <1>4, <1>5, <1>6

-----------------------------------------------------------------------------
(* How the labels change *)

(* x and y are bytes of one write, in their places. *)
OneWrite(num, off, x, y) == num[x] = num[y] /\ off[y] = off[x] + (y - x)

(* Of the m bytes in net, those before a cut are of one write. *)
Unread(num, off, b, m, cuts) ==
  /\ \A i, j \in 1..m : i < j => \/ OneWrite(num, off, b + i, b + j)
                                 \/ \E e \in cuts : i <= e /\ e < j
  /\ m > 0 => m \in cuts

(* The last read, or what OnRecvMsg appended again, is the end of buf, and *)
(* of one write.                                                           *)
InHand(num, off, b, bytes, r, last) ==
  /\ r <= b
  /\ \A i \in 1..r : last[i] = bytes[b - r + i]
  /\ \A x, y \in b - r + 1..b : x < y => OneWrite(num, off, x, y)

(* Of a write whose start is not yet read no packet was pushed, and of     *)
(* every other at most one.                                                *)
Pushed(W, num, off, n, used, g, packets) ==
  /\ used \in [1..g -> 1..Len(W)]
  /\ \A i \in 1..g : /\ W[used[i]].i # 0
                     /\ packets[i] = W[used[i]].p \/ HasHead(packets[i].data)
  /\ \A i, j \in 1..g : i < j => used[i] < used[j]
  /\ \A x \in 1..n : off[x] = 1 => \A i \in 1..g : used[i] < num[x]

(* The first d bytes leave buf, and the last r of it are appended again:   *)
(* where byte x was before.                                                *)
Before(b, d, r, x) == IF x <= b - d THEN x + d ELSE x + d - r
Moved(lab, n, b, d, r) == [x \in 1..n - d + r |-> lab[Before(b, d, r, x)]]

(* No byte but of buf and net appears.                                     *)
LEMMA BeforeType ==
  ASSUME NEW n \in Nat, NEW b \in 0..n, NEW d \in 0..b, NEW r \in 0..b - d
  PROVE  /\ n - d + r \in Nat
         /\ \A x \in 1..n - d + r : Before(b, d, r, x) \in 1..n /\ d < Before(b, d, r, x)
BY DEF Before

(* Bytes of one write stand in the order of their writes.                  *)
LEMMA InOrder ==
  ASSUME NEW W, Len(W) \in Nat, NEW n \in Nat, NEW num, NEW off, NEW bytes,
         Labelled(W, num, off, n, bytes), NEW x \in 1..n, NEW y \in x..n
  PROVE  num[x] \in Nat /\ num[y] \in Nat /\ num[x] <= num[y] /\ off[x] \in Nat \ {0}
<1>1. x \in 1..n /\ y \in 1..n /\ 1..Len(W) \subseteq Nat
  OBVIOUS
<1>2. num[x] \in Nat /\ num[y] \in Nat /\ off[x] \in Nat \ {0}
  BY <1>1 DEF Labelled
<1>3. CASE x = y
  BY <1>2, <1>3
<1>4. CASE x < y
  <2>1. Follows(num, off, x, y)
    BY <1>1, <1>4 DEF Labelled
  <2> QED
    BY <1>2, <2>1 DEF Follows
<1> QED
  BY <1>2, <1>3, <1>4

(* The labels stay right when bytes of one write, behind the fields of a   *)
(* frame, are appended again.                                              *)
LEMMA LabelsMoved ==
  ASSUME NEW W, Len(W) \in Nat, NEW n \in Nat, NEW num, NEW off, NEW bytes,
         Labelled(W, num, off, n, bytes),
         NEW b \in 0..n, NEW d \in 0..b, NEW r \in 0..b - d,
         \A x \in b - r + 1..b : BODY < off[x],
         \A x, y \in b - r + 1..b : x < y => OneWrite(num, off, x, y),
         NEW now, \A x \in 1..n - d + r : now[x] = bytes[Before(b, d, r, x)]
  PROVE  Labelled(W, Moved(num, n, b, d, r), Moved(off, n, b, d, r), n - d + r, now)
<1> DEFINE k == n - d + r
           P(x) == Before(b, d, r, x)
           u == Moved(num, n, b, d, r)
           o == Moved(off, n, b, d, r)
<1>1. k \in Nat /\ \A x \in 1..k : P(x) \in 1..n /\ d < P(x)
  BY BeforeType
<1>2. \A x \in 1..k : u[x] = num[P(x)] /\ o[x] = off[P(x)] /\ now[x] = bytes[P(x)]
  BY DEF Moved
<1>3. /\ num \in [1..n -> 1..Len(W)] /\ off \in [1..n -> Nat \ {0}]
      /\ \A x \in 1..n : ByteOf(W, num, off, n, bytes, x)
      /\ \A x, y \in 1..n : x < y => Follows(num, off, x, y)
  BY DEF Labelled
<1>4. u \in [1..k -> 1..Len(W)] /\ o \in [1..k -> Nat \ {0}]
  BY <1>1, <1>3 DEF Moved
<1> HIDE DEF u, o, P, k
<1>5. ASSUME NEW x \in 1..k PROVE ByteOf(W, u, o, k, now, x)
  <2> DEFINE y == P(x)
             z == P(x + 1)
  <2>1. /\ y \in 1..n /\ u[x] = num[y] /\ o[x] = off[y] /\ now[x] = bytes[y]
        /\ ByteOf(W, num, off, n, bytes, y)
    BY <1>1, <1>2, <1>3
  <2>2. ASSUME y < n, num[y + 1] = num[y] PROVE x < k /\ u[x + 1] = u[x]
    <3>1. /\ x < k /\ x + 1 \in 1..k
          /\ z = y + 1 \/ (y = b /\ z = b - r + 1 /\ z \in b - r + 1..b)
      <4>1. CASE x + 1 <= b - d
        BY <2>2, <4>1 DEF P, Before, k
      <4>2. CASE x = b - d
        <5>1. y = b /\ z = b + 1 - r
          BY <4>2 DEF P, Before
        <5>2. x < k
          BY <2>2, <4>2, <5>1 DEF k
        <5>3. r = 0 \/ z \in b - r + 1..b
          BY <5>1
        <5> QED
          BY <5>1, <5>2, <5>3, SMTT(30) DEF k
      <4>3. CASE b - d < x
        BY <2>2, <4>3 DEF P, Before, k
      <4> QED
        BY <4>1, <4>2, <4>3 DEF k
    <3>2. u[x + 1] = num[z]
      BY <1>2, <3>1
    <3> HIDE DEF y, z
    <3>3. CASE z = y + 1
      BY <2>1, <2>2, <3>1, <3>2, <3>3
    <3>4. CASE y = b /\ z = b - r + 1 /\ z \in b - r + 1..b
      <4>1. z = y \/ z < y
        BY <3>4
      <4>2. z < y => num[z] = num[y]
        BY <3>4 DEF OneWrite
      <4> QED
        BY <2>1, <3>1, <3>2, <4>1, <4>2
    <3> QED
      BY <3>1, <3>3, <3>4
  <2>3. off[y] <= W[num[y]].k /\ bytes[y] = W[num[y]].f[off[y]] /\ (off[y] = W[num[y]].k \/ (y < n /\ num[y + 1] = num[y]))
    BY <2>1 DEF ByteOf
  <2> HIDE DEF y
  <2>4. o[x] <= W[u[x]].k /\ now[x] = W[u[x]].f[o[x]] /\ (o[x] = W[u[x]].k \/ (x < k /\ u[x + 1] = u[x]))
    BY <2>1, <2>2, <2>3, Zenon
  <2> QED
    BY <2>4 DEF ByteOf
<1>6. ASSUME NEW x \in 1..k, NEW y \in 1..k, x < y PROVE Follows(u, o, x, y)
  <2> DEFINE v == P(x)
             w == P(y)
  <2>0. x \in Nat /\ y \in Nat /\ k \in Nat /\ 1 <= x /\ y <= k
    BY <1>1
  <2>1. /\ v \in 1..n /\ w \in 1..n /\ u[x] = num[v] /\ o[x] = off[v] /\ u[y] = num[w] /\ o[y] = off[w]
    BY <1>1, <1>2
  <2>2. /\ v < w => Follows(num, off, v, w)
        /\ off[v] \in Nat \ {0} /\ off[w] \in Nat \ {0}
    BY <1>3, <2>1
  <2>3. BODY \in Nat
    BY Sizes
  <2>4. ASSUME NEW s \in v + 1..w, v < w, off[s] = 1, num[s] = num[w]
        PROVE  \E i \in x + 1..y : u[i] = u[y] /\ o[i] = 1
    <3> DEFINE i == IF s <= b /\ x <= b - d THEN s - d ELSE s - d + r
    <3>1. i \in x + 1..y /\ P(i) = s
      <4>1. CASE x <= b - d /\ y <= b - d
        BY <2>1, <2>4, <4>1 DEF P, Before
      <4>2. CASE x <= b - d /\ b - d < y
        BY <2>1, <2>4, <4>2 DEF P, Before
      <4>3. CASE b - d < x
        <5>1. ~(x <= b - d) /\ ~(y <= b - d) /\ i = s - d + r
          BY <2>0, <4>3, <1>6
        <5>2. v = x + d - r /\ w = y + d - r
          BY <5>1 DEF P, Before
        <5>3. i \in x + 1..y /\ ~(i <= b - d) /\ i + d - r = s
          BY <2>0, <2>4, <5>1, <5>2, <4>3
        <5> QED
          BY <5>3 DEF P, Before
      <4>4. (x <= b - d /\ y <= b - d) \/ (x <= b - d /\ b - d < y) \/ b - d < x
        BY <2>0
      <4> HIDE DEF i, P
      <4> QED
        BY <4>1, <4>2, <4>3, <4>4, Zenon
    <3>5. i \in 1..k
      BY <2>0, <3>1
    <3> HIDE DEF i
    <3>2. u[i] = num[s] /\ o[i] = off[s]
      BY <1>2, <3>1, <3>5
    <3> QED
      BY <2>1, <2>4, <3>1, <3>2
  <2>5. CASE y <= b - d \/ b - d < x
    <3>1. v < w /\ w - v = y - x
      BY <2>5, <1>6 DEF P, Before
    <3> QED
      BY <2>1, <2>2, <2>4, <3>1 DEF Follows
  <2>6. CASE x <= b - d /\ b - d < y
    <3>1. /\ v = x + d /\ w = y + d - r /\ v <= b /\ b - r + 1 <= w
      BY <2>6 DEF P, Before
    <3> HIDE DEF v, w
    <3>2. CASE w <= v
      <4>1. w \in b - r + 1..b /\ v \in b - r + 1..b /\ w <= v
        BY <2>1, <3>1, <3>2
      <4>2. BODY < off[w] /\ (w < v => OneWrite(num, off, w, v))
        BY <4>1
      <4>3. num[w] = num[v] /\ off[w] <= off[v]
        <5>1. CASE w = v
          BY <2>2, <5>1
        <5>2. CASE w < v
          BY <2>1, <2>2, <4>2, <5>2 DEF OneWrite
        <5> QED
          BY <4>1, <2>1, <5>1, <5>2
      <4>4. ~(off[w] <= BODY) /\ off[w] <= off[v] + (y - x)
        BY <1>6, <2>2, <2>3, <4>2, <4>3
      <4> QED
        BY <2>1, <4>3, <4>4 DEF Follows
    <3>3. CASE v < w
      <4>1. CASE num[v] = num[w] /\ off[w] <= off[v] + (w - v) /\ (off[w] <= BODY => off[w] = off[v] + (w - v))
        <5>1. off[w] <= off[v] + (y - x)
          BY <2>1, <2>2, <3>1, <4>1, SMTT(30)
        <5>2. ASSUME off[w] <= BODY PROVE off[w] = off[v] + (y - x)
          <6>1. CASE r = 0
            BY <2>1, <2>2, <3>1, <4>1, <5>2, <6>1
          <6>2. CASE r # 0
            <7>1. b \in b - r + 1..b /\ b \in 1..n /\ w \notin b - r + 1..b
              BY <2>2, <2>3, <5>2, <6>2
            <7>2. b < w /\ b \in v..n /\ w \in b..n
              BY <2>1, <3>1, <7>1
            <7>3. num[v] <= num[b] /\ num[b] <= num[w] /\ num[b] \in Nat /\ num[v] \in Nat
              BY <2>1, <7>1, <7>2, InOrder
            <7>4. ~(num[b] < num[w])
              BY <4>1, <7>3
            <7>5. Follows(num, off, b, w) /\ BODY < off[b] /\ off[b] \in Nat
              BY <1>3, <2>1, <7>1, <7>2
            <7>6. off[w] = off[b] + (w - b)
              BY <5>2, <7>4, <7>5 DEF Follows
            <7> QED
              BY <2>2, <2>3, <2>1, <5>2, <7>2, <7>5, <7>6, SMTT(30)
          <6> QED
            BY <6>1, <6>2
        <5> QED
          BY <2>1, <4>1, <5>1, <5>2 DEF Follows
      <4>2. CASE num[v] < num[w] /\ \E s \in v + 1..w : num[s] = num[w] /\ off[s] = 1
        BY <2>1, <2>4, <3>3, <4>2 DEF Follows, v, w
      <4> QED
        BY <2>2, <3>3, <4>1, <4>2 DEF Follows
    <3> QED
      BY <2>1, <3>2, <3>3
  <2> QED
    BY <2>5, <2>6
<1>7. Labelled(W, u, o, k, now)
  BY <1>4, <1>5, <1>6 DEF Labelled
<1> QED
  BY <1>7 DEF u, o, k

(* A write is recorded.                                                    *)
Record(p, f, k, packets, i, r) ==
  /\ r = [p |-> p, f |-> f, k |-> k, i |-> i] /\ i \in Nat
  /\ (k = Len(f) /\ ~Refused(p) <=> i # 0) /\ (i # 0 => i = Len(packets) + 1)
Recorded(W, r, packets) ==
  /\ Written(Append(W, r), packets) /\ Len(Append(W, r)) = Len(W) + 1 /\ Len(W) \in Nat
  /\ Append(W, r)[Len(W) + 1] = r /\ \A w \in 1..Len(W) : Append(W, r)[w] = W[w]

(* The record of a write keeps what is said of them.                       *)
LEMMA WriteRecorded ==
  ASSUME NEW W, NEW packets \in Seq(Packets), Written(W, packets),
         NEW p \in Packets, NEW f \in PackRequest(p), NEW k \in 1..Len(f), k \in TornAt \cup {Len(f)},
         NEW i, NEW r, Record(p, f, k, packets, i, r),
         NEW more, more = IF i # 0 THEN Append(packets, p) ELSE packets
  PROVE  Recorded(W, r, more)
<1> DEFINE V == Append(W, r)
           n == Len(W)
           l == Len(packets)
<1>0. /\ r = [p |-> p, f |-> f, k |-> k, i |-> i] /\ i \in Nat
      /\ (k = Len(f) /\ ~Refused(p) <=> i # 0) /\ (i # 0 => i = Len(packets) + 1)
  BY DEF Record
<1>1. /\ W \in Seq(Frames) /\ n \in Nat /\ l \in Nat
      /\ \A w \in 1..n : FrameOf(W[w], packets)
      /\ \A v, w \in 1..n : v < w /\ W[v].i # 0 /\ W[w].i # 0 => W[v].i < W[w].i
  BY LenProperties DEF Written
<1>2. f \in Seq(Nat) /\ Len(f) \in Nat /\ k \in Nat
  BY PackRequestType
<1>3. r \in Frames
  BY <1>0, <1>2 DEF Frames
<1>4. /\ V \in Seq(Frames) /\ Len(V) = n + 1 /\ V[n + 1] = r
      /\ \A w \in 1..n : V[w] = W[w]
  BY <1>1, <1>3, AppendProperties
<1>5. /\ i # 0 => Len(more) = l + 1 /\ more[l + 1] = p /\ i = l + 1
      /\ i = 0 => more = packets
      /\ \A j \in 1..l : more[j] = packets[j]
      /\ 1..l \subseteq 1..Len(more)
  <2>1. CASE i # 0
    <3>1. more = Append(packets, p)
      BY <2>1
    <3>2. /\ Len(more) = l + 1 /\ more[l + 1] = p /\ \A j \in 1..l : more[j] = packets[j]
      BY <3>1, AppendProperties
    <3> HIDE DEF l
    <3>3. 1..l \subseteq 1..l + 1
      BY <1>1
    <3>4. i = l + 1
      BY <1>0, <2>1 DEF l
    <3> QED
      BY <2>1, <3>2, <3>3, <3>4
  <2>2. CASE i = 0
    BY <2>2
  <2> QED
    BY <2>1, <2>2
<1>6. r.p = p /\ r.f = f /\ r.k = k /\ r.i = i
  BY <1>0
<1> HIDE DEF V, n, l
<1>7. FrameOf(r, more)
  <2>1. i # 0 => i \in 1..Len(more) /\ more[i] = p
    BY <1>1, <1>5
  <2> QED
    BY <1>0, <1>6, <2>1 DEF FrameOf
<1>8. ASSUME NEW w \in 1..n PROVE FrameOf(W[w], more) /\ (W[w].i # 0 => W[w].i \in 1..l)
  <2>1. FrameOf(W[w], packets)
    BY <1>1
  <2>2. W[w].i # 0 => W[w].i \in 1..l /\ packets[W[w].i] = W[w].p
    BY <2>1 DEF FrameOf, l
  <2>3. W[w].i # 0 => W[w].i \in 1..Len(more) /\ more[W[w].i] = W[w].p
    BY <1>5, <2>2
  <2> QED
    BY <2>1, <2>2, <2>3 DEF FrameOf
<1>9. ASSUME NEW w \in 1..n + 1 PROVE FrameOf(V[w], more)
  <2>1. w = n + 1 \/ w \in 1..n
    BY <1>1
  <2> QED
    BY <1>4, <1>7, <1>8, <2>1
<1>10. ASSUME NEW v \in 1..n + 1, NEW w \in 1..n + 1, v < w, V[v].i # 0, V[w].i # 0
       PROVE  V[v].i < V[w].i
  <2>1. v \in 1..n /\ V[v] = W[v]
    BY <1>1, <1>4, <1>10
  <2>2. CASE w \in 1..n
    BY <1>1, <1>4, <1>10, <2>1, <2>2
  <2>3. CASE w = n + 1
    <3>1. W[v].i \in 1..l
      BY <1>8, <1>10, <2>1
    <3>2. V[w].i = l + 1
      BY <1>4, <1>5, <1>6, <1>10, <2>3
    <3> QED
      BY <1>1, <2>1, <3>1, <3>2
  <2> QED
    BY <1>1, <2>2, <2>3
<1>11. Written(V, more)
  BY <1>4, <1>9, <1>10 DEF Written
<1> QED
  BY <1>1, <1>4, <1>11 DEF V, n, Recorded

NumAdded(num, n, k, w) == [x \in 1..n + k |-> IF x <= n THEN num[x] ELSE w]
OffAdded(off, n, k) == [x \in 1..n + k |-> IF x <= n THEN off[x] ELSE x - n]

(* Its k bytes are labelled with it and their offsets.                     *)
LEMMA LabelsAdded ==
  ASSUME NEW W, NEW w \in Nat, Len(W) = w, NEW n \in Nat, NEW num, NEW off, NEW bytes,
         Labelled(W, num, off, n, bytes), NEW V, Len(V) = w + 1, \A v \in 1..w : V[v] = W[v],
         NEW k \in Nat \ {0}, V[w + 1].k = k, NEW now, \A x \in 1..n : now[x] = bytes[x],
         \A i \in 1..k : now[n + i] = V[w + 1].f[i]
  PROVE  Labelled(V, NumAdded(num, n, k, w + 1), OffAdded(off, n, k), n + k, now)
<1> DEFINE u == NumAdded(num, n, k, w + 1)
           o == OffAdded(off, n, k)
<1>1. /\ \A x \in 1..n : u[x] = num[x] /\ o[x] = off[x]
      /\ \A x \in n + 1..n + k : u[x] = w + 1 /\ o[x] = x - n
  BY DEF NumAdded, OffAdded
<1>2. /\ num \in [1..n -> 1..w] /\ off \in [1..n -> Nat \ {0}]
      /\ \A x \in 1..n : ByteOf(W, num, off, n, bytes, x)
      /\ \A x, y \in 1..n : x < y => Follows(num, off, x, y)
  BY DEF Labelled
<1>3. u \in [1..n + k -> 1..w + 1] /\ o \in [1..n + k -> Nat \ {0}]
  BY <1>2 DEF NumAdded, OffAdded
<1> HIDE DEF u, o
<1>4. ASSUME NEW x \in 1..n + k PROVE ByteOf(V, u, o, n + k, now, x)
  <2>1. CASE x \in 1..n
    <3>1. /\ u[x] = num[x] /\ o[x] = off[x] /\ now[x] = bytes[x] /\ V[num[x]] = W[num[x]]
          /\ ByteOf(W, num, off, n, bytes, x)
      BY <1>1, <1>2, <2>1
    <3>2. x < n => x < n + k /\ u[x + 1] = num[x + 1]
      BY <1>1, <2>1
    <3>3. /\ off[x] <= W[num[x]].k /\ bytes[x] = W[num[x]].f[off[x]]
          /\ off[x] = W[num[x]].k \/ (x < n /\ num[x + 1] = num[x])
      BY <3>1 DEF ByteOf
    <3>4. /\ o[x] <= V[u[x]].k /\ now[x] = V[u[x]].f[o[x]]
          /\ o[x] = V[u[x]].k \/ (x < n + k /\ u[x + 1] = u[x])
      BY <3>1, <3>2, <3>3, Zenon
    <3> QED
      BY <3>4 DEF ByteOf
  <2>2. CASE x \in n + 1..n + k
    <3>1. u[x] = w + 1 /\ o[x] = x - n
      BY <1>1, <2>2
    <3>2. x - n \in 1..k /\ n + (x - n) = x
      BY <2>2
    <3>3. now[x] = V[w + 1].f[x - n]
      <4>1. now[n + (x - n)] = V[w + 1].f[x - n]
        BY <3>2
      <4> QED
        BY <3>2, <4>1
    <3>4. x - n = k \/ (x < n + k /\ u[x + 1] = w + 1)
      BY <1>1, <2>2
    <3>5. x - n <= k
      BY <3>2
    <3>6. /\ o[x] <= V[u[x]].k /\ now[x] = V[u[x]].f[o[x]]
          /\ o[x] = V[u[x]].k \/ (x < n + k /\ u[x + 1] = u[x])
      BY <3>1, <3>3, <3>4, <3>5, Zenon
    <3> QED
      BY <3>6 DEF ByteOf
  <2> QED
    BY <2>1, <2>2
<1>5. ASSUME NEW x \in 1..n + k, NEW y \in 1..n + k, x < y PROVE Follows(u, o, x, y)
  <2>1. CASE y \in 1..n
    <3>1. x \in 1..n /\ Follows(num, off, x, y)
      BY <1>2, <1>5, <2>1
    <3>2. \A s \in x..y : u[s] = num[s] /\ o[s] = off[s]
      BY <1>1, <2>1
    <3>3. x \in x..y /\ y \in x..y /\ \A s \in x + 1..y : s \in x..y
      BY <1>5
    <3> QED
      BY <3>1, <3>2, <3>3 DEF Follows
  <2>2. CASE y \in n + 1..n + k /\ x \in n + 1..n + k
    <3>1. u[x] = w + 1 /\ o[x] = x - n /\ u[y] = w + 1 /\ o[y] = y - n
      BY <1>1, <2>2
    <3>2. y - n = (x - n) + (y - x)
      OBVIOUS
    <3> QED
      BY <3>1, <3>2 DEF Follows
  <2>3. CASE y \in n + 1..n + k /\ x \in 1..n
    <3>1. u[x] \in 1..w /\ u[y] = w + 1
      BY <1>1, <1>2, <2>3
    <3>2. n + 1 \in x + 1..y /\ n + 1 \in n + 1..n + k
      BY <2>3
    <3>3. u[n + 1] = u[y] /\ o[n + 1] = 1
      BY <1>1, <3>1, <3>2
    <3>4. u[x] < u[y]
      BY <3>1
    <3> QED
      BY <3>2, <3>3, <3>4 DEF Follows
  <2> QED
    BY <2>1, <2>2, <2>3, <1>5
<1>6. Labelled(V, u, o, n + k, now)
  BY <1>3, <1>4, <1>5 DEF Labelled
<1> QED
  BY <1>6 DEF u, o

-----------------------------------------------------------------------------
(* As long as no read has bytes of two writes, every byte of buf and net   *)
(* has its label.                                                          *)

Origin(W, num, off, used) ==
  /\ Written(W, sent) /\ Labelled(W, num, off, B + M, buf \o net)
  /\ Unread(num, off, B, M, ends) /\ InHand(num, off, B, buf \o net, Len(rest), rest)
  /\ Pushed(W, num, off, B + M, used, G, got)

OriginInv == alone => \E W, num, off, used : Origin(W, num, off, used)

(* The bytes of buf, and behind them of net                                *)
LEMMA Stream ==
  ASSUME TypeOK
  PROVE  /\ Joined(buf \o net, buf, B, net, M) /\ B \in Nat /\ M \in Nat /\ G \in Nat
         /\ buf \in Seq(Nat) /\ net \in Seq(Nat) /\ rest \in Seq(Nat) /\ Len(rest) \in Nat
         /\ sent \in Seq(Packets)
BY CountTypes, ConcatBytes DEF TypeOK, B, M

(* A write is recorded, and its bytes are labelled.                        *)
LEMMA OriginWrite ==
  ASSUME TypeOK, TypeOK', OriginInv, NEW p \in Packets, NEW f \in PackRequest(p),
         NEW k \in 1..Len(f), k \in TornAt \cup {Len(f)}, Write(p, f, k)
  PROVE  OriginInv'
<1> SUFFICES ASSUME alone' PROVE (\E W, num, off, used : Origin(W, num, off, used))'
  BY DEF OriginInv
<1>1. /\ alone /\ buf' = buf /\ rest' = rest /\ got' = got
      /\ net' = net \o First(f, k) /\ ends' = ends \cup {Len(net')}
      /\ sent' = IF k = Len(f) /\ ~Refused(p) THEN Append(sent, p) ELSE sent
  BY DEF Write, receiver
<1>2. PICK W, num, off, used : Origin(W, num, off, used)
  BY <1>1 DEF OriginInv
<1>3. /\ B \in Nat /\ M \in Nat /\ G \in Nat /\ buf \in Seq(Nat) /\ net \in Seq(Nat)
      /\ sent \in Seq(Packets) /\ Joined(buf \o net, buf, B, net, M)
  BY Stream
<1> DEFINE i == IF k = Len(f) /\ ~Refused(p) THEN Len(sent) + 1 ELSE 0
           r == [p |-> p, f |-> f, k |-> k, i |-> i]
           V == Append(W, r)
           w == Len(W)
           n == B + M
           S == buf \o net
           T == buf \o net'
           u == NumAdded(num, n, k, w + 1)
           o == OffAdded(off, n, k)
<1>4. /\ f \in Seq(Nat) /\ Len(f) \in Nat /\ k \in Nat \ {0} /\ k <= Len(f)
  <2>1. f \in Seq(Nat) /\ Len(f) \in Nat
    BY PackRequestType
  <2> QED
    BY <2>1
<1>5. /\ Written(V, sent') /\ Len(V) = w + 1 /\ w \in Nat /\ V[w + 1] = r
      /\ \A v \in 1..w : V[v] = W[v]
  <2>1. /\ i \in Nat /\ (k = Len(f) /\ ~Refused(p) <=> i # 0) /\ (i # 0 => i = Len(sent) + 1)
        /\ sent' = IF i # 0 THEN Append(sent, p) ELSE sent
    <3>1. Len(sent) \in Nat
      BY <1>3, LenProperties
    <3>2. Len(sent) + 1 \in Nat /\ Len(sent) + 1 # 0
      BY <3>1
    <3> QED
      BY <1>1, <3>2
  <2> HIDE DEF i
  <2>2. Written(W, sent) /\ Record(p, f, k, sent, i, r)
    BY <1>2, <2>1 DEF Origin, Record
  <2> HIDE DEF r
  <2>3. Recorded(W, r, sent')
    BY <1>3, <2>1, <2>2, WriteRecorded
  <2> QED
    BY <2>3 DEF Recorded
<1>6. V[w + 1].k = k /\ V[w + 1].f = f
  BY <1>5
<1> HIDE DEF i, r, V
<1>7. Joined(net', net, M, First(f, k), k) /\ First(f, k) \in Seq(Nat) /\ \A j \in 1..k : First(f, k)[j] = f[j]
  <2>1. First(f, k) \in Seq(Nat) /\ Len(First(f, k)) = k
    BY <1>4, CutType
  <2>2. Joined(net \o First(f, k), net, Len(net), First(f, k), Len(First(f, k)))
    BY <1>3, <2>1, ConcatBytes
  <2>3. \A j \in 1..k : First(f, k)[j] = f[j]
    BY <1>4, FirstBytes
  <2> QED
    BY <1>1, <2>1, <2>2, <2>3, Zenon DEF M
<1>8. M' = M + k /\ net' \in Seq(Nat)
  BY <1>7 DEF Joined, M
<1>9. Joined(T, buf, B, net', M + k)
  <2>1. Joined(buf \o net', buf, Len(buf), net', Len(net'))
    BY <1>3, <1>8, ConcatBytes
  <2> QED
    BY <1>8, <2>1, Zenon DEF B, M
<1> HIDE DEF S, T, n
<1>10. \A x \in 1..n : T[x] = S[x]
  <2> SUFFICES ASSUME NEW x \in 1..n PROVE T[x] = S[x]
    OBVIOUS
  <2>1. CASE x \in 1..B
    BY <1>3, <1>9, <2>1 DEF Joined, S
  <2>2. CASE x \in B + 1..B + M
    <3>1. x - B \in 1..M /\ x \in B + 1..B + (M + k)
      BY <1>3, <1>4, <2>2
    <3>2. T[x] = net'[x - B] /\ S[x] = net[x - B] /\ net'[x - B] = net[x - B]
      BY <1>3, <1>7, <1>9, <2>2, <3>1 DEF Joined, S
    <3> QED
      BY <3>2
  <2> QED
    BY <1>3, <2>1, <2>2 DEF n
<1>11. \A j \in 1..k : T[n + j] = f[j]
  <2> SUFFICES ASSUME NEW j \in 1..k PROVE T[n + j] = f[j]
    OBVIOUS
  <2>1. /\ n + j \in B + 1..B + (M + k) /\ (n + j) - B = M + j /\ M + j \in M + 1..M + k
        /\ (M + j) - M = j
    BY <1>3, <1>4 DEF n
  <2>2. T[n + j] = net'[M + j]
    BY <1>9, <2>1 DEF Joined
  <2>3. net'[M + j] = First(f, k)[j]
    BY <1>7, <2>1 DEF Joined
  <2> QED
    BY <1>7, <2>2, <2>3
<1>12. n \in Nat /\ n + k = B + (M + k)
  BY <1>3, <1>4 DEF n
<1>13. Labelled(W, num, off, n, S) /\ Unread(num, off, B, M, ends) /\ InHand(num, off, B, S, Len(rest), rest)
       /\ Pushed(W, num, off, n, used, G, got)
  BY <1>2 DEF Origin, S, n
<1>14. Labelled(V, u, o, n + k, T)
  <2>1. \A j \in 1..k : T[n + j] = V[w + 1].f[j]
    BY <1>6, <1>11
  <2> HIDE DEF u, o
  <2> DEFINE y == w
  <2>2. Len(W) = y /\ y \in Nat /\ Len(V) = y + 1 /\ \A v \in 1..y : V[v] = W[v]
    BY <1>5
  <2> HIDE DEF y
  <2>3. V[y + 1].k = k /\ \A j \in 1..k : T[n + j] = V[y + 1].f[j]
    BY <1>6, <2>1 DEF y
  <2>4. Labelled(V, NumAdded(num, n, k, y + 1), OffAdded(off, n, k), n + k, T)
    <3>1. n \in Nat /\ k \in Nat \ {0} /\ Labelled(W, num, off, n, S) /\ \A x \in 1..n : T[x] = S[x]
      BY <1>4, <1>10, <1>12, <1>13
    <3> QED
      BY <2>2, <2>3, <3>1, LabelsAdded, SMTT(30)
  <2> QED
    BY <2>4 DEF u, o, y
<1>15. /\ \A x \in 1..n : u[x] = num[x] /\ o[x] = off[x]
       /\ \A x \in n + 1..n + k : u[x] = w + 1 /\ o[x] = x - n
       /\ \A x \in 1..n : num[x] \in 1..w
  <2>1. \A x \in 1..n : x \in 1..n + k /\ x <= n
    BY <1>4, <1>12
  <2>2. \A x \in n + 1..n + k : x \in 1..n + k /\ ~(x <= n)
    BY <1>4, <1>12
  <2>3. \A x \in 1..n : num[x] \in 1..w
    BY <1>13 DEF Labelled
  <2> QED
    BY <2>1, <2>2, <2>3 DEF NumAdded, OffAdded
<1> HIDE DEF u, o, w
<1>16. Unread(u, o, B, M + k, ends')
  <2>1. ends' = ends \cup {M + k}
    BY <1>1, <1>8 DEF M
  <2>2. ASSUME NEW x \in 1..M + k, NEW y \in 1..M + k, x < y
        PROVE  OneWrite(u, o, B + x, B + y) \/ \E e \in ends' : x <= e /\ e < y
    <3>1. CASE y <= M
      <4>1. x \in 1..M /\ y \in 1..M /\ B + x \in 1..n /\ B + y \in 1..n
        BY <1>3, <1>4, <2>2, <3>1 DEF n
      <4>2. OneWrite(num, off, B + x, B + y) \/ \E e \in ends : x <= e /\ e < y
        BY <1>13, <2>2, <4>1 DEF Unread
      <4> QED
        BY <1>15, <2>1, <4>1, <4>2 DEF OneWrite
    <3>2. CASE x <= M /\ M < y
      <4>1. M \in ends /\ x <= M /\ M < y
        BY <1>3, <1>13, <3>2 DEF Unread
      <4> QED
        BY <2>1, <4>1
    <3>3. CASE M < x
      <4>1. B + x \in n + 1..n + k /\ B + y \in n + 1..n + k
        BY <1>3, <1>4, <2>2, <3>3 DEF n
      <4>2. (B + y) - n = ((B + x) - n) + ((B + y) - (B + x))
        BY <1>3, <1>12
      <4> QED
        BY <1>15, <4>1, <4>2 DEF OneWrite
    <3> QED
      BY <1>3, <2>2, <3>1, <3>2, <3>3
  <2>3. M + k \in ends'
    BY <2>1
  <2> QED
    BY <2>2, <2>3 DEF Unread
<1>17. InHand(u, o, B, T, Len(rest'), rest')
  <2> DEFINE h == Len(rest)
  <2>1. h \in Nat /\ h <= B /\ Len(rest') = h /\ rest' = rest
    BY <1>1, <1>13, Stream DEF InHand
  <2>2. /\ \A j \in 1..h : rest[j] = S[B - h + j]
        /\ \A x, y \in B - h + 1..B : x < y => OneWrite(num, off, x, y)
    BY <1>13 DEF InHand
  <2> HIDE DEF h
  <2>3. /\ \A j \in 1..h : B - h + j \in 1..n
        /\ \A x \in B - h + 1..B : x \in 1..n
    BY <1>3, <2>1 DEF n
  <2>4. \A j \in 1..h : rest[j] = T[B - h + j]
    BY <1>10, <2>2, <2>3
  <2>5. \A x, y \in B - h + 1..B : x < y => OneWrite(u, o, x, y)
    BY <1>15, <2>2, <2>3 DEF OneWrite
  <2> QED
    BY <2>1, <2>4, <2>5 DEF InHand
<1>18. Pushed(V, u, o, n + k, used, G, got)
  <2>1. /\ used \in [1..G -> 1..w]
        /\ \A j \in 1..G : /\ W[used[j]].i # 0
                           /\ got[j] = W[used[j]].p \/ HasHead(got[j].data)
        /\ \A x, y \in 1..G : x < y => used[x] < used[y]
        /\ \A x \in 1..n : off[x] = 1 => \A j \in 1..G : used[j] < num[x]
    BY <1>13 DEF Pushed, w
  <2>2. w \in Nat /\ Len(V) = w + 1 /\ \A v \in 1..w : V[v] = W[v]
    BY <1>5 DEF w
  <2>3. used \in [1..G -> 1..Len(V)]
    BY <2>1, <2>2
  <2>4. \A j \in 1..G : used[j] \in 1..w /\ V[used[j]] = W[used[j]]
    BY <2>1, <2>2
  <2>5. ASSUME NEW x \in 1..n + k, o[x] = 1, NEW j \in 1..G PROVE used[j] < u[x]
    <3>1. CASE x \in 1..n
      BY <1>15, <2>1, <2>5, <3>1
    <3>2. CASE x \in n + 1..n + k
      <4>1. u[x] = w + 1
        BY <1>15, <3>2
      <4> QED
        BY <2>2, <2>4, <4>1
    <3> QED
      BY <1>4, <1>12, <3>1, <3>2
  <2> QED
    BY <2>1, <2>3, <2>4, <2>5 DEF Pushed
<1>19. /\ B' = B /\ G' = G /\ B' + M' = n + k /\ M' = M + k /\ buf' \o net' = T
  BY <1>1, <1>8, <1>12 DEF B, G, T
<1>20. /\ Written(V, sent') /\ Labelled(V, u, o, B' + M', buf' \o net')
       /\ Unread(u, o, B', M', ends') /\ InHand(u, o, B', buf' \o net', Len(rest'), rest')
       /\ Pushed(V, u, o, B' + M', used, G', got')
  <2>1. Written(V, sent')
    BY <1>5
  <2>2. Labelled(V, u, o, B' + M', buf' \o net')
    BY <1>14, <1>19, Zenon
  <2>3. Unread(u, o, B', M', ends')
    BY <1>16, <1>19, Zenon
  <2>4. InHand(u, o, B', buf' \o net', Len(rest'), rest')
    BY <1>17, <1>19, Zenon
  <2>5. Pushed(V, u, o, B' + M', used, G', got')
    BY <1>1, <1>18, <1>19, Zenon
  <2> QED
    BY <2>1, <2>2, <2>3, <2>4, <2>5
<1>21. \E v, x, y : /\ Written(v, sent') /\ Labelled(v, x, y, B' + M', buf' \o net')
                   /\ Unread(x, y, B', M', ends') /\ InHand(x, y, B', buf' \o net', Len(rest'), rest')
                   /\ Pushed(v, x, y, B' + M', used, G', got')
  BY <1>20, Zenon
<1> QED
  BY <1>21, Zenon DEF Origin

(* A read of bytes of one write moves them, with their labels.             *)
LEMMA OriginRecv ==
  ASSUME TypeOK, TypeOK', OriginInv, NEW k \in 1..SOCKET_MAX_SIZE, Recv(k)
  PROVE  OriginInv'
<1> SUFFICES ASSUME alone' PROVE (\E W, num, off, used : Origin(W, num, off, used))'
  BY DEF OriginInv
<1>1. /\ alone /\ ends \cap (1..k - 1) = {} /\ got' = got /\ sent' = sent /\ k <= M
      /\ rest' = First(net, k) /\ net' = AfterFirst(net, k) /\ buf' = buf \o rest'
      /\ ends' = {e - k : e \in {end \in ends : end > k}}
  BY DEF Recv, M
<1>2. PICK W, num, off, used : Origin(W, num, off, used)
  BY <1>1 DEF OriginInv
<1> DEFINE S == buf \o net
<1>3. /\ B \in Nat /\ M \in Nat /\ G \in Nat /\ buf \in Seq(Nat) /\ net \in Seq(Nat)
      /\ Joined(S, buf, B, net, M) /\ ends \subseteq 1..M /\ k \in Nat \ {0}
  <2>1. k \in Nat \ {0}
    BY Sizes
  <2> QED
    BY <2>1, Stream DEF TypeOK, M
<1>4. /\ Labelled(W, num, off, B + M, S) /\ Unread(num, off, B, M, ends)
      /\ Pushed(W, num, off, B + M, used, G, got) /\ Written(W, sent)
  BY <1>2 DEF Origin
<1>5. /\ rest' \in Seq(Nat) /\ Len(rest') = k /\ net' \in Seq(Nat) /\ Len(net') = M - k
      /\ rest' \o net' = net
  BY <1>1, <1>3, CutType DEF M
<1>6. G' = G /\ B' = B + k /\ M' = M - k
  <2>1. Len(buf \o rest') = Len(buf) + Len(rest')
    BY <1>3, <1>5, ConcatProperties
  <2>2. B' = B + k
    BY <1>1, <1>5, <2>1, Zenon DEF B
  <2> QED
    BY <1>1, <1>5, <2>2, Zenon DEF G, M
<1>7. buf' \o net' = S
  <2>1. (buf \o rest') \o net' = buf \o (rest' \o net')
    BY <1>3, <1>5, BytesJoined, Zenon
  <2>2. buf' \o net' = (buf \o rest') \o net'
    BY <1>1, Zenon
  <2>3. buf \o (rest' \o net') = buf \o net
    BY <1>5, Zenon
  <2> QED
    BY <2>1, <2>2, <2>3, Zenon
<1> HIDE DEF S
<1>8. B' + M' = B + M
  BY <1>3, <1>6
<1>9. Unread(num, off, B + k, M - k, ends')
  <2>1. ASSUME NEW x \in 1..M - k, NEW y \in 1..M - k, x < y
        PROVE  OneWrite(num, off, B + k + x, B + k + y) \/ \E e \in ends' : x <= e /\ e < y
    <3>1. k + x \in 1..M /\ k + y \in 1..M /\ k + x < k + y
      BY <1>3, <2>1
    <3>2. OneWrite(num, off, B + (k + x), B + (k + y)) \/ \E e \in ends : k + x <= e /\ e < k + y
      BY <1>4, <3>1 DEF Unread
    <3>3. CASE OneWrite(num, off, B + (k + x), B + (k + y))
      <4>1. B + (k + x) = B + k + x /\ B + (k + y) = B + k + y
        BY <1>3
      <4> QED
        BY <3>3, <4>1
    <3>4. ASSUME NEW e \in ends, k + x <= e, e < k + y PROVE \E j \in ends' : x <= j /\ j < y
      <4>1. e > k /\ x <= e - k /\ e - k < y
        BY <1>3, <3>4
      <4>2. e - k \in ends'
        BY <1>1, <4>1
      <4> QED
        BY <4>1, <4>2
    <3> QED
      BY <3>2, <3>3, <3>4
  <2>2. ASSUME M - k > 0 PROVE M - k \in ends'
    <3>1. M \in ends /\ M > k
      BY <1>3, <1>4, <2>2 DEF Unread
    <3> QED
      BY <1>1, <3>1
  <2> QED
    BY <2>1, <2>2 DEF Unread
<1>10. InHand(num, off, B + k, S, k, rest')
  <2>1. k <= B + k
    BY <1>3
  <2>2. ASSUME NEW i \in 1..k PROVE rest'[i] = S[(B + k) - k + i]
    <3>1. rest'[i] = net[i]
      BY <1>1, <1>3, FirstBytes DEF M
    <3>2. (B + k) - k + i = B + i /\ B + i \in B + 1..B + M /\ (B + i) - B = i
      BY <1>1, <1>3
    <3>3. S[B + i] = net[i]
      BY <1>3, <3>2 DEF Joined
    <3> QED
      BY <3>1, <3>2, <3>3
  <2>3. ASSUME NEW x \in (B + k) - k + 1..B + k, NEW y \in (B + k) - k + 1..B + k, x < y
        PROVE  OneWrite(num, off, x, y)
    <3>1. /\ x - B \in 1..k /\ y - B \in 1..k /\ x - B < y - B /\ B + (x - B) = x /\ B + (y - B) = y
          /\ x - B \in 1..M /\ y - B \in 1..M
      BY <1>1, <1>3, <2>3
    <3>2. OneWrite(num, off, B + (x - B), B + (y - B)) \/ \E e \in ends : x - B <= e /\ e < y - B
      BY <1>4, <3>1 DEF Unread
    <3>3. ASSUME NEW e \in ends, x - B <= e, e < y - B PROVE FALSE
      <4>1. e \in 1..k - 1
        BY <1>3, <3>1, <3>3
      <4> QED
        BY <1>1, <4>1
    <3> QED
      BY <3>1, <3>2, <3>3
  <2> QED
    BY <2>1, <2>2, <2>3 DEF InHand
<1>11. /\ Written(W, sent') /\ Labelled(W, num, off, B' + M', buf' \o net')
       /\ Unread(num, off, B', M', ends') /\ InHand(num, off, B', buf' \o net', Len(rest'), rest')
       /\ Pushed(W, num, off, B' + M', used, G', got')
  <2>1. Written(W, sent') /\ Labelled(W, num, off, B' + M', buf' \o net')
    BY <1>1, <1>4, <1>7, <1>8, Zenon
  <2>2. Unread(num, off, B', M', ends')
    BY <1>6, <1>9, Zenon
  <2>3. InHand(num, off, B', buf' \o net', Len(rest'), rest')
    BY <1>5, <1>6, <1>7, <1>10, Zenon
  <2>4. Pushed(W, num, off, B' + M', used, G', got')
    BY <1>1, <1>4, <1>6, <1>8, Zenon
  <2> QED
    BY <2>1, <2>2, <2>3, <2>4
<1> QED
  BY <1>11, Zenon DEF Origin

(* c is what is left of the n bytes s without the first d. *)
Left(c, s, n, d) ==
  c \in Seq(Nat) /\ d \in 0..n /\ Len(c) = n - d /\ \A x \in 1..n - d : c[x] = s[d + x]

(* Nothing, all and more may be dropped.                                   *)
LEMMA Dropping ==
  ASSUME NEW s \in Seq(Nat), NEW n \in Nat, Len(s) = n
  PROVE  /\ Left(s, s, n, 0) /\ Left(<< >>, s, n, n)
         /\ \A c, d, k : Left(c, s, n, d) /\ k \in 0..n - d => Left(AfterFirst(c, k), s, n, d + k)
<1>1. Left(s, s, n, 0)
  <2>1. n - 0 = n /\ \A x \in 1..n : 0 + x = x
    OBVIOUS
  <2> QED
    BY <2>1 DEF Left
<1>2. Left(<< >>, s, n, n)
  <2>1. n - n = 0 /\ Len(<< >>) = 0 /\ << >> \in Seq(Nat)
    BY EmptySeq
  <2> QED
    BY <2>1 DEF Left
<1>3. ASSUME NEW c, NEW d, NEW k, Left(c, s, n, d), k \in 0..n - d
      PROVE  Left(AfterFirst(c, k), s, n, d + k)
  <2>1. /\ c \in Seq(Nat) /\ d \in 0..n /\ Len(c) = n - d /\ \A x \in 1..n - d : c[x] = s[d + x]
    BY <1>3 DEF Left
  <2>2. k \in Nat /\ d \in Nat /\ k <= n - d /\ d + k \in 0..n /\ (n - d) - k = n - (d + k)
    BY <1>3, <2>1
  <2> DEFINE u == AfterFirst(c, k)
             l == n - d
  <2>3. l \in Nat /\ k <= l /\ Len(c) = l /\ l - k = n - (d + k)
    BY <2>1, <2>2
  <2>4. u \in Seq(Nat) /\ Len(u) = l - k
    <3>1. c \in Seq(Nat) /\ k \in Nat /\ k <= Len(c) /\ Len(c) = l
      BY <2>1, <2>2, <2>3
    <3> HIDE DEF l
    <3>2. u \in Seq(Nat) /\ Len(u) = Len(c) - k
      BY <3>1, CutType
    <3> QED
      BY <3>1, <3>2
  <2>5. \A x \in 1..l - k : u[x] = c[k + x]
    <3>1. c \in Seq(Nat) /\ l \in Nat /\ Len(c) = l /\ k \in 0..l
      BY <2>1, <2>2, <2>3
    <3> HIDE DEF l
    <3> QED
      BY <3>1, RestBytes
  <2> HIDE DEF u, l
  <2>6. ASSUME NEW x \in 1..n - (d + k) PROVE u[x] = s[d + k + x]
    <3>1. x \in 1..l - k /\ k + x \in 1..n - d /\ d + (k + x) = d + k + x
      BY <1>3, <2>1, <2>2, <2>3
    <3>2. c[k + x] = s[d + (k + x)]
      BY <2>1, <3>1
    <3> QED
      BY <2>5, <3>1, <3>2
  <2> QED
    BY <2>2, <2>3, <2>4, <2>6 DEF Left, u
<1> QED
  BY <1>1, <1>2, <1>3

(* What OnRecvMsg leaves of buf, and appends again                         *)
LEMMA OriginMoved ==
  ASSUME TypeOK, NEW W, NEW num, NEW off, NEW used, Origin(W, num, off, used),
         NEW d \in 0..B, NEW kept, Left(kept, buf, B, d), NEW r \in 0..B - d, NEW again \in Seq(Nat),
         Len(again) = r, \A i \in 1..r : again[i] = (buf \o net)[B - r + i],
         \A x \in B - r + 1..B : BODY < off[x],
         \A x, y \in B - r + 1..B : x < y => OneWrite(num, off, x, y),
         Handled(kept, again), NEW now,
         Pushed(W, Moved(num, B + M, B, d, r), Moved(off, B + M, B, d, r), (B + M) - d + r, now, G', got')
  PROVE  OriginInv'
<1> DEFINE n == B + M
           S == buf \o net
           T == buf' \o net'
           b == B - d + r
           u == Moved(num, n, B, d, r)
           o == Moved(off, n, B, d, r)
<1>1. /\ B \in Nat /\ M \in Nat /\ buf \in Seq(Nat) /\ net \in Seq(Nat) /\ Joined(S, buf, B, net, M)
  BY Stream
<1>2. /\ kept \in Seq(Nat) /\ Len(kept) = B - d /\ \A x \in 1..B - d : kept[x] = buf[d + x]
  BY DEF Left
<1>3. buf' = kept \o again /\ rest' = again /\ net' = net /\ sent' = sent /\ ends' = ends
  BY DEF Handled, history
<1>4. Joined(buf', kept, B - d, again, r)
  <2>1. Joined(kept \o again, kept, Len(kept), again, Len(again))
    BY <1>2, ConcatBytes
  <2> QED
    BY <1>2, <1>3, <2>1, Zenon
<1>5. b \in Nat /\ B - d \in Nat /\ (B - d) + r = b /\ n - d + r = b + M /\ n \in Nat /\ r \in Nat
  BY <1>1
<1>6. B' = b /\ M' = M /\ buf' \in Seq(Nat)
  <2> HIDE DEF b
  <2>1. buf' \in Seq(Nat) /\ Len(buf') = b
    BY <1>4, <1>5 DEF Joined
  <2> QED
    BY <1>3, <2>1 DEF B, M
<1>7. Joined(T, buf', b, net, M)
  <2>1. Joined(buf' \o net, buf', Len(buf'), net, Len(net))
    BY <1>1, <1>6, ConcatBytes
  <2>2. Len(buf') = b /\ Len(net) = M /\ T = buf' \o net
    BY <1>3, <1>6 DEF B, M
  <2> HIDE DEF b, T
  <2> QED
    BY <2>1, <2>2, Zenon
<1> HIDE DEF S, T
<1>8. ASSUME NEW x \in 1..b + M PROVE T[x] = S[Before(B, d, r, x)]
  <2>1. CASE x <= B - d
    <3>1. /\ x \in 1..B - d /\ x \in 1..b /\ Before(B, d, r, x) = x + d /\ x + d \in 1..B /\ d + x = x + d
      BY <1>1, <1>5, <2>1 DEF Before
    <3> HIDE DEF b
    <3>2. T[x] = buf'[x] /\ buf'[x] = kept[x] /\ kept[x] = buf[d + x]
      BY <1>2, <1>4, <1>7, <3>1 DEF Joined
    <3>3. S[x + d] = buf[x + d]
      BY <1>1, <3>1 DEF Joined
    <3> QED
      BY <3>1, <3>2, <3>3
  <2>2. CASE B - d < x /\ x <= b
    <3>1. /\ x \in (B - d) + 1..(B - d) + r /\ x \in 1..b /\ Before(B, d, r, x) = x + d - r
          /\ x - (B - d) \in 1..r /\ B - r + (x - (B - d)) = x + d - r
      BY <1>1, <1>5, <2>2 DEF Before
    <3> HIDE DEF b
    <3>2. T[x] = buf'[x] /\ buf'[x] = again[x - (B - d)]
      BY <1>4, <1>7, <3>1 DEF Joined
    <3>3. again[x - (B - d)] = S[B - r + (x - (B - d))]
      BY <3>1 DEF S
    <3> QED
      BY <3>1, <3>2, <3>3
  <2>3. CASE b < x
    <3>1. /\ x \in b + 1..b + M /\ ~(x <= B - d) /\ x + d - r \in B + 1..B + M
          /\ (x + d - r) - B = x - b
      BY <1>1, <1>5, <2>3
    <3>2. Before(B, d, r, x) = x + d - r
      BY <3>1 DEF Before
    <3> HIDE DEF b
    <3>3. T[x] = net[x - b] /\ S[x + d - r] = net[(x + d - r) - B]
      BY <1>1, <1>7, <3>1 DEF Joined
    <3> QED
      BY <3>1, <3>2, <3>3
  <2> QED
    BY <1>5, <2>1, <2>2, <2>3
<1>9. /\ Written(W, sent) /\ Labelled(W, num, off, n, S) /\ Unread(num, off, B, M, ends)
  BY DEF Origin, S
<1>10. Labelled(W, u, o, b + M, T)
  <2>1. Len(W) \in Nat
    BY <1>9, LenProperties DEF Written
  <2>2. B \in 0..n /\ \A x \in 1..n - d + r : T[x] = S[Before(B, d, r, x)]
    BY <1>1, <1>5, <1>8
  <2> HIDE DEF n, b, u, o
  <2>3. Labelled(W, Moved(num, n, B, d, r), Moved(off, n, B, d, r), n - d + r, T)
    BY <1>5, <1>9, <2>1, <2>2, LabelsMoved
  <2> QED
    BY <1>5, <2>3 DEF u, o
<1>11. \A x \in 1..b + M : u[x] = num[Before(B, d, r, x)] /\ o[x] = off[Before(B, d, r, x)]
  BY <1>5 DEF Moved
<1> HIDE DEF u, o
<1>12. Unread(u, o, b, M, ends)
  <2>1. ASSUME NEW x \in 1..M PROVE u[b + x] = num[B + x] /\ o[b + x] = off[B + x]
    <3>1. b + x \in 1..b + M /\ ~(b + x <= B - d) /\ b + x + d - r = B + x
      BY <1>1, <1>5
    <3>2. Before(B, d, r, b + x) = B + x
      BY <3>1 DEF Before
    <3> HIDE DEF b
    <3> QED
      BY <1>11, <3>1, <3>2
  <2>2. \A x, y : (b + y) - (b + x) = y - x \/ x \notin Int \/ y \notin Int
    BY <1>5
  <2>3. ASSUME NEW x \in 1..M, NEW y \in 1..M, x < y
        PROVE  OneWrite(u, o, b + x, b + y) \/ \E e \in ends : x <= e /\ e < y
    <3>1. OneWrite(num, off, B + x, B + y) \/ \E e \in ends : x <= e /\ e < y
      BY <1>9, <2>3 DEF Unread
    <3>2. (b + y) - (b + x) = (B + y) - (B + x)
      BY <1>1, <1>5
    <3> HIDE DEF b
    <3> QED
      BY <2>1, <3>1, <3>2 DEF OneWrite
  <2>4. M > 0 => M \in ends
    BY <1>9 DEF Unread
  <2> QED
    BY <2>3, <2>4 DEF Unread
<1>13. InHand(u, o, b, T, r, again)
  <2>1. r <= b
    BY <1>5
  <2>2. ASSUME NEW i \in 1..r PROVE again[i] = T[b - r + i]
    <3>1. /\ b - r + i \in 1..b + M /\ ~(b - r + i <= B - d) /\ (b - r + i) + d - r = B - r + i
      BY <1>1, <1>5
    <3>2. Before(B, d, r, b - r + i) = B - r + i
      BY <3>1 DEF Before
    <3> HIDE DEF b
    <3>3. T[b - r + i] = S[B - r + i]
      BY <1>8, <3>1, <3>2
    <3> QED
      BY <3>3 DEF S
  <2>3. ASSUME NEW x \in b - r + 1..b, NEW y \in b - r + 1..b, x < y PROVE OneWrite(u, o, x, y)
    <3> DEFINE v == x + d - r
               w == y + d - r
    <3>1. /\ x \in 1..b + M /\ y \in 1..b + M /\ ~(x <= B - d) /\ ~(y <= B - d)
          /\ v \in B - r + 1..B /\ w \in B - r + 1..B /\ v < w /\ w - v = y - x
      BY <1>1, <1>5, <2>3
    <3>2. Before(B, d, r, x) = v /\ Before(B, d, r, y) = w
      BY <3>1 DEF Before
    <3> HIDE DEF b, v, w
    <3>3. OneWrite(num, off, v, w)
      BY <3>1
    <3>4. u[x] = num[v] /\ o[x] = off[v] /\ u[y] = num[w] /\ o[y] = off[w]
      BY <1>11, <3>1, <3>2
    <3> QED
      BY <3>1, <3>3, <3>4 DEF OneWrite
  <2> QED
    BY <2>1, <2>2, <2>3 DEF InHand
<1>14. Pushed(W, u, o, b + M, now, G', got')
  <2>1. n - d + r = b + M
    BY <1>5
  <2> HIDE DEF b
  <2> QED
    BY <2>1 DEF u, o, n
<1> HIDE DEF b, n
<1>15. /\ Written(W, sent') /\ Labelled(W, u, o, B' + M', buf' \o net')
       /\ Unread(u, o, B', M', ends') /\ InHand(u, o, B', buf' \o net', Len(rest'), rest')
       /\ Pushed(W, u, o, B' + M', now, G', got')
  <2>1. Written(W, sent') /\ Unread(u, o, B', M', ends')
    BY <1>3, <1>6, <1>9, <1>12, Zenon
  <2>2. Labelled(W, u, o, B' + M', buf' \o net')
    BY <1>6, <1>10, Zenon DEF T
  <2>3. Len(rest') = r
    BY <1>3
  <2>4. InHand(u, o, B', buf' \o net', Len(rest'), rest')
    BY <1>3, <1>6, <1>13, <2>3, Zenon DEF T
  <2>5. Pushed(W, u, o, B' + M', now, G', got')
    BY <1>6, <1>14, Zenon
  <2> QED
    BY <2>1, <2>2, <2>4, <2>5
<1>16. \E x, y : /\ Written(W, sent') /\ Labelled(W, x, y, B' + M', buf' \o net')
                /\ Unread(x, y, B', M', ends') /\ InHand(x, y, B', buf' \o net', Len(rest'), rest')
                /\ Pushed(W, x, y, B' + M', now, G', got')
  BY <1>15, Zenon
<1> QED
  BY <1>16, Zenon DEF Origin, OriginInv

(* Moving bytes pushes nothing.                                            *)
LEMMA PushedMoved ==
  ASSUME NEW W, NEW n \in Nat, NEW num, NEW off, NEW used, NEW g, NEW packets,
         Pushed(W, num, off, n, used, g, packets),
         NEW b \in 0..n, NEW d \in 0..b, NEW r \in 0..b - d
  PROVE  Pushed(W, Moved(num, n, b, d, r), Moved(off, n, b, d, r), n - d + r, used, g, packets)
<1> DEFINE k == n - d + r
<1>1. \A x \in 1..k : Before(b, d, r, x) \in 1..n
  BY BeforeType
<1>2. \A x \in 1..k : /\ Moved(num, n, b, d, r)[x] = num[Before(b, d, r, x)]
                      /\ Moved(off, n, b, d, r)[x] = off[Before(b, d, r, x)]
  BY DEF Moved
<1> HIDE DEF k
<1>3. Pushed(W, Moved(num, n, b, d, r), Moved(off, n, b, d, r), k, used, g, packets)
  BY <1>1, <1>2 DEF Pushed
<1> QED
  BY <1>3 DEF k

(* Write w is used for one more packet. *)
UsedAdded(used, g, w) == [i \in 1..g + 1 |-> IF i <= g THEN used[i] ELSE w]

(* The packet of the frame that ends with the last byte dropped is pushed: *)
(* no start of its write, nor of an earlier one, is left.                  *)
LEMMA PushedNext ==
  ASSUME NEW W, Len(W) \in Nat, NEW n \in Nat, NEW num, NEW off, NEW bytes,
         Labelled(W, num, off, n, bytes), NEW used, NEW g \in Nat, NEW packets, NEW more,
         Pushed(W, num, off, n, used, g, packets), \A i \in 1..g : more[i] = packets[i],
         NEW b \in 0..n, NEW d \in 1..b, NEW r \in 0..b - d, W[num[d]].i # 0,
         more[g + 1] = W[num[d]].p \/ HasHead(more[g + 1].data),
         NEW s \in 1..n, off[s] = 1, num[s] = num[d]
  PROVE  Pushed(W, Moved(num, n, b, d, r), Moved(off, n, b, d, r), n - d + r,
                UsedAdded(used, g, num[d]), g + 1, more)
<1> DEFINE k == n - d + r
           u == Moved(num, n, b, d, r)
           o == Moved(off, n, b, d, r)
           z == UsedAdded(used, g, num[d])
<1>1. k \in Nat /\ \A x \in 1..k : Before(b, d, r, x) \in 1..n /\ d < Before(b, d, r, x)
  <2>1. d \in 0..b
    OBVIOUS
  <2> QED
    BY <2>1, BeforeType
<1>2. \A x \in 1..k : u[x] = num[Before(b, d, r, x)] /\ o[x] = off[Before(b, d, r, x)]
  BY DEF Moved
<1>3. /\ used \in [1..g -> 1..Len(W)]
      /\ \A i \in 1..g : /\ W[used[i]].i # 0
                         /\ packets[i] = W[used[i]].p \/ HasHead(packets[i].data)
      /\ \A i, j \in 1..g : i < j => used[i] < used[j]
      /\ \A x \in 1..n : off[x] = 1 => \A i \in 1..g : used[i] < num[x]
  BY DEF Pushed
<1>4. /\ \A i \in 1..g : z[i] = used[i]
      /\ z[g + 1] = num[d]
  BY DEF UsedAdded
<1>5. d \in 1..n /\ num \in [1..n -> 1..Len(W)] /\ off \in [1..n -> Nat \ {0}]
  BY DEF Labelled
<1>6. z \in [1..g + 1 -> 1..Len(W)]
  BY <1>3, <1>5, SMTT(30) DEF UsedAdded
<1> HIDE DEF k, u, o, z
<1>7. \A i \in 1..g : used[i] \in Nat /\ used[i] < num[d]
  BY <1>3
<1>8. ASSUME NEW y \in 1..n, d < y, off[y] = 1 PROVE num[d] < num[y]
  <2>1. Follows(num, off, d, y) /\ off[d] \in Nat \ {0} /\ 1 <= BODY
    BY <1>5, <1>8, Sizes DEF Labelled
  <2> QED
    BY <1>5, <1>8, <2>1 DEF Follows
<1>9. ASSUME NEW x \in 1..k, o[x] = 1, NEW i \in 1..g + 1 PROVE z[i] < u[x]
  <2> DEFINE y == Before(b, d, r, x)
  <2>1. y \in 1..n /\ d < y /\ u[x] = num[y] /\ off[y] = 1
    BY <1>1, <1>2, <1>9
  <2> HIDE DEF y
  <2>2. num[d] < num[y] /\ num[d] \in Nat /\ num[y] \in Nat
    BY <1>5, <1>8, <2>1, SMTT(30)
  <2>3. CASE i \in 1..g
    BY <1>4, <1>7, <2>1, <2>2, <2>3, SMTT(30)
  <2>4. CASE i = g + 1
    BY <1>4, <2>1, <2>2, <2>4
  <2> QED
    BY <2>3, <2>4
<1>10. ASSUME NEW i \in 1..g + 1, NEW j \in 1..g + 1, i < j PROVE z[i] < z[j]
  <2>1. i \in 1..g /\ (j \in 1..g \/ j = g + 1)
    BY <1>10
  <2> QED
    BY <1>3, <1>4, <1>7, <1>10, <2>1
<1>11. ASSUME NEW i \in 1..g + 1
       PROVE  W[z[i]].i # 0 /\ (more[i] = W[z[i]].p \/ HasHead(more[i].data))
  <2>1. CASE i \in 1..g
    BY <1>3, <1>4, <2>1
  <2>2. CASE i = g + 1
    BY <1>4, <2>2
  <2> QED
    BY <2>1, <2>2
<1>12. Pushed(W, u, o, k, z, g + 1, more)
  BY <1>6, <1>9, <1>10, <1>11 DEF Pushed
<1> QED
  BY <1>12 DEF k, u, o, z

(* What OnRecvMsg appends again was read with a part of one later frame    *)
(* that is longer than what HandleChunkedRead took.                        *)
LEMMA AppendedAgain ==
  ASSUME NEW W, NEW n \in Nat, NEW num, NEW off, NEW bytes, Labelled(W, num, off, n, bytes),
         NEW b \in 0..n, NEW r \in Nat, NEW last, InHand(num, off, b, bytes, r, last),
         NEW e \in 1..b, off[e] = W[num[e]].k, NEW l \in Nat, off[e] <= l, BODY <= l,
         NEW a \in Nat, a > 0, a = r - l
  PROVE  /\ a \in 0..b - e
         /\ \A x \in b - a + 1..b : BODY < off[x]
         /\ \A x, y \in b - a + 1..b : x < y => OneWrite(num, off, x, y)
         /\ \A i \in 1..a : last[l + i] = bytes[b - a + i]
<1> DEFINE z == b - r + 1
<1>1. /\ r <= b /\ \A i \in 1..r : last[i] = bytes[b - r + i]
      /\ \A x, y \in z..b : x < y => OneWrite(num, off, x, y)
  BY DEF InHand
<1>2. /\ off \in [1..n -> Nat \ {0}] /\ \A x \in 1..n : ByteOf(W, num, off, n, bytes, x)
  BY DEF Labelled
<1>3. z \in 1..b /\ z \in 1..n /\ BODY \in Nat
  BY <1>1, Sizes
<1>4. ASSUME NEW x \in z..b PROVE off[x] = off[z] + (x - z) /\ off[z] \in Nat \ {0}
  <2>1. off[z] \in Nat \ {0} /\ z \in z..b
    BY <1>2, <1>3
  <2>2. z < x => OneWrite(num, off, z, x)
    BY <1>1, <2>1
  <2>3. x = z \/ z < x
    BY <1>3
  <2>4. off[z] + (z - z) = off[z]
    BY <1>3, <2>1
  <2> HIDE DEF z
  <2> QED
    BY <2>1, <2>2, <2>3, <2>4 DEF OneWrite
<1>5. e < z
  <2> SUFFICES ASSUME z <= e PROVE FALSE
    BY <1>3
  <2>1. e \in z..b /\ e \in 1..n
    BY <1>3
  <2>2. CASE e = b
    <3>1. off[b] = off[z] + (b - z) /\ off[z] \in Nat \ {0} /\ off[b] <= l
      BY <1>4, <2>1, <2>2
    <3>2. b - z = r - 1
      OBVIOUS
    <3> HIDE DEF z
    <3> QED
      BY <3>1, <3>2
  <2>3. CASE e < b
    <3>1. e + 1 \in z..b /\ e + 1 \in 1..n /\ e < e + 1
      BY <2>1, <2>3
    <3>2. OneWrite(num, off, e, e + 1)
      BY <1>1, <2>1, <3>1
    <3>3. num[e] = num[e + 1] /\ off[e + 1] = off[e] + 1 /\ off[e] \in Nat
      <4>1. (e + 1) - e = 1
        OBVIOUS
      <4> QED
        BY <1>2, <2>1, <3>2, <4>1 DEF OneWrite
    <3>4. off[e + 1] <= W[num[e + 1]].k
      BY <1>2, <3>1 DEF ByteOf
    <3>5. off[e + 1] <= off[e]
      BY <3>3, <3>4
    <3> QED
      BY <3>3, <3>5
  <2> QED
    BY <2>1, <2>2, <2>3
<1>6. a \in 0..b - e /\ a <= r /\ b - a + 1 = z + l
  BY <1>1, <1>3, <1>5
<1>7. ASSUME NEW x \in b - a + 1..b PROVE x \in z..b /\ BODY < off[x]
  <2>1. x \in z..b /\ x - z >= l
    BY <1>3, <1>6
  <2>2. off[x] = off[z] + (x - z) /\ off[z] \in Nat \ {0}
    BY <1>4, <2>1
  <2> QED
    BY <1>3, <2>1, <2>2
<1>8. ASSUME NEW i \in 1..a PROVE last[l + i] = bytes[b - a + i]
  <2>1. l + i \in 1..r /\ b - r + (l + i) = b - a + i
    BY <1>6
  <2> QED
    BY <1>1, <2>1
<1> QED
  BY <1>1, <1>6, <1>7, <1>8

(* Where a head is found, the bytes in front of it are dropped.            *)
LEMMA HeadAhead ==
  ASSUME TypeOK, Heads # {}
  PROVE  Left(FromHead, buf, B, Min(Heads) - 1) /\ Min(Heads) - 1 \in 0..B
<1> DEFINE m == Min(Heads)
<1>1. B \in Nat /\ buf \in Seq(Nat) /\ Len(buf) = B
  BY Stream DEF B
<1>2. m \in 1..B
  BY <1>1, SearchType DEF B
<1> HIDE DEF m
<1>3. Left(buf, buf, B, 0) /\ m - 1 \in 0..B - 0 /\ 0 + (m - 1) = m - 1 /\ m - 1 \in 0..B
  BY <1>1, <1>2, Dropping
<1>4. Left(AfterFirst(buf, m - 1), buf, B, 0 + (m - 1))
  BY <1>1, <1>3, Dropping
<1>5. FromHead = AfterFirst(buf, m - 1)
  BY DEF FromHead, m
<1>6. Left(FromHead, buf, B, m - 1)
  BY <1>3, <1>4, <1>5, Zenon
<1> QED
  BY <1>3, <1>6 DEF m

(* What stands before HandleChunkedRead when it takes a frame              *)
LEMMA MessageAhead ==
  ASSUME TypeOK, Complete, TailFits
  PROVE  /\ Message(buf \o net, B + M, FromHead, Min(Heads), ContentLen)
         /\ Left(FromHead, buf, B, Min(Heads) - 1) /\ MsgLen = OVERHEAD + ContentLen
         /\ Min(Heads) \in 1..B /\ Min(Heads) - 1 + MsgLen \in 1..B
<1> DEFINE m == Min(Heads)
           c == FromHead
           val == ContentLen
           S == buf \o net
           z == Len(c)
           h == Len(HEAD)
           t == Len(TAIL)
<1>1. /\ B \in Nat /\ M \in Nat /\ Joined(S, buf, B, net, M) /\ buf \in Seq(Nat) /\ Len(buf) = B
  BY Stream DEF B
<1>2. m \in 1..B /\ c \in Seq(Nat) /\ z = B - m + 1 /\ m \in Heads
  <2>1. Heads # {} /\ Heads \in SUBSET Nat
    BY DEF Complete, Heads
  <2>2. m \in Heads
    BY <2>1, MinOfNats
  <2> QED
    BY <1>1, <2>1, <2>2, SearchType DEF B
<1>3. /\ z \in Nat /\ val \in Nat /\ MsgLen = OVERHEAD + val /\ MsgLen <= z /\ MsgLen \in Nat
  BY CompleteType DEF MsgLen
<1>4. /\ h \in Nat \ {0} /\ t \in Nat \ {0} /\ BODY \in Nat /\ OVERHEAD = BODY + t /\ OVERHEAD \in Nat
      /\ HEAD \in Seq(Nat) /\ TAIL \in Seq(Nat)
  BY Layout
<1>5. Left(c, buf, B, m - 1)
  <2>1. Heads # {}
    BY DEF Complete
  <2> QED
    BY <2>1, HeadAhead
<1>6. val = Strtol(SubSeq(c, FIELDS + 1, BODY))
  BY DEF ContentLen
<1>7. SubSeq(c, BODY + val + 1, MsgLen) = TAIL
  BY DEF TailFits
<1>8. IsX(m) /\ \E a \in {m, m + 1} : HeadAt(a)
  BY <1>2 DEF Heads
<1> HIDE DEF m, c, val, S, z, h, t
<1>9. \A x \in 1..B : S[x] = buf[x]
  BY <1>1 DEF Joined
<1>10. \A x \in 1..z : m + x - 1 \in 1..B /\ c[x] = S[m + x - 1]
  <2> SUFFICES ASSUME NEW x \in 1..z PROVE m + x - 1 \in 1..B /\ c[x] = S[m + x - 1]
    OBVIOUS
  <2>1. /\ m + x - 1 \in 1..B /\ x \in 1..B - (m - 1) /\ (m - 1) + x = m + x - 1
    BY <1>1, <1>2, <1>3
  <2>2. c[x] = buf[(m - 1) + x]
    BY <1>5, <2>1 DEF Left
  <2> QED
    BY <1>9, <2>1, <2>2
<1>11. \E a \in {m, m + 1} : a + h - 1 <= B + M /\ \A j \in 1..h : S[a + j - 1] = HEAD[j]
  <2>1. PICK a \in {m, m + 1} : HeadAt(a)
    BY <1>8
  <2>2. a \in Nat \ {0} /\ a + h - 1 <= B /\ SubSeq(buf, a, a + h - 1) = HEAD
    BY <1>1, <1>2, <2>1 DEF HeadAt, h, B
  <2>3. /\ a + h - 1 \in Int /\ a + h - 1 <= B + M /\ (a + h - 1) - a + 1 = h
        /\ \A j \in 1..h : a + j - 1 \in 1..B
    BY <1>1, <1>4, <2>2
  <2>4. \A j \in 1..(a + h - 1) - a + 1 : SubSeq(buf, a, a + h - 1)[j] = buf[a + j - 1]
    BY <1>1, <2>2, <2>3, SubSeqType
  <2>5. \A j \in 1..h : HEAD[j] = buf[a + j - 1]
    BY <2>2, <2>3, <2>4
  <2>6. \A j \in 1..h : S[a + j - 1] = HEAD[j]
    BY <1>9, <2>3, <2>5
  <2> QED
    BY <2>3, <2>6
<1>12. /\ OVERHEAD + val <= z /\ m + OVERHEAD + val - 1 <= B /\ m - 1 + MsgLen \in 1..B
       /\ m - 1 + MsgLen = m + OVERHEAD + val - 1
  <2>1. t + BODY = OVERHEAD /\ t \in Nat \ {0} /\ BODY \in Nat
    BY <1>4
  <2> QED
    BY <1>1, <1>2, <1>3, <2>1, SMTT(30)
<1>13. S[m + OVERHEAD + val - 1] = TAIL[t]
  <2>1. /\ BODY + val + 1 \in Nat \ {0} /\ MsgLen \in Int /\ MsgLen <= Len(c)
        /\ MsgLen - (BODY + val + 1) + 1 = t /\ t \in 1..t
        /\ (BODY + val + 1) + t - 1 = MsgLen /\ MsgLen \in 1..z
    <3>1. MsgLen = BODY + t + val /\ MsgLen <= z
      BY <1>3, <1>4
    <3>2. z = Len(c)
      BY DEF z
    <3> QED
      BY <1>3, <1>4, <3>1, <3>2
  <2>2. \A j \in 1..MsgLen - (BODY + val + 1) + 1 :
          SubSeq(c, BODY + val + 1, MsgLen)[j] = c[(BODY + val + 1) + j - 1]
    BY <1>2, <2>1, SubSeqType
  <2>3. TAIL[t] = c[MsgLen]
    BY <1>7, <2>1, <2>2
  <2>4. m + MsgLen - 1 = m + OVERHEAD + val - 1
    BY <1>2, <1>3, <1>4
  <2>5. c[MsgLen] = S[m + MsgLen - 1]
    BY <1>10, <2>1
  <2> QED
    BY <2>3, <2>4, <2>5
<1>14. \A i \in 1..OVERHEAD + val : c[i] = S[m + i - 1]
  BY <1>3, <1>4, <1>10, <1>12
<1>15. S[m] = X
  BY <1>2, <1>8, <1>9 DEF IsX
<1>16. m \in 1..B + M /\ m + OVERHEAD + val - 1 <= B + M
  BY <1>1, <1>2, <1>3, <1>4, <1>12
<1>17. Message(S, B + M, c, m, val)
  <2>1. c \in Seq(Nat) /\ OVERHEAD + val <= Len(c) /\ val \in Nat
    BY <1>2, <1>3, <1>12 DEF z
  <2>2. S[m + OVERHEAD + val - 1] = TAIL[Len(TAIL)]
    BY <1>13 DEF t
  <2>3. \E a \in {m, m + 1} : /\ a + Len(HEAD) - 1 <= B + M
                              /\ \A j \in 1..Len(HEAD) : S[a + j - 1] = HEAD[j]
    BY <1>11 DEF h
  <2> QED
    BY <1>6, <1>14, <1>15, <1>16, <2>1, <2>2, <2>3 DEF Message
<1> QED
  BY <1>2, <1>3, <1>5, <1>12, <1>17 DEF m, c, val, S

(* What is dropped takes its labels along.                                 *)
LEMMA OriginDropped ==
  ASSUME TypeOK, OriginInv, alone, NEW d \in 0..B, NEW kept, Left(kept, buf, B, d),
         Handled(kept, << >>), got' = got
  PROVE  OriginInv'
<1>1. PICK W, num, off, used : Origin(W, num, off, used)
  BY DEF OriginInv
<1>2. B \in Nat /\ M \in Nat /\ 0 \in 0..B - d /\ << >> \in Seq(Nat) /\ Len(<< >>) = 0 /\ B \in 0..B + M
  BY Stream, EmptySeq
<1>3. /\ \A i \in 1..0 : << >>[i] = (buf \o net)[B - 0 + i]
      /\ \A x \in B - 0 + 1..B : BODY < off[x]
      /\ \A x, y \in B - 0 + 1..B : x < y => OneWrite(num, off, x, y)
  <2>1. \A x \in B - 0 + 1..B : FALSE
    BY <1>2
  <2> QED
    BY <2>1
<1>4. Pushed(W, num, off, B + M, used, G, got) /\ G' = G
  BY <1>1 DEF Origin, G
<1> DEFINE n == B + M
<1>5. n \in Nat /\ B \in 0..n
  BY <1>2
<1> HIDE DEF n
<1>6. Pushed(W, Moved(num, n, B, d, 0), Moved(off, n, B, d, 0), n - d + 0, used, G, got)
  BY <1>2, <1>4, <1>5, PushedMoved DEF n
<1>7. Pushed(W, Moved(num, n, B, d, 0), Moved(off, n, B, d, 0), n - d + 0, used, G', got')
  BY <1>4, <1>6, Zenon
<1>8. Origin(W, num, off, used) /\ Handled(kept, << >>)
  BY <1>1
<1> QED
  BY <1>2, <1>3, <1>7, <1>8, OriginMoved DEF n

(* A frame is pushed, and what OnRecvMsg appends again is labelled.        *)
LEMMA OriginPushed ==
  ASSUME Distinct, Unshifted, TypeOK, OriginInv, alone, AllDataRead
  PROVE  OriginInv'
<1>1. PICK W, num, off, used : Origin(W, num, off, used)
  BY DEF OriginInv
<1> DEFINE S == buf \o net
           n == B + M
           m == Min(Heads)
           e == m - 1 + MsgLen
           q == Parse(FromHead, ContentLen)
           R == Len(rest)
           again == AfterFirst(rest, MsgLen)
           r == Len(again)
           kept == AfterFirst(FromHead, MsgLen)
<1>2. /\ Complete /\ TailFits /\ got' = Append(got, q) /\ Handled(kept, again)
  BY DEF AllDataRead
<1>3. /\ Message(S, n, FromHead, m, ContentLen) /\ Left(FromHead, buf, B, m - 1)
      /\ MsgLen = OVERHEAD + ContentLen /\ m \in 1..B /\ e \in 1..B
  BY <1>2, MessageAhead
<1>4. /\ B \in Nat /\ M \in Nat /\ G \in Nat /\ n \in Nat /\ B \in 0..n /\ R \in Nat /\ rest \in Seq(Nat)
      /\ Len(buf) = B /\ buf \in Seq(Nat)
  BY Stream DEF B
<1>5. ContentLen \in Nat /\ MsgLen \in Nat /\ MsgLen <= Len(FromHead)
  BY <1>2, CompleteType
<1>6. /\ Written(W, sent) /\ Labelled(W, num, off, n, S) /\ InHand(num, off, B, S, R, rest)
      /\ Pushed(W, num, off, n, used, G, got) /\ Len(W) \in Nat
  BY <1>1, LenProperties DEF Origin, Written
<1>7. e = m + OVERHEAD + ContentLen - 1
  BY <1>3, <1>5, Sizes
<1> HIDE DEF e, n, S
<1>8. /\ e \in m..n /\ W[num[e]].i # 0
      /\ off[e] = W[num[e]].k /\ off[e] \in Nat /\ BODY < off[e] /\ off[e] <= OVERHEAD + ContentLen
      /\ \E s \in m..e : off[s] = 1 /\ num[s] = num[e]
      /\ q = W[num[e]].p \/ HasHead(q.data)
  <2> HIDE DEF m
  <2>1. /\ Written(W, sent) /\ Labelled(W, num, off, n, S) /\ n \in Nat
        /\ Message(S, n, FromHead, m, ContentLen)
    BY <1>3, <1>4, <1>6
  <2> QED
    BY <1>7, <2>1, MessageRead
<1> HIDE DEF q, m
<1>9. /\ again \in Seq(Nat) /\ r \in Nat /\ (r > 0 => r = R - MsgLen)
      /\ \A i \in 1..r : again[i] = rest[MsgLen + i]
  <2>1. MsgLen + 1 \in Nat \ {0} /\ R \in Int /\ R <= Len(rest)
    BY <1>4, <1>5
  <2>2. /\ SubSeq(rest, MsgLen + 1, R) \in Seq(Nat)
        /\ Len(SubSeq(rest, MsgLen + 1, R)) = IF MsgLen + 1 <= R THEN R - (MsgLen + 1) + 1 ELSE 0
        /\ \A i \in 1..R - (MsgLen + 1) + 1 : SubSeq(rest, MsgLen + 1, R)[i] = rest[MsgLen + 1 + i - 1]
    BY <1>4, <2>1, SubSeqType
  <2>3. again = SubSeq(rest, MsgLen + 1, R)
    BY DEF AfterFirst
  <2> HIDE DEF R, again
  <2>4. r = IF MsgLen + 1 <= R THEN R - MsgLen ELSE 0
    <3>1. R - (MsgLen + 1) + 1 = R - MsgLen
      BY <1>4, <1>5
    <3> QED
      BY <2>2, <2>3, <3>1
  <2> HIDE DEF r
  <2>5. ASSUME NEW i \in 1..r PROVE again[i] = rest[MsgLen + i]
    <3>1. i \in 1..R - (MsgLen + 1) + 1 /\ MsgLen + 1 + i - 1 = MsgLen + i
      BY <1>4, <1>5, <2>4
    <3> QED
      BY <2>2, <2>3, <3>1
  <2>6. r \in Nat /\ (r > 0 => r = R - MsgLen)
    BY <1>4, <1>5, <2>4
  <2> QED
    BY <2>2, <2>3, <2>5, <2>6
<1>10. Left(kept, buf, B, e)
  <2>1. Len(FromHead) = B - (m - 1)
    BY <1>3 DEF Left
  <2>2. MsgLen \in 0..B - (m - 1) /\ (m - 1) + MsgLen = e
    BY <1>3, <1>4, <1>5, <2>1 DEF e
  <2>3. Left(kept, buf, B, (m - 1) + MsgLen)
    BY <1>3, <1>4, <2>2, Dropping
  <2> QED
    BY <2>2, <2>3
<1> HIDE DEF again, r, R, kept
<1>11. /\ r \in 0..B - e /\ \A x \in B - r + 1..B : BODY < off[x]
       /\ \A x, y \in B - r + 1..B : x < y => OneWrite(num, off, x, y)
       /\ \A i \in 1..r : rest[MsgLen + i] = S[B - r + i]
  <2>1. CASE r = 0
    <3>1. \A x \in B - r + 1..B : FALSE
      BY <1>4, <2>1
    <3>2. r \in 0..B - e /\ 1..r = {}
      BY <1>3, <1>4, <2>1
    <3> QED
      BY <3>1, <3>2
  <2>2. CASE r > 0
    <3>1. r = R - MsgLen /\ off[e] <= MsgLen /\ BODY <= MsgLen
      <4>1. BODY < OVERHEAD /\ BODY \in Nat /\ OVERHEAD \in Nat
        BY Sizes
      <4> QED
        BY <1>3, <1>5, <1>8, <1>9, <2>2, <4>1
    <3>2. /\ Labelled(W, num, off, n, S) /\ n \in Nat /\ B \in 0..n /\ R \in Nat /\ r \in Nat /\ r > 0
          /\ InHand(num, off, B, S, R, rest) /\ e \in 1..B /\ MsgLen \in Nat /\ off[e] = W[num[e]].k
      BY <1>3, <1>4, <1>5, <1>6, <1>8, <1>9, <2>2
    <3> QED
      BY <3>1, <3>2, AppendedAgain, SMTT(30)
  <2> QED
    BY <1>9, <2>1, <2>2
<1>12. G' = G + 1 /\ got'[G + 1] = q /\ \A i \in 1..G : got'[i] = got[i]
  <2>1. got \in Seq(Packet) /\ q \in Packet
    BY <1>2, CompleteType DEF TypeOK, q
  <2> QED
    BY <1>2, <2>1, AppendProperties DEF G
<1>13. Pushed(W, Moved(num, n, B, e, r), Moved(off, n, B, e, r), n - e + r,
              UsedAdded(used, G, num[e]), G + 1, got')
  <2>1. PICK s \in m..e : off[s] = 1 /\ num[s] = num[e]
    BY <1>8
  <2>2. s \in 1..n
    BY <1>3, <1>4, <2>1
  <2>3. got'[G + 1] = W[num[e]].p \/ HasHead(got'[G + 1].data)
    BY <1>8, <1>12
  <2> QED
    BY <1>3, <1>4, <1>6, <1>8, <1>11, <1>12, <2>1, <2>2, <2>3, PushedNext, ZenonT(30)
<1>14. Pushed(W, Moved(num, n, B, e, r), Moved(off, n, B, e, r), n - e + r,
              UsedAdded(used, G, num[e]), G', got')
  BY <1>12, <1>13, Zenon
<1>15. \A i \in 1..r : again[i] = S[B - r + i]
  BY <1>9, <1>11
<1>16. e \in 0..B /\ Len(again) = r
  BY <1>3, <1>4 DEF r
<1> QED
  BY <1>1, <1>2, <1>9, <1>10, <1>11, <1>14, <1>15, <1>16, OriginMoved DEF n, S

(* OnRecvMsg as a whole *)
LEMMA OriginRead ==
  ASSUME Distinct, Unshifted, TypeOK, OriginInv, OnRecvMsg
  PROVE  OriginInv'
<1>1. alone' = alone
  BY DEF OnRecvMsg, MoreDataExpected, DataTooLong, NullString, DataCorrupted, AllDataRead, Handled,
         history
<1> SUFFICES ASSUME alone PROVE OriginInv'
  BY <1>1 DEF OriginInv
<1>2. B \in Nat /\ Len(buf) = B /\ buf \in Seq(Nat)
  BY Stream DEF B
<1>3. /\ Left(buf, buf, B, 0) /\ Left(<< >>, buf, B, B) /\ 0 \in 0..B /\ B \in 0..B
      /\ \A c, d, k : Left(c, buf, B, d) /\ k \in 0..B - d => Left(AfterFirst(c, k), buf, B, d + k)
  BY <1>2, Dropping
<1>4. CASE MoreDataExpected
  <2>1. got' = got
    BY <1>4 DEF MoreDataExpected
  <2>2. CASE Handled(buf, << >>)
    BY <1>3, <2>1, <2>2, OriginDropped
  <2>3. CASE Heads # {} /\ Handled(FromHead, << >>)
    BY <2>1, <2>3, HeadAhead, OriginDropped
  <2> QED
    BY <1>4, <2>2, <2>3 DEF MoreDataExpected
<1>5. CASE DataTooLong
  <2>1. Handled(<< >>, << >>) /\ got' = got
    BY <1>5 DEF DataTooLong
  <2> QED
    BY <1>3, <2>1, OriginDropped
<1>6. CASE NullString
  BY <1>6 DEF NullString, history, OriginInv, Origin, G, B, M
<1>7. CASE DataCorrupted
  <2> DEFINE d == Min(Heads) - 1
             kept == AfterFirst(FromHead, FIELDS)
  <2>1. Complete /\ Handled(kept, << >>) /\ got' = got
    BY <1>7 DEF DataCorrupted
  <2>2. Left(FromHead, buf, B, d) /\ d \in 0..B /\ BODY <= Len(FromHead)
    BY <2>1, HeadAhead, CompleteType DEF Complete
  <2>3. Len(FromHead) = B - d /\ FIELDS \in Nat /\ FIELDS < BODY /\ BODY \in Nat
    BY <2>2, Sizes DEF Left
  <2> HIDE DEF d
  <2>4. FIELDS \in 0..B - d /\ d + FIELDS \in 0..B
    BY <1>2, <2>2, <2>3
  <2>5. Left(kept, buf, B, d + FIELDS)
    BY <1>3, <2>2, <2>4
  <2> HIDE DEF kept
  <2> QED
    BY <2>1, <2>4, <2>5, OriginDropped
<1>8. CASE AllDataRead
  BY <1>8, OriginPushed
<1> QED
  BY <1>4, <1>5, <1>6, <1>7, <1>8 DEF OnRecvMsg

(* Before anything is sent there is nothing to label.                      *)
LEMMA OriginInit ==
  ASSUME Init
  PROVE  OriginInv
<1> DEFINE e == << >>
           z == [x \in 1..0 |-> 0]
<1>1. /\ buf = e /\ net = e /\ rest = e /\ got = e /\ sent = e /\ ends = {}
      /\ e \in Seq(Frames) /\ Len(e) = 0
  BY EmptySeq DEF Init
<1>2. B = 0 /\ M = 0 /\ G = 0 /\ Len(rest) = 0 /\ B + M = 0
  BY <1>1 DEF B, M, G
<1> HIDE DEF e
<1>3. z \in [1..0 -> 1..0] /\ z \in [1..0 -> Nat \ {0}]
  OBVIOUS
<1> HIDE DEF z
<1>4. Written(e, e)
  BY <1>1 DEF Written
<1>5. Labelled(e, z, z, 0, e \o e)
  BY <1>1, <1>3 DEF Labelled
<1>6. Unread(z, z, 0, 0, {}) /\ Pushed(e, z, z, 0, z, 0, e)
  BY <1>1, <1>3 DEF Unread, Pushed
<1>7. InHand(z, z, 0, e \o e, 0, e)
  BY DEF InHand
<1>8. Origin(e, z, z, z)
  <2>1. Written(e, sent) /\ Labelled(e, z, z, B + M, buf \o net)
    BY <1>1, <1>2, <1>4, <1>5, Zenon
  <2>2. Unread(z, z, B, M, ends) /\ Pushed(e, z, z, B + M, z, G, got)
    BY <1>1, <1>2, <1>6, Zenon
  <2>3. InHand(z, z, B, buf \o net, Len(rest), rest)
    BY <1>1, <1>2, <1>7, Zenon
  <2> QED
    BY <2>1, <2>2, <2>3 DEF Origin
<1> QED
  BY <1>8 DEF OriginInv

(* Every step keeps the labels.                                            *)
LEMMA OriginStep ==
  ASSUME Distinct, Unshifted, TypeOK, TypeOK', OriginInv, [Next]_vars
  PROVE  OriginInv'
<1>1. CASE \E p \in Packets : Send(p) \/ SendLoss(p)
  <2>1. PICK p \in Packets : Send(p) \/ SendLoss(p)
    BY <1>1
  <2>2. PICK f \in PackRequest(p) : \E k \in (TornAt \cup {Len(f)}) \cap 1..Len(f) : Write(p, f, k)
    BY <2>1, SenderStep
  <2> QED
    BY <2>2, OriginWrite
<1>2. CASE \E k \in 1..SOCKET_MAX_SIZE : Recv(k)
  BY <1>2, OriginRecv
<1>3. CASE OnRecvMsg
  BY <1>3, OriginRead
<1>4. CASE UNCHANGED vars
  BY <1>4 DEF vars, receiver, history, OriginInv, Origin, G, B, M
<1> QED
  BY <1>1, <1>2, <1>3, <1>4 DEF Next

(* If one byte of the head behind its first and the last of the tail are   *)
(* in no data, no data hold a head, and no field is read shifted: behind a *)
(* torn or illegal frame a packet may be made up, but it has the head of   *)
(* another frame in its data.                                              *)
THEOREM ForgedOnlyAcross ==
  ASSUME Distinct, Unshifted
  PROVE  Spec => []ForgedAcrossFrames
<1>1. Init => OriginInv
  BY OriginInit
<1>2. TypeOK /\ TypeOK' /\ OriginInv /\ [Next]_vars => OriginInv'
  BY OriginStep
<1>3. TypeOK /\ OriginInv => ForgedAcrossFrames
  <2> SUFFICES ASSUME TypeOK, OriginInv, alone, NEW i \in 1..Len(got)
               PROVE  Genuine(got[i]) \/ HasHead(got[i].data)
    BY DEF ForgedAcrossFrames
  <2>1. PICK W, num, off, used : Origin(W, num, off, used)
    BY DEF OriginInv
  <2>2. Written(W, sent) /\ Pushed(W, num, off, B + M, used, G, got)
    BY <2>1 DEF Origin
  <2>3. used[i] \in 1..Len(W) /\ W[used[i]].i # 0 /\ (got[i] = W[used[i]].p \/ HasHead(got[i].data))
    BY <2>2 DEF Pushed, G
  <2>4. W[used[i]].i \in 1..Len(sent) /\ sent[W[used[i]].i] = W[used[i]].p
    BY <2>2, <2>3 DEF Written, FrameOf
  <2>5. got[i] = W[used[i]].p => Genuine(got[i])
    <3>1. sent \in Seq(Packets) /\ DOMAIN sent = 1..Len(sent)
      BY Stream, LenProperties
    <3> QED
      BY <2>4, <3>1 DEF Genuine, Range
  <2> QED
    BY <2>3, <2>5
<1> QED
  BY <1>1, <1>2, <1>3, TypeCorrect, PTL DEF Spec

(* Then, whatever is lost, no packet comes twice or before another that    *)
(* was sent earlier, and for each that is made up one that was sent is not *)
(* received.                                                               *)
THEOREM OrderKept ==
  ASSUME Distinct, Unshifted
  PROVE  Spec => []InOrderOnce
<1>1. Init => OriginInv
  BY OriginInit
<1>2. TypeOK /\ TypeOK' /\ OriginInv /\ [Next]_vars => OriginInv'
  BY OriginStep
<1>3. TypeOK /\ OriginInv => InOrderOnce
  <2> DEFINE Order == {f \in [1..Len(got) -> 1..Len(sent)] :
                         \A i, j \in 1..Len(got) : i < j => f[i] < f[j]}
  <2> SUFFICES ASSUME TypeOK, OriginInv, alone
               PROVE  \E f \in Order : \A i \in 1..Len(got) : Genuine(got[i]) => got[i] = sent[f[i]]
    BY DEF InOrderOnce
  <2>1. PICK W, num, off, used : Origin(W, num, off, used)
    BY DEF OriginInv
  <2>2. Written(W, sent) /\ Pushed(W, num, off, B + M, used, G, got)
    BY <2>1 DEF Origin
  <2> DEFINE f == [i \in 1..G |-> W[used[i]].i]
  <2>3. /\ \A i \in 1..G : /\ used[i] \in 1..Len(W) /\ W[used[i]].i # 0
                           /\ got[i] = W[used[i]].p \/ HasHead(got[i].data)
        /\ \A i, j \in 1..G : i < j => used[i] < used[j]
    BY <2>2 DEF Pushed
  <2>4. /\ \A i \in 1..G : W[used[i]].i \in 1..Len(sent) /\ sent[W[used[i]].i] = W[used[i]].p
        /\ \A i, j \in 1..G : i < j => W[used[i]].i < W[used[j]].i
    BY <2>2, <2>3 DEF Written, FrameOf
  <2>5. f \in [1..G -> 1..Len(sent)] /\ \A i \in 1..G : f[i] = W[used[i]].i
    BY <2>4
  <2> HIDE DEF f
  <2>6. f \in Order
    BY <2>4, <2>5 DEF G
  <2>7. ASSUME NEW i \in 1..G, Genuine(got[i]) PROVE got[i] = sent[f[i]]
    <3>1. got[i] \in Packets
      <4>1. sent \in Seq(Packets) /\ DOMAIN sent = 1..Len(sent)
        BY Stream, LenProperties
      <4>2. \A j \in 1..Len(sent) : sent[j] \in Packets
        BY <4>1, ElementOfSeq
      <4> QED
        BY <2>7, <4>1, <4>2 DEF Genuine, Range
    <3>2. ~HasHead(got[i].data)
      BY <3>1, MarkBytes
    <3> QED
      BY <2>3, <2>4, <2>5, <3>2
  <2> QED
    BY <2>6, <2>7 DEF G
<1> QED
  BY <1>1, <1>2, <1>3, TypeCorrect, PTL DEF Spec

(* Requests are of type 0: behind a lone X the number in front of their    *)
(* head is never more than their length, whatever they carry.              *)
THEOREM RequestsUnshifted ==
  ASSUME \A p \in Packets : p.type = 0
  PROVE  Unshifted
<1> DEFINE w == LEN_WIDTH
<1>1. w \in Nat \ {0} /\ w - 1 \in Nat /\ BASE \in Nat \ {0, 1} /\ (w - 1) + 1 = w
  BY Radix
<1> HIDE DEF w
<1> SUFFICES ASSUME NEW p \in Packets
             PROVE  Strtol(<<p.type>> \o First(Digits(Len(p.data), w), w - 1)) <= Len(p.data)
  BY DEF Unshifted, w
<1> DEFINE n == Len(p.data)
           d == Digits(n, w)
           c == First(d, w - 1)
           s == <<0>> \o c
<1>2. p.type = 0 /\ n \in Nat
  BY PacketType, LenProperties
<1> HIDE DEF n
<1>3. d \in Seq(Nat) /\ Len(d) = IF n < Pow[w] THEN w ELSE w + 1
  BY <1>1, <1>2, DigitsType
<1>4. c \in Seq(Nat) /\ Len(c) = w - 1 /\ \A i \in 1..w - 1 : c[i] = d[i]
  <2> HIDE DEF d
  <2>1. w - 1 <= Len(d) /\ w - 1 \in Int /\ 1 \in Nat \ {0}
    BY <1>1, <1>3
  <2>2. /\ SubSeq(d, 1, w - 1) \in Seq(Nat)
        /\ Len(SubSeq(d, 1, w - 1)) = IF 1 <= w - 1 THEN w - 1 - 1 + 1 ELSE 0
    BY <1>3, <2>1, SubSeqType
  <2>3. \A i \in 1..w - 1 : First(d, w - 1)[i] = d[i]
    BY <1>1, <1>3, <2>1, FirstBytes
  <2> QED
    BY <1>1, <2>2, <2>3 DEF First
<1> HIDE DEF c
<1>5. s \in Seq(Nat) /\ Len(s) = w /\ s[1] = 0 /\ \A i \in 2..w : s[i] = c[i - 1]
  BY <1>1, <1>4
<1> HIDE DEF s
<1>6. CASE ~(n < Pow[w])
  <2>1. Strtol(s) \in 0..Pow[w] - 1 /\ Pow[w] \in Nat
    BY <1>1, <1>5, StrtolBound, PowRecursion
  <2> QED
    BY <1>2, <1>6, <2>1 DEF n, c, s, d
<1>7. CASE n < Pow[w]
  <2> DEFINE q == n \div BASE
             e == Digits(q, w)
  <2>1. q \in Nat /\ n = BASE * q + (n % BASE) /\ n % BASE \in Nat
    BY <1>1, <1>2, Division
  <2> HIDE DEF q
  <2>2. q <= n
    <3>1. BASE = (BASE - 1) + 1 /\ BASE - 1 \in Nat
      BY <1>1
    <3>2. BASE * q = (BASE - 1) * q + q /\ (BASE - 1) * q \in Nat
      BY <2>1, <3>1
    <3> QED
      BY <1>2, <2>1, <3>2
  <2>3. q < Pow[w - 1] /\ Pow[w - 1] \in Nat \ {0} /\ Pow[w] = BASE * Pow[w - 1]
    <3>1. Pow[w - 1] \in Nat \ {0} /\ Pow[w] = BASE * Pow[w - 1]
      BY <1>1, PowRecursion
    <3>2. ASSUME ~(q < Pow[w - 1]) PROVE FALSE
      <4> DEFINE y == q - Pow[w - 1]
      <4>1. y \in Nat /\ q = Pow[w - 1] + y
        BY <2>1, <3>1, <3>2
      <4> HIDE DEF y
      <4>2. BASE * q = BASE * Pow[w - 1] + BASE * y /\ BASE * y \in Nat /\ BASE * Pow[w - 1] \in Nat
        BY <1>1, <3>1, <4>1
      <4>3. BASE * Pow[w - 1] <= BASE * q
        BY <4>2
      <4>4. BASE * q <= n
        BY <1>2, <2>1, <4>1, <4>2
      <4> QED
        BY <1>2, <1>7, <3>1, <4>2, <4>3, <4>4
    <3> QED
      BY <3>1, <3>2
  <2>4. q < Pow[w]
    BY <1>2, <1>7, <2>1, <2>2, <1>1, PowRecursion
  <2>5. e \in Seq(Nat) /\ Len(e) = w /\ Strtol(e) = q
    BY <1>1, <2>1, <2>4, DigitsType, StrtolOfDigits
  <2>6. \A i \in 1..w : e[i] = (q \div Pow[w - i]) % BASE
    BY <2>4 DEF Digits
  <2>7. \A i \in 1..w : d[i] = (n \div Pow[w - i]) % BASE
    BY <1>7 DEF Digits
  <2> HIDE DEF e
  <2> HIDE DEF d
  <2>8. e[1] = 0
    <3>1. e[1] = (q \div Pow[w - 1]) % BASE
      BY <1>1, <2>6
    <3>2. q \div Pow[w - 1] = 0
      BY <2>1, <2>3, Division
    <3>3. 0 % BASE = 0
      BY <1>1
    <3> QED
      BY <3>1, <3>2, <3>3
  <2>9. \A i \in 2..w : e[i] = d[i - 1]
    <3> SUFFICES ASSUME NEW i \in 2..w PROVE e[i] = d[i - 1]
      OBVIOUS
    <3>1. i \in 1..w /\ i - 1 \in 1..w /\ w - i \in Nat /\ w - (i - 1) = (w - i) + 1
      BY <1>1
    <3>2. Pow[w - i] \in Nat \ {0} /\ Pow[w - (i - 1)] = BASE * Pow[w - i]
      BY <3>1, PowRecursion
    <3> DEFINE k == Pow[w - i]
    <3>3. (n \div BASE) \div k = n \div (k * BASE) /\ k * BASE = BASE * k
      BY <1>1, <1>2, <3>2, DivisionTwice
    <3>4. q \div k = n \div Pow[w - (i - 1)]
      BY <3>2, <3>3 DEF q
    <3> QED
      BY <2>6, <2>7, <3>1, <3>4
  <2>10. s = e
    <3>1. \A i \in 1..w : s[i] = e[i]
      <4> SUFFICES ASSUME NEW i \in 1..w PROVE s[i] = e[i]
        OBVIOUS
      <4>1. CASE i = 1
        BY <1>5, <2>8, <4>1
      <4>2. CASE i # 1
        BY <1>1, <1>4, <1>5, <2>9, <4>2, SMTT(30)
      <4> QED
        BY <4>1, <4>2
    <3> QED
      BY <1>5, <2>5, <3>1, SeqEqual
  <2> QED
    BY <1>2, <2>2, <2>5, <2>10 DEF n, c, s, d
<1> QED
  BY <1>6, <1>7
=============================================================================
