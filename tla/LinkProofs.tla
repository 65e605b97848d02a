----------------------------- MODULE LinkProofs -----------------------------
(***************************************************************************)
(* Proofs about what goes over a connection: the buffer a request is       *)
(* written to, messages, their frames and what is read of them, and the    *)
(* heartbeat.                                                              *)
(***************************************************************************)
EXTENDS Wire, Heartbeat, SequenceTheorems, WellFoundedInduction, TLAPS

-----------------------------------------------------------------------------
(* The buffer.                                                             *)

Fits == MaxSize = Unlimited \/ asked <= MaxSize
Limited == MaxSize # Unlimited /\ InitialSize <= MaxSize

(* The bytes asked for are in the buffer as long as they fit the limit; a  *)
(* buffer that starts below its limit keeps its offset inside it.          *)
WriterInv ==
  /\ WriterTypeOK
  /\ offset <= asked
  /\ Fits => status = "writing" /\ offset = asked /\ offset <= length
  /\ Limited => length <= MaxSize /\ offset <= length

LEMMA Ratio ==
  ASSUME NEW p \in Nat, NEW q \in Nat, p # 0, q # 0, p <= q,
         NEW a \in Nat, NEW b \in Nat, ~(a * q > b * p)
  PROVE  a <= b
<1>1. b * p <= b * q
  OBVIOUS
<1>2. a * q <= b * q
  BY <1>1
<1> QED
  BY <1>2

(* What is written next fits a buffer that need not grow, and one that has *)
(* grown, if it fits the limit.                                            *)
LEMMA Growth ==
  ASSUME WriterTypeOK, NEW n \in Nat
  PROVE  /\ Grown(n) \in Nat
         /\ MaxSize = Unlimited \/ offset + n <= MaxSize => offset + n <= Grown(n)
         /\ Limited /\ length <= MaxSize /\ offset <= length =>
              Grown(n) <= MaxSize /\ offset <= Grown(n)
<1> DEFINE required == length * Multiplier + offset + n
<1> USE DEF WriterTypeOK
<1>0. length \in Nat /\ offset \in Nat /\ MaxSize \in Nat
  BY WriterAssumption
<1>1. required \in Nat /\ offset + n <= required
  <2>1. length * Multiplier \in Nat
    BY WriterAssumption
  <2> QED
    BY <2>1, <1>0
<1>2. CASE (offset + n) * MaxRatio[2] > length * MaxRatio[1]
  <2>1. Grown(n) = IF MaxSize = Unlimited THEN required ELSE Least(required, MaxSize)
    BY <1>2 DEF Grown, NewSize
  <2> HIDE DEF required
  <2> QED
    BY <1>0, <1>1, <2>1 DEF Least, Limited
<1>3. CASE ~((offset + n) * MaxRatio[2] > length * MaxRatio[1])
  <2>1. Grown(n) = length
    BY <1>3 DEF Grown
  <2>2. MaxRatio[1] \in Nat /\ MaxRatio[2] \in Nat /\ MaxRatio[1] # 0 /\ MaxRatio[2] # 0
        /\ MaxRatio[1] <= MaxRatio[2]
    BY WriterAssumption
  <2>3. offset + n \in Nat
    BY <1>0
  <2>4. offset + n <= length
    BY <1>0, <1>3, <2>2, <2>3, Ratio
  <2> QED
    BY <1>0, <2>1, <2>4
<1> QED
  BY <1>2, <1>3

LEMMA Sizes == InitialSize \in Nat /\ InitialSize >= PrefixSize /\ MaxSize \in Nat
  BY WriterAssumption

LEMMA InitWriter == WriterInit => WriterInv
  BY Sizes DEF Unlimited, WriterInit, WriterInv, WriterTypeOK, Fits, Limited, PrefixSize

LEMMA StepWriter == WriterInv /\ [WriterNext]_writer => WriterInv'
<1> SUFFICES ASSUME WriterInv, [WriterNext]_writer PROVE WriterInv'
  OBVIOUS
<1> USE DEF WriterInv, WriterTypeOK
<1>0. CASE UNCHANGED writer
  BY <1>0 DEF writer, Fits
<1>1. ASSUME NEW n \in Nat, WriteNumber(n) PROVE WriterInv'
  <2> DEFINE g == Grown(n)
  <2>1. /\ g \in Nat
        /\ MaxSize = Unlimited \/ offset + n <= MaxSize => offset + n <= g
        /\ Limited /\ length <= MaxSize /\ offset <= length => g <= MaxSize /\ offset <= g
    BY Growth
  <2>2. /\ length' = g /\ asked' = asked + n
        /\ \/ offset + n <= g /\ offset' = offset + n /\ status' = status
           \/ offset + n > g /\ status' = "thrown" /\ offset' = offset
    BY <1>1 DEF WriteNumber
  <2> HIDE DEF g
  <2> QED
    BY <2>1, <2>2, Sizes DEF Fits, Limited
<1>2. ASSUME NEW n \in Nat, WriteData(n) PROVE WriterInv'
  <2> DEFINE g == Grown(n)
  <2>1. /\ g \in Nat
        /\ MaxSize = Unlimited \/ offset + n <= MaxSize => offset + n <= g
        /\ Limited /\ length <= MaxSize /\ offset <= length => g <= MaxSize /\ offset <= g
    BY Growth
  <2>2. /\ length' = g /\ asked' = asked + n
        /\ \/ offset <= g /\ status' = status /\ offset' = offset + Least(n, g - offset)
           \/ offset > g /\ status' \in {"writing", "thrown"} /\ offset' = offset
    BY <1>2 DEF WriteData
  <2> HIDE DEF g
  <2> QED
    BY <2>1, <2>2, Sizes DEF Fits, Limited, Least
<1>3. CASE New
  BY <1>3, Sizes DEF New, Fits, Limited, Unlimited, PrefixSize
<1> QED
  BY <1>0, <1>1, <1>2, <1>3 DEF WriterNext

LEMMA WriterHolds == WriterSpec => []WriterInv
  BY InitWriter, StepWriter, PTL DEF WriterSpec

(* A request that fits the limit is written to the last byte.              *)
THEOREM RequestsWhole == WriterSpec => []WrittenWhole
<1>1. WriterInv => WrittenWhole
  BY DEF WriterInv, WrittenWhole, Fits
<1> QED
  BY WriterHolds, <1>1, PTL

(* A buffer that starts below its limit, and its frame, stay below it.     *)
THEOREM LimitIsHard == WriterSpec => []HardLimit
<1>1. WriterInv => HardLimit
  BY Sizes DEF WriterInv, HardLimit, Limited, WriterTypeOK
<1> QED
  BY WriterHolds, <1>1, PTL

-----------------------------------------------------------------------------
(* Induction.                                                              *)

(* A set of numbers that holds 0, and n + 1 with every n, holds them all.  *)
LEMMA SetInduction ==
  ASSUME NEW S, 0 \in S, \A n \in Nat : n \in S => n + 1 \in S
  PROVE  Nat \subseteq S
<1> SUFFICES ASSUME Nat \ S # {} PROVE FALSE
  OBVIOUS
<1> DEFINE R == OpToRel(<, Nat)
<1>1. IsWellFoundedOn(R, Nat)
  BY NatLessThanWellFounded, Zenon
<1>2. \A a, b \in Nat : a < b => <<a, b>> \in R
  BY Zenon DEF OpToRel
<1> HIDE DEF R
<1>3. PICK m \in Nat \ S : \A k \in Nat \ S : ~(<<k, m>> \in R)
  <2> DEFINE T == Nat \ S
  <2>1. T \subseteq Nat /\ T # {}
    OBVIOUS
  <2> HIDE DEF T
  <2>2. \E m \in T : \A k \in T : ~(<<k, m>> \in R)
    BY <1>1, <2>1, WFMin
  <2> QED
    BY <2>2 DEF T
<1>4. m # 0 /\ m - 1 \in Nat
  BY <1>3
<1>5. m - 1 \in S
  <2>1. <<m - 1, m>> \in R
    BY <1>2, <1>4
  <2> QED
    BY <1>3, <1>4, <2>1
<1> QED
  BY <1>3, <1>4, <1>5

-----------------------------------------------------------------------------
(* Total.                                                                  *)

Sum(s, before, n) == IF n = 0 THEN 0 ELSE before + s[n]
IsSum(s, f, m) == f = [n \in 0 .. m |-> Sum(s, f[n - 1], n)]

LEMMA SumExists ==
  ASSUME NEW s
  PROVE  \A m \in Nat : \E f : IsSum(s, f, m)
<1> DEFINE S == {m \in Nat : \E f : IsSum(s, f, m)}
<1>1. 0 \in S
  <2> DEFINE f == [n \in 0 .. 0 |-> 0]
  <2>1. \A n \in 0 .. 0 : f[n] = Sum(s, f[n - 1], n)
    BY DEF Sum
  <2>2. f = [n \in 0 .. 0 |-> Sum(s, f[n - 1], n)]
    BY <2>1
  <2> QED
    BY <2>2 DEF IsSum
<1>2. ASSUME NEW m \in Nat, m \in S PROVE m + 1 \in S
  <2>1. PICK f : IsSum(s, f, m)
    BY <1>2
  <2> DEFINE x == Sum(s, f[m], m + 1)
             g == [n \in 0 .. m + 1 |-> IF n <= m THEN f[n] ELSE x]
             h == [n \in 0 .. m + 1 |-> Sum(s, g[n - 1], n)]
  <2>2. \A n \in 0 .. m : f[n] = Sum(s, f[n - 1], n)
    BY <2>1 DEF IsSum
  <2>3. ASSUME NEW n \in 0 .. m + 1 PROVE g[n] = Sum(s, g[n - 1], n)
    <3>1. CASE n = 0
      <4>1. g[n] = f[n] /\ f[n] = Sum(s, f[n - 1], n)
        BY <2>2, <3>1
      <4> QED
        BY <3>1, <4>1 DEF Sum
    <3>2. CASE n \in 1 .. m
      <4>1. g[n] = f[n] /\ g[n - 1] = f[n - 1] /\ f[n] = Sum(s, f[n - 1], n)
        BY <2>2, <3>2
      <4> QED
        BY <4>1
    <3>3. CASE n = m + 1
      <4>1. g[n] = x /\ g[n - 1] = f[m]
        BY <3>3
      <4> QED
        BY <3>3, <4>1
    <3> QED
      BY <3>1, <3>2, <3>3
  <2>4. \A n \in 0 .. m + 1 : g[n] = h[n]
    BY <2>3
  <2>5. DOMAIN g = 0 .. m + 1 /\ DOMAIN h = 0 .. m + 1 /\ g = [n \in DOMAIN g |-> g[n]] /\ h = [n \in DOMAIN h |-> h[n]]
    OBVIOUS
  <2> HIDE DEF g, h
  <2>6. g = h
    BY <2>4, <2>5
  <2> QED
    BY <2>6 DEF IsSum, h
<1>3. Nat \subseteq S
  <2> HIDE DEF S
  <2> QED
    BY <1>1, <1>2, SetInduction
<1> QED
  BY <1>3

LEMMA TotalIs ==
  ASSUME NEW s \in Seq(Int)
  PROVE  \E f : /\ Total(s) = f[Len(s)] /\ f[0] = 0
                /\ \A n \in 1 .. Len(s) : f[n] = f[n - 1] + s[n]
                /\ \A n \in 0 .. Len(s) : f[n] \in Int
                /\ (\A i \in DOMAIN s : s[i] >= 0) => \A n \in 0 .. Len(s) : f[n] \in Nat
<1> DEFINE f == CHOOSE f : IsSum(s, f, Len(s))
<1>1. Len(s) \in Nat /\ DOMAIN s = 1 .. Len(s) /\ \A n \in 1 .. Len(s) : s[n] \in Int
  OBVIOUS
<1>2. IsSum(s, f, Len(s))
  BY <1>1, SumExists
<1>3. Total(s) = f[Len(s)]
  BY DEF Total, IsSum, Sum
<1> HIDE DEF f
<1>4. \A n \in 0 .. Len(s) : f[n] = Sum(s, f[n - 1], n)
  BY <1>2 DEF IsSum
<1>5. f[0] = 0 /\ \A n \in 1 .. Len(s) : f[n] = f[n - 1] + s[n]
  BY <1>1, <1>4 DEF Sum
<1> DEFINE S == {n \in Nat : n <= Len(s) => f[n] \in Int /\ ((\A i \in DOMAIN s : s[i] >= 0) => f[n] \in Nat)}
<1>6. 0 \in S
  BY <1>5
<1>7. ASSUME NEW n \in Nat, n \in S PROVE n + 1 \in S
  <2> SUFFICES ASSUME n + 1 <= Len(s)
               PROVE  f[n + 1] \in Int /\ ((\A i \in DOMAIN s : s[i] >= 0) => f[n + 1] \in Nat)
    OBVIOUS
  <2>1. n + 1 \in 1 .. Len(s) /\ (n + 1) - 1 = n /\ n <= Len(s)
    BY <1>1
  <2>2. f[n + 1] = f[n] + s[n + 1] /\ s[n + 1] \in Int
    BY <1>1, <1>5, <2>1
  <2> QED
    BY <1>1, <1>7, <2>1, <2>2
<1>8. Nat \subseteq S
  <2> HIDE DEF S
  <2> QED
    BY <1>6, <1>7, SetInduction
<1>9. \A n \in 0 .. Len(s) : f[n] \in Int /\ ((\A i \in DOMAIN s : s[i] >= 0) => f[n] \in Nat)
  BY <1>1, <1>8
<1> QED
  BY <1>3, <1>5, <1>9

LEMMA TotalType ==
  ASSUME NEW s \in Seq(Int)
  PROVE  /\ Total(s) \in Int
         /\ (\A n \in DOMAIN s : s[n] >= 0) => Total(s) \in Nat
<1>1. Len(s) \in 0 .. Len(s)
  OBVIOUS
<1> QED
  BY <1>1, TotalIs

LEMMA TotalConcat ==
  ASSUME NEW s \in Seq(Int), NEW t \in Seq(Int)
  PROVE  Total(s \o t) = Total(s) + Total(t)
<1> DEFINE u == s \o t
           l == Len(s)
           k == Len(t)
<1>1. /\ u \in Seq(Int) /\ Len(u) = l + k /\ l \in Nat /\ k \in Nat
      /\ \A n \in 1 .. l : u[n] = s[n] /\ s[n] \in Int
      /\ \A n \in 1 .. k : u[l + n] = t[n] /\ t[n] \in Int
  BY ConcatProperties
<1>2. PICK f : Total(s) = f[l] /\ f[0] = 0 /\ \A n \in 1 .. l : f[n] = f[n - 1] + s[n]
  BY TotalIs
<1>3. PICK g : /\ Total(t) = g[k] /\ g[0] = 0 /\ \A n \in 1 .. k : g[n] = g[n - 1] + t[n]
               /\ \A n \in 0 .. k : g[n] \in Int
  BY TotalIs
<1>4. PICK h : Total(u) = h[l + k] /\ h[0] = 0 /\ \A n \in 1 .. l + k : h[n] = h[n - 1] + u[n]
  <2> HIDE DEF u
  <2>1. u \in Seq(Int)
    BY <1>1
  <2>2. \E h : Total(u) = h[Len(u)] /\ h[0] = 0 /\ \A n \in 1 .. Len(u) : h[n] = h[n - 1] + u[n]
    BY <2>1, TotalIs
  <2> QED
    BY <1>1, <2>2
<1>5. Total(s) \in Int
  BY TotalType
<1> HIDE DEF u, l, k
<1> DEFINE S == {n \in Nat : n <= l => h[n] = f[n]}
           T == {n \in Nat : n <= k => h[l + n] = f[l] + g[n]}
<1>6. 0 \in S
  BY <1>2, <1>4
<1>7. ASSUME NEW n \in Nat, n \in S PROVE n + 1 \in S
  <2> SUFFICES ASSUME n + 1 <= l PROVE h[n + 1] = f[n + 1]
    OBVIOUS
  <2>1. n + 1 \in 1 .. l /\ n + 1 \in 1 .. l + k /\ (n + 1) - 1 = n /\ n <= l
    BY <1>1
  <2>2. h[n + 1] = h[n] + u[n + 1] /\ f[n + 1] = f[n] + s[n + 1] /\ u[n + 1] = s[n + 1]
    BY <1>1, <1>2, <1>4, <2>1
  <2> QED
    BY <1>7, <2>1, <2>2
<1>8. h[l] = f[l]
  <2>1. l \in S
    <3> HIDE DEF S
    <3> QED
      BY <1>1, <1>6, <1>7, SetInduction
  <2> QED
    BY <1>1, <2>1
<1>9. 0 \in T
  BY <1>1, <1>2, <1>3, <1>5, <1>8
<1>10. ASSUME NEW n \in Nat, n \in T PROVE n + 1 \in T
  <2> SUFFICES ASSUME n + 1 <= k PROVE h[l + (n + 1)] = f[l] + g[n + 1]
    OBVIOUS
  <2>1. /\ n + 1 \in 1 .. k /\ l + (n + 1) \in 1 .. l + k /\ (n + 1) - 1 = n /\ n <= k
        /\ (l + (n + 1)) - 1 = l + n
    BY <1>1
  <2>2. h[l + (n + 1)] = h[l + n] + t[n + 1] /\ g[n + 1] = g[n] + t[n + 1] /\ t[n + 1] \in Int
    BY <1>1, <1>3, <1>4, <2>1
  <2>3. g[n] \in Int /\ f[l] \in Int
    BY <1>2, <1>3, <1>5, <2>1
  <2>4. h[l + n] = f[l] + g[n]
    BY <1>10, <2>1
  <2> QED
    BY <2>2, <2>3, <2>4
<1>11. k \in T
  <2> HIDE DEF T
  <2> QED
    BY <1>1, <1>9, <1>10, SetInduction
<1> QED
  BY <1>1, <1>2, <1>3, <1>4, <1>11 DEF u

LEMMA TotalOfNone == Total(<<>>) = 0
<1>1. <<>> \in Seq(Int) /\ Len(<<>>) = 0
  OBVIOUS
<1> QED
  BY <1>1, TotalIs

LEMMA TotalOfOne ==
  ASSUME NEW x \in Int
  PROVE  Total(<<x>>) = x
<1>1. <<x>> \in Seq(Int) /\ Len(<<x>>) = 1 /\ <<x>>[1] = x
  OBVIOUS
<1>2. PICK f : Total(<<x>>) = f[1] /\ f[0] = 0 /\ \A n \in 1 .. 1 : f[n] = f[n - 1] + <<x>>[n]
  BY <1>1, TotalIs
<1> QED
  BY <1>1, <1>2

-----------------------------------------------------------------------------
(* FlattenSeq, of sequences over one set.                                  *)

Flat(ss, before, n) == IF n = 1 THEN ss[n] ELSE before \o ss[n]
IsFlat(ss, f, m) == f = [n \in 1 .. m |-> Flat(ss, f[n - 1], n)]

LEMMA FlatExists ==
  ASSUME NEW ss
  PROVE  \A m \in Nat : \E f : IsFlat(ss, f, m)
<1> DEFINE S == {m \in Nat : \E f : IsFlat(ss, f, m)}
<1>1. 0 \in S
  <2> DEFINE f == [n \in 1 .. 0 |-> <<>>]
             h == [n \in 1 .. 0 |-> Flat(ss, f[n - 1], n)]
  <2>1. 1 .. 0 = {}
    OBVIOUS
  <2>2. f = h
    BY <2>1
  <2> QED
    BY <2>2 DEF IsFlat
<1>2. ASSUME NEW m \in Nat, m \in S PROVE m + 1 \in S
  <2>1. PICK f : IsFlat(ss, f, m)
    BY <1>2
  <2> DEFINE x == Flat(ss, f[m], m + 1)
             g == [n \in 1 .. m + 1 |-> IF n <= m THEN f[n] ELSE x]
             h == [n \in 1 .. m + 1 |-> Flat(ss, g[n - 1], n)]
  <2>2. \A n \in 1 .. m : f[n] = Flat(ss, f[n - 1], n)
    BY <2>1 DEF IsFlat
  <2>3. ASSUME NEW n \in 1 .. m + 1 PROVE g[n] = Flat(ss, g[n - 1], n)
    <3>1. CASE n = 1
      <4>1. CASE m = 0
        BY <3>1, <4>1 DEF Flat
      <4>2. CASE m # 0
        <5>1. g[n] = f[n] /\ f[n] = Flat(ss, f[n - 1], n)
          BY <2>2, <3>1, <4>2
        <5> QED
          BY <3>1, <5>1 DEF Flat
      <4> QED
        BY <4>1, <4>2
    <3>2. CASE n \in 2 .. m
      <4>1. g[n] = f[n] /\ g[n - 1] = f[n - 1] /\ f[n] = Flat(ss, f[n - 1], n)
        BY <2>2, <3>2
      <4> QED
        BY <4>1
    <3>3. CASE n = m + 1 /\ m # 0
      <4>1. g[n] = x /\ g[n - 1] = f[m]
        BY <3>3
      <4> QED
        BY <3>3, <4>1
    <3> QED
      BY <3>1, <3>2, <3>3
  <2>4. \A n \in 1 .. m + 1 : g[n] = h[n]
    BY <2>3
  <2>5. DOMAIN g = 1 .. m + 1 /\ DOMAIN h = 1 .. m + 1 /\ g = [n \in DOMAIN g |-> g[n]] /\ h = [n \in DOMAIN h |-> h[n]]
    OBVIOUS
  <2> HIDE DEF g, h
  <2>6. g = h
    BY <2>4, <2>5
  <2> QED
    BY <2>6 DEF IsFlat, h
<1>3. Nat \subseteq S
  <2> HIDE DEF S
  <2> QED
    BY <1>1, <1>2, SetInduction
<1> QED
  BY <1>3

(* The flattened beginnings of ss, one longer than the other.              *)
LEMMA FlattenIs ==
  ASSUME NEW S, NEW ss \in Seq(Seq(S))
  PROVE  \E f : /\ FlattenSeq(ss) = f[Len(ss)] /\ f[0] = <<>>
                /\ \A n \in 1 .. Len(ss) : f[n] = f[n - 1] \o ss[n]
                /\ \A n \in 0 .. Len(ss) : f[n] \in Seq(S)
<1> DEFINE Q == Seq(S)
           l == Len(ss)
           g == CHOOSE f : IsFlat(ss, f, l)
           f == [n \in 0 .. l |-> IF n = 0 THEN <<>> ELSE g[n]]
<1>1. l \in Nat /\ \A n \in 1 .. l : ss[n] \in Q
  <2>1. ss \in Seq(Q)
    OBVIOUS
  <2> HIDE DEF Q
  <2> QED
    BY <2>1, LenProperties, ElementOfSeq
<1>2. IsFlat(ss, g, l)
  BY <1>1, FlatExists
<1>3. FlattenSeq(ss) = IF l = 0 THEN ss ELSE g[l]
  BY DEF FlattenSeq, IsFlat, Flat
<1> HIDE DEF g
<1>4. \A n \in 1 .. l : g[n] = IF n = 1 THEN ss[n] ELSE g[n - 1] \o ss[n]
  BY <1>2 DEF IsFlat, Flat
<1>5. FlattenSeq(ss) = f[l] /\ f[0] = <<>>
  <2>1. l = 0 => ss = <<>>
    BY EmptySeq
  <2> QED
    BY <1>1, <1>3, <2>1
<1>6. \A s \in Q : <<>> \o s = s
  BY ConcatEmptySeq
<1>7. ASSUME NEW n \in 1 .. l PROVE f[n] = f[n - 1] \o ss[n]
  <2>1. CASE n = 1
    <3>1. f[n] = ss[n] /\ f[n - 1] = <<>>
      BY <1>1, <1>4, <2>1
    <3> QED
      BY <1>1, <1>6, <3>1
  <2>2. CASE n # 1
    <3>1. f[n] = g[n] /\ f[n - 1] = g[n - 1]
      BY <1>1, <2>2
    <3> QED
      BY <1>4, <2>2, <3>1
  <2> QED
    BY <2>1, <2>2
<1> DEFINE T == {n \in Nat : n <= l => f[n] \in Q}
<1>8. 0 \in T
  <2>1. <<>> \in Q
    BY EmptySeq
  <2> QED
    BY <1>1, <1>5, <2>1
<1> HIDE DEF f
<1>9. ASSUME NEW n \in Nat, n \in T PROVE n + 1 \in T
  <2> SUFFICES ASSUME n + 1 <= l PROVE f[n + 1] \in Q
    OBVIOUS
  <2>1. n + 1 \in 1 .. l /\ (n + 1) - 1 = n /\ n <= l
    BY <1>1
  <2>2. f[n + 1] = f[n] \o ss[n + 1] /\ ss[n + 1] \in Q /\ f[n] \in Q
    BY <1>1, <1>7, <1>9, <2>1
  <2> QED
    BY <2>2, ConcatProperties
<1>10. Nat \subseteq T
  <2> HIDE DEF T
  <2> QED
    BY <1>8, <1>9, SetInduction
<1>11. \A n \in 0 .. l : f[n] \in Q
  BY <1>1, <1>10
<1> QED
  BY <1>5, <1>7, <1>11

LEMMA FlattenType ==
  ASSUME NEW S, NEW ss \in Seq(Seq(S))
  PROVE  FlattenSeq(ss) \in Seq(S)
<1> DEFINE Q == Seq(S)
<1>1. Len(ss) \in Nat
  <2>1. ss \in Seq(Q)
    OBVIOUS
  <2> HIDE DEF Q
  <2> QED
    BY <2>1, LenProperties
<1>2. Len(ss) \in 0 .. Len(ss)
  BY <1>1
<1> QED
  BY <1>2, FlattenIs

LEMMA Joined ==
  ASSUME NEW S, NEW a \in Seq(S), NEW b \in Seq(S)
  PROVE  /\ a \o b \in Seq(S) /\ Len(a) \in Nat /\ Len(b) \in Nat /\ Len(a \o b) = Len(a) + Len(b)
         /\ \A i \in 1 .. Len(a) : (a \o b)[i] = a[i]
         /\ \A i \in 1 .. Len(b) : (a \o b)[Len(a) + i] = b[i]
<1>1. Len(a) \in Nat /\ Len(b) \in Nat
  OBVIOUS
<1>2. /\ a \o b \in Seq(S) /\ Len(a \o b) = Len(a) + Len(b)
      /\ \A i \in 1 .. Len(a) + Len(b) : (a \o b)[i] = IF i <= Len(a) THEN a[i] ELSE b[i - Len(a)]
  BY ConcatProperties
<1>3. \A i \in 1 .. Len(b) : Len(a) + i \in 1 .. Len(a) + Len(b) /\ ~(Len(a) + i <= Len(a)) /\ (Len(a) + i) - Len(a) = i
  BY <1>1
<1> DEFINE u == a \o b
<1> HIDE DEF u
<1> QED
  BY <1>1, <1>2, <1>3 DEF u

(* Flattening sequences of one or of two elements each.                    *)
LEMMA FlattenSingles ==
  ASSUME NEW S, NEW ss \in Seq(Seq(S)), \A i \in DOMAIN ss : Len(ss[i]) = 1
  PROVE  /\ Len(FlattenSeq(ss)) = Len(ss)
         /\ \A i \in DOMAIN ss : FlattenSeq(ss)[i] = ss[i][1]
<1> DEFINE Q == Seq(S)
           l == Len(ss)
<1>1. PICK f : /\ FlattenSeq(ss) = f[l] /\ f[0] = <<>>
               /\ \A n \in 1 .. l : f[n] = f[n - 1] \o ss[n]
               /\ \A n \in 0 .. l : f[n] \in Q
  BY FlattenIs
<1>2. l \in Nat /\ DOMAIN ss = 1 .. l /\ \A n \in 1 .. l : ss[n] \in Q
  <2>1. ss \in Seq(Q)
    OBVIOUS
  <2> HIDE DEF Q
  <2> QED
    BY <2>1, LenProperties, ElementOfSeq
<1> DEFINE Good(t, n) == Len(t) = n /\ \A i \in 1 .. n : t[i] = ss[i][1]
           T == {n \in Nat : n <= l => Good(f[n], n)}
<1>3. 0 \in T
  BY <1>1
<1>4. ASSUME NEW n \in Nat, n \in T PROVE n + 1 \in T
  <2> SUFFICES ASSUME n + 1 <= l PROVE Good(f[n + 1], n + 1)
    OBVIOUS
  <2>1. n + 1 \in 1 .. l /\ (n + 1) - 1 = n /\ n \in 0 .. l
    BY <1>2
  <2> DEFINE a == f[n]
             b == ss[n + 1]
  <2>2. f[n + 1] = a \o b /\ b \in Q /\ a \in Q /\ Len(b) = 1 /\ Good(a, n)
    <3> HIDE DEF Good, Q
    <3>1. Good(a, n)
      BY <1>4, <2>1
    <3> QED
      BY <1>1, <1>2, <2>1, <3>1
  <2>3. b[1] = ss[n + 1][1]
    OBVIOUS
  <2> HIDE DEF a, b
  <2>4. Len(a \o b) = n + 1 /\ (\A i \in 1 .. n : (a \o b)[i] = a[i]) /\ (a \o b)[n + 1] = b[1]
    <3>1. Len(a) = n /\ a \in Seq(S) /\ b \in Seq(S) /\ Len(b) = 1
      BY <2>2
    <3>2. /\ Len(a \o b) = Len(a) + Len(b)
          /\ \A i \in 1 .. Len(a) : (a \o b)[i] = a[i]
          /\ \A i \in 1 .. Len(b) : (a \o b)[Len(a) + i] = b[i]
      BY <3>1, Joined, SMTT(30)
    <3> QED
      BY <3>1, <3>2
  <2> QED
    BY <2>2, <2>3, <2>4
<1>5. Nat \subseteq T
  <2> HIDE DEF T
  <2> QED
    BY <1>3, <1>4, SetInduction
<1>6. Good(f[l], l)
  BY <1>2, <1>5
<1> QED
  BY <1>1, <1>2, <1>6

LEMMA FlattenPairs ==
  ASSUME NEW S, NEW ss \in Seq(Seq(S)), \A i \in DOMAIN ss : Len(ss[i]) = 2
  PROVE  /\ Len(FlattenSeq(ss)) = 2 * Len(ss)
         /\ \A i \in DOMAIN ss : FlattenSeq(ss)[2 * i - 1] = ss[i][1] /\ FlattenSeq(ss)[2 * i] = ss[i][2]
<1> DEFINE Q == Seq(S)
           l == Len(ss)
<1>1. PICK f : /\ FlattenSeq(ss) = f[l] /\ f[0] = <<>>
               /\ \A n \in 1 .. l : f[n] = f[n - 1] \o ss[n]
               /\ \A n \in 0 .. l : f[n] \in Q
  BY FlattenIs
<1>2. l \in Nat /\ DOMAIN ss = 1 .. l /\ \A n \in 1 .. l : ss[n] \in Q
  <2>1. ss \in Seq(Q)
    OBVIOUS
  <2> HIDE DEF Q
  <2> QED
    BY <2>1, LenProperties, ElementOfSeq
<1> DEFINE Good(t, n) == Len(t) = 2 * n /\ \A i \in 1 .. n : t[2 * i - 1] = ss[i][1] /\ t[2 * i] = ss[i][2]
           T == {n \in Nat : n <= l => Good(f[n], n)}
<1>3. 0 \in T
  BY <1>1
<1>4. ASSUME NEW n \in Nat, n \in T PROVE n + 1 \in T
  <2> SUFFICES ASSUME n + 1 <= l PROVE Good(f[n + 1], n + 1)
    OBVIOUS
  <2>1. n + 1 \in 1 .. l /\ (n + 1) - 1 = n /\ n \in 0 .. l
    BY <1>2
  <2> DEFINE a == f[n]
             b == ss[n + 1]
  <2>2. f[n + 1] = a \o b /\ b \in Q /\ a \in Q /\ Len(b) = 2 /\ Good(a, n)
    <3> HIDE DEF Good, Q
    <3>1. Good(a, n)
      BY <1>4, <2>1
    <3> QED
      BY <1>1, <1>2, <2>1, <3>1
  <2>3. b[1] = ss[n + 1][1] /\ b[2] = ss[n + 1][2]
    OBVIOUS
  <2> HIDE DEF a, b
  <2>4. /\ Len(a \o b) = 2 * n + 2 /\ (\A i \in 1 .. 2 * n : (a \o b)[i] = a[i])
        /\ (a \o b)[2 * n + 1] = b[1] /\ (a \o b)[2 * n + 2] = b[2]
    <3>1. a \in Seq(S) /\ b \in Seq(S)
      BY <2>2
    <3> HIDE DEF T, Good
    <3>2. /\ Len(a \o b) = Len(a) + Len(b)
          /\ \A i \in 1 .. Len(a) : (a \o b)[i] = a[i]
          /\ \A i \in 1 .. Len(b) : (a \o b)[Len(a) + i] = b[i]
      BY <3>1, Joined, SMTT(30)
    <3>3. Len(a) = 2 * n /\ Len(b) = 2
      BY <2>2 DEF Good
    <3> QED
      BY <3>2, <3>3
  <2>5. \A i \in 1 .. n : 2 * i - 1 \in 1 .. 2 * n /\ 2 * i \in 1 .. 2 * n
    OBVIOUS
  <2>6. 2 * (n + 1) = 2 * n + 2 /\ 2 * (n + 1) - 1 = 2 * n + 1
    OBVIOUS
  <2> DEFINE u == a \o b
  <2>7. Len(u) = 2 * (n + 1) /\ u[2 * (n + 1) - 1] = ss[n + 1][1] /\ u[2 * (n + 1)] = ss[n + 1][2]
    BY <2>3, <2>4, <2>6
  <2>8. \A i \in 1 .. n : u[2 * i - 1] = ss[i][1] /\ u[2 * i] = ss[i][2]
    BY <2>2, <2>4, <2>5
  <2> HIDE DEF u
  <2>9. \A i \in 1 .. n + 1 : i \in 1 .. n \/ i = n + 1
    OBVIOUS
  <2> QED
    BY <2>2, <2>7, <2>8, <2>9 DEF u
<1>5. Nat \subseteq T
  <2> HIDE DEF T
  <2> QED
    BY <1>3, <1>4, SetInduction
<1>6. Good(f[l], l)
  BY <1>2, <1>5, SMTT(30)
<1> QED
  BY <1>1, <1>2, <1>6

-----------------------------------------------------------------------------
(* Tokens and their bytes.                                                 *)

Codes == {"Described", "Null", "Str8", "Str32", "Sym8", "Sym32", "Vbin8", "Vbin32", "Uint", "Int",
          "Ubyte", "Timestamp", "Map32", "List32"}
Types == {"Annotations", "Application", "Properties", "Data"}
Tokens == [code : Codes, n : Int \cup Types, head : Seq(Nat), data : Nat]
Width(t) == Total(t.head) + t.data
Widths(tokens) == [i \in DOMAIN tokens |-> Width(tokens[i])]

LEMMA TotalNat ==
  ASSUME NEW s \in Seq(Nat)
  PROVE  Total(s) \in Nat
<1>1. s \in Seq(Int) /\ \A n \in DOMAIN s : s[n] >= 0
  OBVIOUS
<1> QED
  BY <1>1, TotalType

LEMMA TotalOfTwo ==
  ASSUME NEW x \in Int, NEW y \in Int
  PROVE  Total(<<x, y>>) = x + y
<1> DEFINE s == <<x, y>>
<1>1. s \in Seq(Int) /\ Len(s) = 2 /\ s[1] = x /\ s[2] = y
  OBVIOUS
<1> HIDE DEF s
<1>2. PICK f : Total(s) = f[2] /\ f[0] = 0 /\ \A n \in 1 .. 2 : f[n] = f[n - 1] + s[n]
  <2>1. \E f : Total(s) = f[Len(s)] /\ f[0] = 0 /\ \A n \in 1 .. Len(s) : f[n] = f[n - 1] + s[n]
    BY <1>1, TotalIs
  <2> QED
    BY <1>1, <2>1
<1>3. f[1] = f[0] + s[1] /\ f[2] = f[1] + s[2]
  BY <1>2
<1>4. Total(s) = x + y
  BY <1>1, <1>2, <1>3
<1> QED
  BY <1>4 DEF s

LEMMA WidthType ==
  ASSUME NEW t \in Tokens
  PROVE  Width(t) \in Nat
<1>1. t.head \in Seq(Nat) /\ t.data \in Nat
  BY DEF Tokens
<1> QED
  BY <1>1, TotalNat DEF Width

LEMMA WidthsType ==
  ASSUME NEW s \in Seq(Tokens)
  PROVE  /\ Widths(s) \in Seq(Nat) /\ Widths(s) \in Seq(Int) /\ Len(Widths(s)) = Len(s)
         /\ Bytes(s) = Total(Widths(s)) /\ Bytes(s) \in Nat
<1>1. Len(s) \in Nat /\ DOMAIN s = 1 .. Len(s) /\ \A i \in 1 .. Len(s) : s[i] \in Tokens
  BY LenProperties, ElementOfSeq
<1>2. \A i \in 1 .. Len(s) : Width(s[i]) \in Nat
  BY <1>1, WidthType
<1>3. Widths(s) \in Seq(Nat) /\ Widths(s) \in Seq(Int) /\ Len(Widths(s)) = Len(s)
  BY <1>1, <1>2 DEF Widths
<1>4. Bytes(s) = Total(Widths(s))
  BY DEF Bytes, Widths, Width
<1> QED
  BY <1>3, <1>4, TotalNat

LEMMA BytesConcat ==
  ASSUME NEW s \in Seq(Tokens), NEW t \in Seq(Tokens)
  PROVE  s \o t \in Seq(Tokens) /\ Bytes(s \o t) = Bytes(s) + Bytes(t)
<1> DEFINE u == s \o t
           ws == Widths(s)
           wt == Widths(t)
           w == ws \o wt
<1>1. /\ u \in Seq(Tokens) /\ Len(s) \in Nat /\ Len(t) \in Nat /\ Len(u) = Len(s) + Len(t)
      /\ \A i \in 1 .. Len(s) : u[i] = s[i]
      /\ \A i \in 1 .. Len(t) : u[Len(s) + i] = t[i]
  BY Joined
<1>2. /\ ws \in Seq(Int) /\ Len(ws) = Len(s) /\ wt \in Seq(Int) /\ Len(wt) = Len(t)
      /\ Bytes(s) = Total(ws) /\ Bytes(t) = Total(wt)
  BY WidthsType
<1>3. Bytes(u) = Total(Widths(u)) /\ Widths(u) \in Seq(Int) /\ Len(Widths(u)) = Len(u)
  <2> HIDE DEF u
  <2> QED
    BY <1>1, WidthsType
<1>4. DOMAIN s = 1 .. Len(s) /\ DOMAIN t = 1 .. Len(t) /\ DOMAIN u = 1 .. Len(u)
  <2> HIDE DEF u
  <2> QED
    BY <1>1, LenProperties
<1>5. /\ \A i \in 1 .. Len(s) : ws[i] = Width(s[i])
      /\ \A i \in 1 .. Len(t) : wt[i] = Width(t[i])
      /\ \A i \in 1 .. Len(u) : Widths(u)[i] = Width(u[i])
  <2> HIDE DEF u
  <2> QED
    BY <1>4 DEF Widths
<1> HIDE DEF u, ws, wt
<1>6. /\ w \in Seq(Int) /\ Len(w) = Len(s) + Len(t)
      /\ \A i \in 1 .. Len(s) : w[i] = ws[i]
      /\ \A i \in 1 .. Len(t) : w[Len(s) + i] = wt[i]
  <2>1. /\ ws \o wt \in Seq(Int) /\ Len(ws \o wt) = Len(ws) + Len(wt)
        /\ \A i \in 1 .. Len(ws) : (ws \o wt)[i] = ws[i]
        /\ \A i \in 1 .. Len(wt) : (ws \o wt)[Len(ws) + i] = wt[i]
    <3>1. ws \in Seq(Int) /\ wt \in Seq(Int)
      BY <1>2
    <3> QED
      BY <3>1, Joined
  <2> QED
    BY <1>2, <2>1
<1>7. Total(w) = Bytes(s) + Bytes(t)
  BY <1>2, TotalConcat
<1> HIDE DEF w
<1>8. \A i \in 1 .. Len(u) : i \in 1 .. Len(s) \/ (i - Len(s) \in 1 .. Len(t) /\ i = Len(s) + (i - Len(s)))
  BY <1>1
<1>9. \A i \in 1 .. Len(u) : Widths(u)[i] = w[i]
  <2> SUFFICES ASSUME NEW i \in 1 .. Len(u) PROVE Width(u[i]) = w[i]
    BY <1>5
  <2>1. CASE i \in 1 .. Len(s)
    BY <1>1, <1>5, <1>6, <2>1
  <2>2. CASE i - Len(s) \in 1 .. Len(t) /\ i = Len(s) + (i - Len(s))
    <3> DEFINE j == i - Len(s)
    <3>1. j \in 1 .. Len(t) /\ i = Len(s) + j
      BY <2>2
    <3> HIDE DEF j
    <3> QED
      BY <1>1, <1>5, <1>6, <3>1
  <2> QED
    BY <1>8, <2>1, <2>2
<1>10. Widths(u) = w
  BY <1>1, <1>3, <1>6, <1>9, SeqEqual
<1> QED
  BY <1>1, <1>3, <1>7, <1>10 DEF u

LEMMA BytesOfNone == <<>> \in Seq(Tokens) /\ Bytes(<<>>) = 0
<1>1. <<>> \in Seq(Tokens) /\ Widths(<<>>) = <<>>
  BY DEF Widths
<1> QED
  BY <1>1, TotalOfNone, WidthsType

LEMMA BytesOfOne ==
  ASSUME NEW t \in Tokens
  PROVE  <<t>> \in Seq(Tokens) /\ Bytes(<<t>>) = Width(t)
<1> DEFINE s == <<t>>
           w == <<Width(t)>>
<1>1. s \in Seq(Tokens) /\ Len(s) = 1 /\ s[1] = t /\ DOMAIN s = 1 .. 1
  OBVIOUS
<1>2. Width(t) \in Nat
  BY WidthType
<1>3. w \in Seq(Nat) /\ Len(w) = 1 /\ w[1] = Width(t) /\ Total(w) = Width(t)
  BY <1>2, TotalOfOne
<1> HIDE DEF s, w
<1>4. \A i \in 1 .. 1 : Widths(s)[i] = w[i]
  BY <1>1, <1>3 DEF Widths
<1>5. Widths(s) = w
  BY <1>1, <1>3, <1>4, WidthsType, SeqEqual
<1>6. s \in Seq(Tokens) /\ Bytes(s) = Width(t)
  BY <1>1, <1>3, <1>5, WidthsType
<1> QED
  BY <1>6 DEF s

LEMMA BytesOfTwo ==
  ASSUME NEW t \in Tokens, NEW u \in Tokens
  PROVE  <<t, u>> \in Seq(Tokens) /\ Bytes(<<t, u>>) = Width(t) + Width(u)
<1> DEFINE s == <<t, u>>
           w == <<Width(t), Width(u)>>
<1>1. s \in Seq(Tokens) /\ Len(s) = 2 /\ s[1] = t /\ s[2] = u /\ DOMAIN s = 1 .. 2
  OBVIOUS
<1>2. Width(t) \in Nat /\ Width(u) \in Nat
  BY WidthType
<1>3. /\ w \in Seq(Nat) /\ Len(w) = 2 /\ w[1] = Width(t) /\ w[2] = Width(u)
      /\ Total(w) = Width(t) + Width(u)
  BY <1>2, TotalOfTwo
<1> HIDE DEF s, w
<1>4. \A i \in 1 .. 2 : Widths(s)[i] = w[i]
  BY <1>1, <1>3 DEF Widths
<1>5. Widths(s) = w
  BY <1>1, <1>3, <1>4, WidthsType, SeqEqual
<1>6. s \in Seq(Tokens) /\ Bytes(s) = Width(t) + Width(u)
  BY <1>1, <1>3, <1>5, WidthsType
<1> QED
  BY <1>6 DEF s

(* The bytes of a flattened sequence are those of its parts.               *)
LEMMA BytesFlatten ==
  ASSUME NEW ss \in Seq(Seq(Tokens)), NEW sizes \in Seq(Int), Len(sizes) = Len(ss),
         \A i \in 1 .. Len(ss) : Bytes(ss[i]) = sizes[i]
  PROVE  Bytes(FlattenSeq(ss)) = Total(sizes)
<1> DEFINE Q == Seq(Tokens)
           l == Len(ss)
<1>1. l \in Nat /\ \A n \in 1 .. l : ss[n] \in Q
  <2>1. ss \in Seq(Q)
    OBVIOUS
  <2> HIDE DEF Q
  <2> QED
    BY <2>1, LenProperties, ElementOfSeq
<1>2. PICK f : /\ FlattenSeq(ss) = f[l] /\ f[0] = <<>>
               /\ \A n \in 1 .. l : f[n] = f[n - 1] \o ss[n]
               /\ \A n \in 0 .. l : f[n] \in Q
  BY FlattenIs
<1>3. PICK g : /\ Total(sizes) = g[l] /\ g[0] = 0 /\ \A n \in 1 .. l : g[n] = g[n - 1] + sizes[n]
  <2>1. \E g : /\ Total(sizes) = g[Len(sizes)] /\ g[0] = 0
               /\ \A n \in 1 .. Len(sizes) : g[n] = g[n - 1] + sizes[n]
    BY TotalIs
  <2> QED
    BY <2>1
<1> HIDE DEF l
<1> DEFINE T == {n \in Nat : n <= l => Bytes(f[n]) = g[n]}
<1>4. 0 \in T
  BY <1>2, <1>3, BytesOfNone
<1>5. ASSUME NEW n \in Nat, n \in T PROVE n + 1 \in T
  <2> SUFFICES ASSUME n + 1 <= l PROVE Bytes(f[n + 1]) = g[n + 1]
    OBVIOUS
  <2>1. n + 1 \in 1 .. l /\ (n + 1) - 1 = n /\ n \in 0 .. l
    BY <1>1
  <2>2. Bytes(f[n]) = g[n]
    BY <1>5, <2>1
  <2> HIDE DEF T
  <2>3. /\ f[n + 1] = f[n] \o ss[n + 1] /\ f[n] \in Q /\ ss[n + 1] \in Q
        /\ g[n + 1] = g[n] + sizes[n + 1] /\ Bytes(ss[n + 1]) = sizes[n + 1]
    BY <1>1, <1>2, <1>3, <2>1 DEF l
  <2>4. Bytes(f[n] \o ss[n + 1]) = Bytes(f[n]) + Bytes(ss[n + 1])
    BY <2>3, BytesConcat
  <2> QED
    BY <2>2, <2>3, <2>4
<1>6. Nat \subseteq T
  <2> HIDE DEF T
  <2> QED
    BY <1>4, <1>5, SetInduction
<1> QED
  BY <1>1, <1>2, <1>3, <1>6

-----------------------------------------------------------------------------
(* Values: how they are written, how long that is and how it is read.      *)

LEMMA Heads ==
  /\ <<1>> \in Seq(Nat) /\ Total(<<1>>) = 1 /\ <<1, 1>> \in Seq(Nat) /\ Total(<<1, 1>>) = 2
  /\ <<1, 4>> \in Seq(Nat) /\ Total(<<1, 4>>) = 5 /\ <<1, 8>> \in Seq(Nat) /\ Total(<<1, 8>>) = 9
  /\ <<1, 1, 1>> \in Seq(Nat) /\ Total(<<1, 1, 1>>) = 3
  /\ <<1>> \o <<4, 4>> \in Seq(Nat) /\ Total(<<1>> \o <<4, 4>>) = 9
<1>1. /\ <<1>> \in Seq(Nat) /\ <<1, 1>> \in Seq(Nat) /\ <<1, 4>> \in Seq(Nat) /\ <<1, 8>> \in Seq(Nat)
      /\ <<1, 1, 1>> \in Seq(Nat) /\ <<1>> \o <<4, 4>> \in Seq(Nat)
  OBVIOUS
<1>2. /\ Total(<<1>>) = 1 /\ Total(<<1, 1>>) = 2 /\ Total(<<1, 4>>) = 5 /\ Total(<<1, 8>>) = 9
      /\ Total(<<4, 4>>) = 8
  BY TotalOfOne, TotalOfTwo
<1>3. Total(<<1>> \o <<4, 4>>) = Total(<<1>>) + Total(<<4, 4>>)
  <2>1. <<1>> \in Seq(Int) /\ <<4, 4>> \in Seq(Int)
    OBVIOUS
  <2> QED
    BY <2>1, TotalConcat
<1>4. Total(<<1, 1, 1>>) = 3
  <2> DEFINE s == <<1, 1, 1>>
  <2>1. s \in Seq(Int) /\ Len(s) = 3 /\ s[1] = 1 /\ s[2] = 1 /\ s[3] = 1
    OBVIOUS
  <2> HIDE DEF s
  <2>2. PICK f : Total(s) = f[3] /\ f[0] = 0 /\ \A n \in 1 .. 3 : f[n] = f[n - 1] + s[n]
    BY <2>1, TotalIs
  <2>3. f[1] = f[0] + s[1] /\ f[2] = f[1] + s[2] /\ f[3] = f[2] + s[3]
    BY <2>2
  <2>4. Total(s) = 3
    BY <2>1, <2>2, <2>3
  <2> QED
    BY <2>4 DEF s
<1> QED
  BY <1>1, <1>2, <1>3, <1>4

LEMMA TokenIs ==
  ASSUME NEW code \in Codes, NEW n \in Int \cup Types, NEW head \in Seq(Nat), NEW data \in Nat
  PROVE  /\ Token(code, n, head, data) \in Tokens
         /\ Width(Token(code, n, head, data)) = Total(head) + data
         /\ Token(code, n, head, data).code = code /\ Token(code, n, head, data).n = n
  BY DEF Token, Tokens, Width

LEMMA NullIs == Null \in Tokens /\ Width(Null) = 1 /\ Null.code = "Null"
<1>1. "Null" \in Codes /\ 0 \in Int \cup Types /\ 0 \in Nat /\ <<1>> \in Seq(Nat) /\ Total(<<1>>) = 1
  BY Heads DEF Codes
<1> DEFINE code == "Null"
           head == <<1>>
<1>2. code \in Codes /\ head \in Seq(Nat) /\ Total(head) = 1
  BY <1>1
<1>3. Null = Token(code, 0, head, 0)
  BY DEF Null
<1> HIDE DEF code, head
<1>4. Null \in Tokens /\ Width(Null) = 1 + 0 /\ Null.code = code
  BY <1>1, <1>2, <1>3, TokenIs
<1> QED
  BY <1>4 DEF code

LEMMA SizedIs ==
  ASSUME NEW short \in Codes, NEW long \in Codes, NEW n \in Nat
  PROVE  LET t == Sized(short, long, n) IN
           /\ t \in Tokens /\ t.n = n /\ t.code = (IF n <= 255 THEN short ELSE long)
           /\ Width(t) = IF n <= 255 THEN 2 + n ELSE 5 + n
<1>1. n \in Int \cup Types
  OBVIOUS
<1>2. <<1, 1>> \in Seq(Nat) /\ <<1, 4>> \in Seq(Nat) /\ Total(<<1, 1>>) = 2 /\ Total(<<1, 4>>) = 5
  BY Heads, Zenon
<1>3. PICK one : one = <<1, 1>>
  OBVIOUS
<1>4. PICK four : four = <<1, 4>>
  OBVIOUS
<1>5. one \in Seq(Nat) /\ Total(one) = 2
  BY <1>2, <1>3
<1>6. four \in Seq(Nat) /\ Total(four) = 5
  BY <1>2, <1>4
<1>7. PICK t : t = Token(short, n, one, n)
  OBVIOUS
<1>8. PICK u : u = Token(long, n, four, n)
  OBVIOUS
<1>9. Sized(short, long, n) = IF n <= 255 THEN t ELSE u
  BY <1>3, <1>4, <1>7, <1>8 DEF Sized
<1>10. t \in Tokens /\ t.n = n /\ t.code = short /\ Width(t) = 2 + n
  <2>1. t \in Tokens /\ Width(t) = Total(one) + n
    BY <1>1, <1>5, <1>7, TokenIs, Zenon
  <2>2. t.n = n /\ t.code = short
    BY <1>7 DEF Token
  <2> QED
    BY <1>5, <2>1, <2>2
<1>11. u \in Tokens /\ u.n = n /\ u.code = long /\ Width(u) = 5 + n
  <2>1. u \in Tokens /\ Width(u) = Total(four) + n
    BY <1>1, <1>6, <1>8, TokenIs, Zenon
  <2>2. u.n = n /\ u.code = long
    BY <1>8 DEF Token
  <2> QED
    BY <1>6, <2>1, <2>2
<1> QED
  BY <1>9, <1>10, <1>11

(* A value that is given: what kind it has, and which number.              *)
LEMMA GivenIs ==
  ASSUME NEW kind \in {"string", "buffer", "date", "number", "byte"}, NEW v \in Given(kind)
  PROVE  /\ v = Value(kind, v.n) /\ v.kind = kind /\ v # Absent /\ v.n \in Int
         /\ kind \in {"string", "buffer"} => v.n \in Nat
<1>1. v = [kind |-> v.kind, n |-> v.n] /\ v.kind = kind /\ v.n \in Int
  BY DEF Given
<1>2. kind \in {"string", "buffer"} => v.n \in Nat
  BY DEF Given
<1>3. v # Absent
  BY <1>1 DEF Absent, Value
<1> QED
  BY <1>1, <1>2, <1>3 DEF Value

LEMMA CodesAre ==
  /\ {"Str8", "Str32", "Sym8", "Sym32", "Vbin8", "Vbin32", "Uint", "Int", "Ubyte", "Timestamp"} \subseteq Codes
  /\ "Described" \in Codes /\ "Map32" \in Codes /\ "List32" \in Codes
  BY DEF Codes

LEMMA AbsentIs == Falsy(Absent) /\ getSizeOf(Absent) = 1 /\ Absent.n = 0 /\ Absent.kind = "absent"
  BY DEF Falsy, getSizeOf, Absent, Value

(* A value written as text with its length.                                *)
LEMMA StringIs ==
  ASSUME NEW v, v = Absent \/ v \in Given("string")
  PROVE  LET t == amqpWriteString(v) IN
           /\ t \in Tokens /\ Width(t) = getSizeOf(v)
           /\ Falsy(v) => t.code = "Null"
           /\ ~Falsy(v) => t.n = v.n /\ t.code \in {"Str8", "Str32"} /\ v = Value("string", v.n)
<1>1. CASE Falsy(v)
  <2>1. amqpWriteString(v) = Null /\ getSizeOf(v) = 1
    BY <1>1 DEF amqpWriteString, getSizeOf
  <2> QED
    BY <1>1, <2>1, NullIs
<1>2. CASE ~Falsy(v)
  <2>1. v \in Given("string") /\ v.kind = "string" /\ v.n \in Nat /\ v = Value("string", v.n)
    BY <1>2, AbsentIs, GivenIs
  <2>2. amqpWriteString(v) = Sized("Str8", "Str32", v.n)
    BY <1>2 DEF amqpWriteString
  <2>3. getSizeOf(v) = IF v.n <= 255 THEN 2 + v.n ELSE 5 + v.n
    BY <1>2, <2>1 DEF getSizeOf
  <2> DEFINE n == v.n
  <2>4. n \in Nat
    BY <2>1
  <2> HIDE DEF n
  <2>5. LET t == Sized("Str8", "Str32", n) IN
          /\ t \in Tokens /\ t.n = n /\ t.code = (IF n <= 255 THEN "Str8" ELSE "Str32")
          /\ Width(t) = IF n <= 255 THEN 2 + n ELSE 5 + n
    BY <2>4, CodesAre, SizedIs
  <2> QED
    BY <1>2, <2>1, <2>2, <2>3, <2>5 DEF n
<1> QED
  BY <1>1, <1>2

LEMMA SymbolIs ==
  ASSUME NEW v, v = Absent \/ v \in Given("string")
  PROVE  LET t == amqpWriteSymbol(v) IN
           /\ t \in Tokens /\ Width(t) = getSizeOf(v)
           /\ Falsy(v) => t.code = "Null"
           /\ ~Falsy(v) => t.n = v.n /\ t.code \in {"Sym8", "Sym32"} /\ v = Value("string", v.n)
<1>1. CASE Falsy(v)
  <2>1. amqpWriteSymbol(v) = Null /\ getSizeOf(v) = 1
    BY <1>1 DEF amqpWriteSymbol, getSizeOf
  <2> QED
    BY <1>1, <2>1, NullIs
<1>2. CASE ~Falsy(v)
  <2>1. v \in Given("string") /\ v.kind = "string" /\ v.n \in Nat /\ v = Value("string", v.n)
    BY <1>2, AbsentIs, GivenIs
  <2>2. amqpWriteSymbol(v) = Sized("Sym8", "Sym32", v.n)
    BY <1>2 DEF amqpWriteSymbol
  <2>3. getSizeOf(v) = IF v.n <= 255 THEN 2 + v.n ELSE 5 + v.n
    BY <1>2, <2>1 DEF getSizeOf
  <2> DEFINE n == v.n
  <2>4. n \in Nat
    BY <2>1
  <2> HIDE DEF n
  <2>5. LET t == Sized("Sym8", "Sym32", n) IN
          /\ t \in Tokens /\ t.n = n /\ t.code = (IF n <= 255 THEN "Sym8" ELSE "Sym32")
          /\ Width(t) = IF n <= 255 THEN 2 + n ELSE 5 + n
    BY <2>4, CodesAre, SizedIs
  <2> QED
    BY <1>2, <2>1, <2>2, <2>3, <2>5 DEF n
<1> QED
  BY <1>1, <1>2

(* A user id of 1 to 255 bytes.                                            *)
LEMMA BufferIs ==
  ASSUME NEW v, v = Absent \/ (v \in Given("buffer") /\ v.n \in 1 .. 255)
  PROVE  LET t == amqpWriteBuffer(v) IN
           /\ t \in Tokens /\ Width(t) = getSizeOf(v)
           /\ v = Absent => t.code = "Null"
           /\ v # Absent => t.n = v.n /\ t.code = "Vbin8" /\ v = Value("buffer", v.n) /\ ~Falsy(v)
<1>1. CASE v = Absent
  <2>1. amqpWriteBuffer(v) = Null /\ getSizeOf(v) = 1
    BY <1>1, AbsentIs DEF amqpWriteBuffer
  <2> QED
    BY <1>1, <2>1, NullIs
<1>2. CASE v # Absent
  <2>1. v.kind = "buffer" /\ v.n \in 1 .. 255 /\ v = Value("buffer", v.n)
    BY <1>2, GivenIs
  <2>2. ~Falsy(v)
    BY <1>2, <2>1 DEF Falsy
  <2>3. amqpWriteBuffer(v) = Sized("Vbin8", "Vbin32", v.n)
    BY <2>1 DEF amqpWriteBuffer
  <2>4. getSizeOf(v) = 2 + v.n
    BY <2>1, <2>2 DEF getSizeOf
  <2> DEFINE n == v.n
  <2>5. n \in Nat /\ n <= 255
    BY <2>1
  <2> HIDE DEF n
  <2>6. LET t == Sized("Vbin8", "Vbin32", n) IN
          /\ t \in Tokens /\ t.n = n /\ t.code = (IF n <= 255 THEN "Vbin8" ELSE "Vbin32")
          /\ Width(t) = IF n <= 255 THEN 2 + n ELSE 5 + n
    BY <2>5, CodesAre, SizedIs
  <2> QED
    BY <1>2, <2>1, <2>2, <2>3, <2>4, <2>5, <2>6 DEF n
<1> QED
  BY <1>1, <1>2

(* A value written as a number.                                            *)
LEMMA FixedIs ==
  ASSUME NEW code \in Codes, NEW n \in Int, NEW head \in Seq(Nat)
  PROVE  \A t : t = Token(code, n, head, 0) =>
           t \in Tokens /\ Width(t) = Total(head) /\ t.n = n /\ t.code = code
<1> TAKE t
<1> HAVE t = Token(code, n, head, 0)
<1>1. n \in Int \cup Types /\ 0 \in Nat
  OBVIOUS
<1>2. t \in Tokens /\ Width(t) = Total(head)
  <2>1. t \in Tokens /\ Width(t) = Total(head) + 0
    BY <1>1, TokenIs, Zenon
  <2>2. Total(head) \in Nat
    BY TotalNat
  <2> QED
    BY <2>1, <2>2
<1>3. t.n = n /\ t.code = code
  BY DEF Token
<1> QED
  BY <1>2, <1>3

LEMMA NumberIs ==
  ASSUME NEW v, v = Absent \/ v \in Given("number")
  PROVE  LET t == amqpWriteNumber(v) IN
           /\ t \in Tokens /\ Width(t) = getSizeOf(v)
           /\ Falsy(v) => t.code = "Null"
           /\ ~Falsy(v) => t.n = v.n /\ t.code = "Uint" /\ v = Value("number", v.n)
<1>1. CASE Falsy(v)
  <2>1. amqpWriteNumber(v) = Null /\ getSizeOf(v) = 1
    BY <1>1 DEF amqpWriteNumber, getSizeOf
  <2> QED
    BY <1>1, <2>1, NullIs
<1>2. CASE ~Falsy(v)
  <2>1. v.kind = "number" /\ v.n \in Int /\ v = Value("number", v.n)
    BY <1>2, AbsentIs, GivenIs
  <2>2. amqpWriteNumber(v) = Token("Uint", v.n, <<1, 4>>, 0)
    BY <1>2 DEF amqpWriteNumber
  <2>3. getSizeOf(v) = 5
    BY <1>2, <2>1 DEF getSizeOf
  <2> DEFINE n == v.n
  <2>4. n \in Int
    BY <2>1
  <2> HIDE DEF n
  <2>5. PICK head : head = <<1, 4>>
    OBVIOUS
  <2>6. "Uint" \in Codes /\ head \in Seq(Nat) /\ Total(head) = 5
    BY <2>5, CodesAre, Heads
  <2>7. PICK t : t = Token("Uint", n, head, 0)
    OBVIOUS
  <2>8. t \in Tokens /\ Width(t) = Total(head) /\ t.n = n /\ t.code = "Uint"
    BY <2>4, <2>6, <2>7, FixedIs
  <2> QED
    BY <1>2, <2>1, <2>2, <2>3, <2>5, <2>6, <2>7, <2>8 DEF n
<1> QED
  BY <1>1, <1>2

LEMMA DateIs ==
  ASSUME NEW v, v = Absent \/ v \in Given("date")
  PROVE  LET t == amqpWriteDate(v) IN
           /\ t \in Tokens /\ Width(t) = getSizeOf(v)
           /\ Falsy(v) => t.code = "Null"
           /\ ~Falsy(v) => t.n = v.n /\ t.code = "Timestamp" /\ v = Value("date", v.n)
<1>1. CASE Falsy(v)
  <2>1. amqpWriteDate(v) = Null /\ getSizeOf(v) = 1
    BY <1>1 DEF amqpWriteDate, getSizeOf
  <2> QED
    BY <1>1, <2>1, NullIs
<1>2. CASE ~Falsy(v)
  <2>1. v.kind = "date" /\ v.n \in Int /\ v = Value("date", v.n)
    BY <1>2, AbsentIs, GivenIs
  <2>2. amqpWriteDate(v) = Token("Timestamp", v.n, <<1, 8>>, 0)
    BY <1>2 DEF amqpWriteDate
  <2>3. getSizeOf(v) = 9
    BY <1>2, <2>1 DEF getSizeOf
  <2> DEFINE n == v.n
  <2>4. n \in Int
    BY <2>1
  <2> HIDE DEF n
  <2>5. PICK head : head = <<1, 8>>
    OBVIOUS
  <2>6. "Timestamp" \in Codes /\ head \in Seq(Nat) /\ Total(head) = 9
    BY <2>5, CodesAre, Heads
  <2>7. PICK t : t = Token("Timestamp", n, head, 0)
    OBVIOUS
  <2>8. t \in Tokens /\ Width(t) = Total(head) /\ t.n = n /\ t.code = "Timestamp"
    BY <2>4, <2>6, <2>7, FixedIs
  <2> QED
    BY <1>2, <2>1, <2>2, <2>3, <2>5, <2>6, <2>7, <2>8 DEF n
<1> QED
  BY <1>1, <1>2

(* The value of a property or an annotation.                               *)
LEMMA IntIs ==
  ASSUME NEW v \in Given("number")
  PROVE  LET t == amqpWriteValue(v) IN
           /\ t \in Tokens /\ Width(t) = getSizeOf(v) /\ decodeFormatCode(t) = v
<1>1. v.kind = "number" /\ v.n \in Int /\ v = Value("number", v.n)
  BY GivenIs
<1>2. amqpWriteValue(v) = IF Falsy(v) THEN Null ELSE Token("Int", v.n, <<1, 4>>, 0)
  BY <1>1 DEF amqpWriteValue
<1>3. CASE Falsy(v)
  <2>1. getSizeOf(v) = 1 /\ v.n = 0
    BY <1>1, <1>3, GivenIs DEF getSizeOf, Falsy
  <2>2. decodeFormatCode(Null) = Value("number", 0)
    BY NullIs DEF decodeFormatCode
  <2> QED
    BY <1>1, <1>2, <1>3, <2>1, <2>2, NullIs
<1>4. CASE ~Falsy(v)
  <2>1. getSizeOf(v) = 5
    BY <1>1, <1>4 DEF getSizeOf
  <2> DEFINE n == v.n
  <2>2. n \in Int
    BY <1>1
  <2> HIDE DEF n
  <2>3. PICK head : head = <<1, 4>>
    OBVIOUS
  <2>4. "Int" \in Codes /\ head \in Seq(Nat) /\ Total(head) = 5
    BY <2>3, CodesAre, Heads
  <2>5. PICK t : t = Token("Int", n, head, 0)
    OBVIOUS
  <2>6. t \in Tokens /\ Width(t) = Total(head) /\ t.n = n /\ t.code = "Int"
    BY <2>2, <2>4, <2>5, FixedIs
  <2>7. decodeFormatCode(t) = Value("number", n)
    BY <2>6 DEF decodeFormatCode
  <2>8. amqpWriteValue(v) = t
    BY <1>2, <1>4, <2>3, <2>5 DEF n
  <2> QED
    BY <1>1, <2>1, <2>4, <2>6, <2>7, <2>8 DEF n
<1> QED
  BY <1>3, <1>4

LEMMA ByteIs ==
  ASSUME NEW v \in Given("byte")
  PROVE  LET t == amqpWriteValue(v) IN
           /\ t \in Tokens /\ Width(t) = getSizeOf(v) /\ decodeFormatCode(t) = Value("number", v.n)
<1>1. v.kind = "byte" /\ v.n \in Int /\ v # Absent
  BY GivenIs
<1>2. getSizeOf(v) = 2
  BY <1>1 DEF getSizeOf, Falsy
<1> DEFINE n == v.n
<1>3. n \in Int
  BY <1>1
<1> HIDE DEF n
<1>4. PICK head : head = <<1, 1>>
  OBVIOUS
<1>5. "Ubyte" \in Codes /\ head \in Seq(Nat) /\ Total(head) = 2
  BY <1>4, CodesAre, Heads
<1>6. PICK t : t = Token("Ubyte", n, head, 0)
  OBVIOUS
<1>7. t \in Tokens /\ Width(t) = Total(head) /\ t.n = n /\ t.code = "Ubyte"
  BY <1>3, <1>5, <1>6, FixedIs
<1>8. decodeFormatCode(t) = Value("number", n)
  BY <1>7 DEF decodeFormatCode
<1>9. amqpWriteValue(v) = t
  BY <1>1, <1>4, <1>6 DEF n, amqpWriteValue
<1> QED
  BY <1>2, <1>5, <1>7, <1>8, <1>9 DEF n

LEMMA TextIs ==
  ASSUME NEW v \in Given("string"), ~Falsy(v)
  PROVE  LET t == amqpWriteValue(v) IN
           /\ t \in Tokens /\ Width(t) = getSizeOf(v) /\ decodeFormatCode(t) = v
           /\ t = amqpWriteString(v)
<1>1. v.kind = "string"
  BY GivenIs
<1>2. amqpWriteValue(v) = amqpWriteString(v)
  BY <1>1 DEF amqpWriteValue
<1> DEFINE t == amqpWriteString(v)
<1>3. /\ t \in Tokens /\ Width(t) = getSizeOf(v)
      /\ t.n = v.n /\ t.code \in {"Str8", "Str32"} /\ v = Value("string", v.n)
  BY StringIs
<1> HIDE DEF t
<1>4. decodeFormatCode(t) = Value("string", t.n)
  BY <1>3 DEF decodeFormatCode
<1> QED
  BY <1>2, <1>3, <1>4 DEF t

(* A field of the properties: how long it is, and that it comes back.      *)
AsField(v) == IF Falsy(v) THEN Absent ELSE v

LEMMA NotGarbled ==
  /\ Garbled # Absent
  /\ \A v : v \in Given("string") \/ v \in Given("buffer") \/ v \in Given("date")
            \/ v \in Given("number") \/ v \in Given("byte") => v # Garbled
<1>1. Garbled # Absent /\ Garbled.kind = "garbled"
  BY DEF Garbled, Absent, Value
<1>2. \A kind \in {"string", "buffer", "date", "number", "byte"} : \A v \in Given(kind) : v.kind = kind
  BY GivenIs
<1> QED
  BY <1>1, <1>2

LEMMA FieldIs ==
  ASSUME NEW p \in MessageProperties, p["userId"] = Absent \/ p["userId"].n \in 1 .. 255,
         NEW f \in ToSet(Fields)
  PROVE  LET t == writeField(f, p[f]) IN
           /\ t \in Tokens /\ Width(t) = getSizeOf(p[f])
           /\ readField(f, t) = AsField(p[f]) /\ readField(f, t) # Garbled
<1> DEFINE v == p[f]
<1>1. v \in FieldValues(f)
  BY DEF MessageProperties
<1>2. CASE f = "userId"
  <2>1. v = Absent \/ (v \in Given("buffer") /\ v.n \in 1 .. 255)
    BY <1>1, <1>2 DEF FieldValues
  <2> HIDE DEF v
  <2> DEFINE t == amqpWriteBuffer(v)
  <2>2. /\ t \in Tokens /\ Width(t) = getSizeOf(v)
        /\ v = Absent => t.code = "Null"
        /\ v # Absent => t.n = v.n /\ t.code = "Vbin8" /\ v = Value("buffer", v.n) /\ ~Falsy(v)
    BY <2>1, BufferIs
  <2> HIDE DEF t
  <2>3. readField(f, t) = v /\ AsField(v) = v
    BY <1>2, <2>2, AbsentIs DEF readField, AsField
  <2>4. v # Garbled
    BY <2>1, NotGarbled
  <2>5. writeField(f, v) = t
    BY <1>2 DEF writeField, t
  <2> QED
    BY <2>2, <2>3, <2>4, <2>5 DEF v
<1>3. CASE f \in {"contentType", "contentEncoding"}
  <2>1. v = Absent \/ v \in Given("string")
    BY <1>1, <1>3 DEF FieldValues
  <2> HIDE DEF v
  <2> DEFINE t == amqpWriteSymbol(v)
  <2>2. /\ t \in Tokens /\ Width(t) = getSizeOf(v)
        /\ Falsy(v) => t.code = "Null"
        /\ ~Falsy(v) => t.n = v.n /\ t.code \in {"Sym8", "Sym32"} /\ v = Value("string", v.n)
    BY <2>1, SymbolIs
  <2> HIDE DEF t
  <2>3. readField(f, t) = AsField(v)
    BY <1>3, <2>2 DEF readField, AsField, decodeFormatCode
  <2>4. AsField(v) # Garbled
    BY <2>1, NotGarbled DEF AsField
  <2>5. writeField(f, v) = t
    BY <1>3 DEF writeField, t
  <2> QED
    BY <2>2, <2>3, <2>4, <2>5 DEF v
<1>4. CASE f \in {"absoluteExpiryTime", "creationTime"}
  <2>1. v = Absent \/ v \in Given("date")
    BY <1>1, <1>4 DEF FieldValues
  <2> HIDE DEF v
  <2> DEFINE t == amqpWriteDate(v)
  <2>2. /\ t \in Tokens /\ Width(t) = getSizeOf(v)
        /\ Falsy(v) => t.code = "Null"
        /\ ~Falsy(v) => t.n = v.n /\ t.code = "Timestamp" /\ v = Value("date", v.n)
    BY <2>1, DateIs
  <2> HIDE DEF t
  <2>3. readField(f, t) = AsField(v)
    BY <1>4, <2>2 DEF readField, AsField
  <2>4. AsField(v) # Garbled
    BY <2>1, NotGarbled DEF AsField
  <2>5. writeField(f, v) = t
    BY <1>4 DEF writeField, t
  <2> QED
    BY <2>2, <2>3, <2>4, <2>5 DEF v
<1>5. CASE f = "groupSequence"
  <2>1. v = Absent \/ v \in Given("number")
    BY <1>1, <1>5 DEF FieldValues
  <2> HIDE DEF v
  <2> DEFINE t == amqpWriteNumber(v)
  <2>2. /\ t \in Tokens /\ Width(t) = getSizeOf(v)
        /\ Falsy(v) => t.code = "Null"
        /\ ~Falsy(v) => t.n = v.n /\ t.code = "Uint" /\ v = Value("number", v.n)
    BY <2>1, NumberIs
  <2> HIDE DEF t
  <2>3. readField(f, t) = AsField(v)
    BY <1>5, <2>2 DEF readField, AsField
  <2>4. AsField(v) # Garbled
    BY <2>1, NotGarbled DEF AsField
  <2>5. writeField(f, v) = t
    BY <1>5 DEF writeField, t
  <2> QED
    BY <2>2, <2>3, <2>4, <2>5 DEF v
<1>6. CASE f \notin {"userId", "contentType", "contentEncoding", "absoluteExpiryTime", "creationTime",
                     "groupSequence"}
  <2>1. v = Absent \/ v \in Given("string")
    BY <1>1, <1>6 DEF FieldValues
  <2> HIDE DEF v
  <2> DEFINE t == amqpWriteString(v)
  <2>2. /\ t \in Tokens /\ Width(t) = getSizeOf(v)
        /\ Falsy(v) => t.code = "Null"
        /\ ~Falsy(v) => t.n = v.n /\ t.code \in {"Str8", "Str32"} /\ v = Value("string", v.n)
    BY <2>1, StringIs
  <2> HIDE DEF t
  <2>3. readField(f, t) = AsField(v)
    BY <1>6, <2>2 DEF readField, AsField, decodeFormatCode
  <2>4. AsField(v) # Garbled
    BY <2>1, NotGarbled DEF AsField
  <2>5. writeField(f, v) = t
    BY <1>6 DEF writeField, t
  <2> QED
    BY <2>2, <2>3, <2>4, <2>5 DEF v
<1> QED
  BY <1>2, <1>3, <1>4, <1>5, <1>6

(* A pair of a map: how long it is, and that it comes back.                *)
AsPair(p) == [p EXCEPT !.value = IF @.kind = "byte" THEN Value("number", @.n) ELSE @]

GoodPair(type, p) ==
  /\ p.key \in Given("string") /\ ~Falsy(p.key)
  /\ p.value \in Given("string") \cup Given("number") \cup Given("byte")
  /\ p.value # Value("string", 0)
  /\ type = "Application" => ~Falsy(p.value) /\ p.value \notin Given("byte")
  /\ p = [key |-> p.key, value |-> p.value]

LEMMA PairIs ==
  ASSUME NEW type \in {"Annotations", "Application"}, NEW p, GoodPair(type, p)
  PROVE  LET k == amqpWriteString(p.key)
             v == amqpWriteValue(p.value)
         IN  /\ k \in Tokens /\ v \in Tokens
             /\ Width(k) = getSizeOf(p.key) /\ Width(v) = getSizeOf(p.value)
             /\ readPair(type, k, v) = AsPair(p) /\ AsPair(p).value # Garbled
<1> DEFINE k == amqpWriteString(p.key)
           v == amqpWriteValue(p.value)
           w == AsPair(p).value
<1>1. /\ k \in Tokens /\ Width(k) = getSizeOf(p.key) /\ decodeFormatCode(k) = p.key
  BY TextIs DEF GoodPair
<1>2. AsPair(p) = [key |-> p.key, value |-> IF p.value.kind = "byte" THEN Value("number", p.value.n) ELSE p.value]
  BY DEF AsPair, GoodPair
<1>3. w = IF p.value.kind = "byte" THEN Value("number", p.value.n) ELSE p.value
  BY <1>2
<1>4. /\ v \in Tokens /\ Width(v) = getSizeOf(p.value) /\ decodeFormatCode(v) = w /\ w # Garbled
      /\ type = "Application" => ~Falsy(w)
  <2>1. CASE p.value \in Given("string")
    <3>1. p.value.kind = "string" /\ p.value = Value("string", p.value.n) /\ p.value # Absent
      BY <2>1, GivenIs
    <3>2. ~Falsy(p.value)
      BY <3>1 DEF Falsy, GoodPair
    <3>3. v \in Tokens /\ Width(v) = getSizeOf(p.value) /\ decodeFormatCode(v) = p.value
      BY <2>1, <3>2, TextIs
    <3>4. p.value # Garbled
      BY <2>1, NotGarbled
    <3> QED
      BY <1>3, <3>1, <3>2, <3>3, <3>4
  <2>2. CASE p.value \in Given("number")
    <3>1. p.value.kind = "number"
      BY <2>2, GivenIs
    <3>2. v \in Tokens /\ Width(v) = getSizeOf(p.value) /\ decodeFormatCode(v) = p.value
      BY <2>2, IntIs
    <3>3. p.value # Garbled
      BY <2>2, NotGarbled
    <3> QED
      BY <1>3, <3>1, <3>2, <3>3 DEF GoodPair
  <2>3. CASE p.value \in Given("byte")
    <3>1. p.value.kind = "byte" /\ type # "Application"
      BY <2>3, GivenIs DEF GoodPair
    <3>2. v \in Tokens /\ Width(v) = getSizeOf(p.value) /\ decodeFormatCode(v) = Value("number", p.value.n)
      BY <2>3, ByteIs
    <3>3. Value("number", p.value.n) # Garbled
      BY DEF Value, Garbled
    <3> QED
      BY <1>3, <3>1, <3>2, <3>3
  <2> QED
    BY <2>1, <2>2, <2>3 DEF GoodPair
<1> HIDE DEF k, v, w
<1>5. p.key # Garbled /\ ~Falsy(p.key)
  BY NotGarbled DEF GoodPair
<1>6. readPair(type, k, v) = [key |-> p.key, value |-> w]
  BY <1>1, <1>4, <1>5 DEF readPair
<1> QED
  BY <1>1, <1>2, <1>3, <1>4, <1>6 DEF k, v, w

-----------------------------------------------------------------------------
(* Sections: how long they are, and that they are read as written.         *)

LEMMA SectionIs ==
  ASSUME NEW type \in Types, NEW code \in Codes, NEW n \in Int
  PROVE  LET s == Section(type, code, n, <<4, 4>>) IN
           /\ s \in Seq(Tokens) /\ Len(s) = 2 /\ Bytes(s) = PropertySizeDescription
           /\ s[1].code = "Described" /\ s[1].n = type /\ s[2].n = n
<1>1. PICK head : head = <<1, 1, 1>>
  OBVIOUS
<1>2. PICK sizes : sizes = <<1>> \o <<4, 4>>
  OBVIOUS
<1>3. head \in Seq(Nat) /\ Total(head) = 3 /\ sizes \in Seq(Nat) /\ Total(sizes) = 9
  BY <1>1, <1>2, Heads
<1>4. PICK t : t = Token("Described", type, head, 0)
  OBVIOUS
<1>5. PICK u : u = Token(code, n, sizes, 0)
  OBVIOUS
<1>6. t \in Tokens /\ Width(t) = 3
  <2>1. "Described" \in Codes /\ type \in Int \cup Types /\ 0 \in Nat
    BY CodesAre
  <2>2. PICK described : described = "Described"
    OBVIOUS
  <2>3. described \in Codes /\ t = Token(described, type, head, 0)
    BY <1>4, <2>1, <2>2
  <2>4. Token(described, type, head, 0) \in Tokens /\ Width(Token(described, type, head, 0)) = Total(head) + 0
    <3>1. head \in Seq(Nat) /\ described \in Codes
      BY <1>3, <2>3
    <3> QED
      BY <2>1, <3>1, TokenIs, Zenon
  <2> QED
    BY <1>3, <2>3, <2>4
<1>7. t.code = "Described" /\ t.n = type
  BY <1>4 DEF Token
<1>8. u \in Tokens /\ Width(u) = 9 /\ u.n = n
  BY <1>3, <1>5, FixedIs
<1>9. Section(type, code, n, <<4, 4>>) = <<t, u>>
  BY <1>1, <1>2, <1>4, <1>5 DEF Section
<1>10. <<t, u>> \in Seq(Tokens) /\ Bytes(<<t, u>>) = 3 + 9
  BY <1>6, <1>8, BytesOfTwo
<1> DEFINE s == Section(type, code, n, <<4, 4>>)
<1>11. Len(s) = 2 /\ s[1] = t /\ s[2] = u
  BY <1>9
<1>12. s \in Seq(Tokens) /\ Bytes(s) = PropertySizeDescription
  <2>1. PropertySizeDescription = 3 + 9
    BY DEF PropertySizeDescription
  <2>2. s = <<t, u>>
    BY <1>9
  <2> HIDE DEF s
  <2> QED
    BY <1>10, <2>1, <2>2
<1> HIDE DEF s
<1>13. /\ s \in Seq(Tokens) /\ Len(s) = 2 /\ Bytes(s) = PropertySizeDescription
       /\ s[1].code = "Described" /\ s[1].n = type /\ s[2].n = n
  BY <1>7, <1>8, <1>11, <1>12
<1> QED
  BY <1>13 DEF s

(* The pairs of a map, one behind the other.                               *)
SizesOf(pairs) == [i \in DOMAIN pairs |-> getSizeOf(pairs[i].key) + getSizeOf(pairs[i].value)]

LEMMA PairsIs ==
  ASSUME NEW type \in {"Annotations", "Application"}, NEW P, NEW pairs \in Seq(P),
         \A i \in 1 .. Len(pairs) : GoodPair(type, pairs[i])
  PROVE  /\ writePairs(pairs) \in Seq(Tokens) /\ Len(writePairs(pairs)) = 2 * Len(pairs)
         /\ \A i \in 1 .. Len(pairs) :
              /\ writePairs(pairs)[2 * i - 1] = amqpWriteString(pairs[i].key)
              /\ writePairs(pairs)[2 * i] = amqpWriteValue(pairs[i].value)
         /\ Bytes(writePairs(pairs)) = Total(SizesOf(pairs))
<1> DEFINE l == Len(pairs)
           k(i) == amqpWriteString(pairs[i].key)
           v(i) == amqpWriteValue(pairs[i].value)
           ss == [i \in DOMAIN pairs |-> IF Falsy(pairs[i].key) THEN <<>> ELSE <<k(i), v(i)>>]
<1>1. l \in Nat /\ DOMAIN pairs = 1 .. l
  OBVIOUS
<1>2. ASSUME NEW i \in 1 .. l
      PROVE  /\ k(i) \in Tokens /\ v(i) \in Tokens /\ Width(k(i)) = getSizeOf(pairs[i].key)
             /\ Width(v(i)) = getSizeOf(pairs[i].value) /\ ~Falsy(pairs[i].key)
  <2>1. GoodPair(type, pairs[i])
    OBVIOUS
  <2>2. ~Falsy(pairs[i].key)
    BY <2>1 DEF GoodPair
  <2> QED
    BY <2>1, <2>2, PairIs
<1> HIDE DEF k, v
<1>3. \A i \in 1 .. l : ss[i] = <<k(i), v(i)>>
  BY <1>1, <1>2
<1>4. DOMAIN ss = 1 .. l /\ ss = [i \in 1 .. l |-> ss[i]]
  BY <1>1
<1>5. writePairs(pairs) = FlattenSeq(ss)
  BY DEF writePairs, k, v
<1> HIDE DEF ss
<1>6. ASSUME NEW i \in 1 .. l
      PROVE  /\ ss[i] \in Seq(Tokens) /\ Bytes(ss[i]) = getSizeOf(pairs[i].key) + getSizeOf(pairs[i].value)
             /\ Len(ss[i]) = 2 /\ ss[i][1] = k(i) /\ ss[i][2] = v(i)
             /\ Bytes(ss[i]) \in Nat
  <2>1. <<k(i), v(i)>> \in Seq(Tokens) /\ Bytes(<<k(i), v(i)>>) = Width(k(i)) + Width(v(i))
    BY <1>2, BytesOfTwo
  <2>2. Len(<<k(i), v(i)>>) = 2 /\ <<k(i), v(i)>>[1] = k(i) /\ <<k(i), v(i)>>[2] = v(i)
    OBVIOUS
  <2>3. Width(k(i)) \in Nat /\ Width(v(i)) \in Nat
    BY <1>2, WidthType
  <2>4. ss[i] = <<k(i), v(i)>>
    BY <1>3
  <2>5. Bytes(ss[i]) = Width(k(i)) + Width(v(i))
    BY <2>1, <2>4
  <2>6. Bytes(ss[i]) = getSizeOf(pairs[i].key) + getSizeOf(pairs[i].value)
    BY <1>2, <2>5
  <2> QED
    BY <2>1, <2>2, <2>3, <2>4, <2>5, <2>6
<1>7. ss \in Seq(Seq(Tokens)) /\ Len(ss) = l
  <2> DEFINE Q == Seq(Tokens)
  <2>1. \A i \in 1 .. l : ss[i] \in Q
    BY <1>6
  <2> HIDE DEF Q
  <2>2. ss \in [1 .. l -> Q]
    BY <1>4, <2>1
  <2>3. ss \in Seq(Q) /\ Len(ss) = l
    BY <1>1, <2>2
  <2> QED
    BY <2>3 DEF Q
<1> DEFINE sizes == SizesOf(pairs)
<1>8. DOMAIN sizes = 1 .. l /\ \A i \in 1 .. l : sizes[i] = getSizeOf(pairs[i].key) + getSizeOf(pairs[i].value)
  BY <1>1 DEF SizesOf
<1>9. sizes = [i \in 1 .. l |-> sizes[i]]
  BY <1>1 DEF SizesOf
<1> HIDE DEF sizes, l
<1>10. \A i \in 1 .. l : sizes[i] = Bytes(ss[i]) /\ sizes[i] \in Int
  BY <1>6, <1>8
<1>11. sizes \in Seq(Int) /\ Len(sizes) = l
  <2>1. sizes \in [1 .. l -> Int]
    BY <1>9, <1>10
  <2> QED
    BY <1>1, <2>1
<1>12. Bytes(FlattenSeq(ss)) = Total(sizes)
  BY <1>7, <1>10, <1>11, BytesFlatten
<1>13. DOMAIN ss = 1 .. l /\ \A i \in DOMAIN ss : Len(ss[i]) = 2
  BY <1>4, <1>6
<1>14. FlattenSeq(ss) \in Seq(Tokens)
  BY <1>7, FlattenType
<1>15. /\ Len(FlattenSeq(ss)) = 2 * Len(ss)
       /\ \A i \in DOMAIN ss : FlattenSeq(ss)[2 * i - 1] = ss[i][1] /\ FlattenSeq(ss)[2 * i] = ss[i][2]
  BY <1>7, <1>13, FlattenPairs
<1>16. \A i \in 1 .. l : FlattenSeq(ss)[2 * i - 1] = k(i) /\ FlattenSeq(ss)[2 * i] = v(i)
  BY <1>6, <1>13, <1>15
<1> QED
  BY <1>5, <1>7, <1>12, <1>14, <1>15, <1>16 DEF k, v, l, sizes

(* s stands in the tokens, from i on.                                      *)
Holds(tokens, i, s) ==
  /\ i + Len(s) - 1 <= Len(tokens)
  /\ \A j \in 1 .. Len(s) : tokens[i - 1 + j] = s[j]

AsPairs(pairs) == [k \in 1 .. Len(pairs) |-> AsPair(pairs[k])]
Filled(message, type, pairs) ==
  IF type = "Application" THEN [message EXCEPT !.application = AsPairs(pairs)]
                          ELSE [message EXCEPT !.annotations = AsPairs(pairs)]

LEMMA MapIs ==
  ASSUME NEW type \in {"Annotations", "Application"}, NEW P, NEW pairs \in Seq(P), pairs # <<>>,
         \A i \in 1 .. Len(pairs) : GoodPair(type, pairs[i])
  PROVE  LET s == writeMap(type, pairs) IN
           /\ s \in Seq(Tokens) /\ Bytes(s) = sizeOfMap(pairs) /\ Len(s) = 2 + 2 * Len(pairs)
           /\ Bytes(s) \in Nat \ {0}
           /\ \A message, tokens : \A i \in Nat \ {0} : Len(tokens) \in Nat /\ Holds(tokens, i, s) =>
                /\ tokens[i].code = "Described"
                /\ readSection(message, tokens, i) = <<Filled(message, type, pairs), i + Len(s)>>
<1> DEFINE l == Len(pairs)
           n == 2 * l
           a == Section(type, "Map32", n, <<4, 4>>)
           b == writePairs(pairs)
           s == a \o b
<1>1. l \in Nat /\ n \in Int
  OBVIOUS
<1>2. "Map32" \in Codes /\ type \in Types
  BY CodesAre DEF Types
<1>3. /\ a \in Seq(Tokens) /\ Len(a) = 2 /\ Bytes(a) = PropertySizeDescription
      /\ a[1].code = "Described" /\ a[1].n = type /\ a[2].n = n
  <2> HIDE DEF n
  <2> QED
    BY <1>1, <1>2, SectionIs
<1>4. /\ b \in Seq(Tokens) /\ Len(b) = n
      /\ \A i \in 1 .. l : /\ b[2 * i - 1] = amqpWriteString(pairs[i].key)
                           /\ b[2 * i] = amqpWriteValue(pairs[i].value)
      /\ Bytes(b) = Total(SizesOf(pairs))
  BY PairsIs
<1>5. writeMap(type, pairs) = s
  BY DEF writeMap
<1>6. sizeOfMap(pairs) = PropertySizeDescription + Total(SizesOf(pairs))
  BY DEF sizeOfMap, SizesOf
<1> HIDE DEF a, b, n
<1>7. s \in Seq(Tokens) /\ Bytes(s) = Bytes(a) + Bytes(b)
  BY <1>3, <1>4, BytesConcat
<1>8. /\ Len(s) = 2 + n /\ (\A i \in 1 .. 2 : s[i] = a[i])
      /\ \A i \in 1 .. n : s[2 + i] = b[i]
  <2>1. /\ Len(a \o b) = Len(a) + Len(b)
        /\ \A i \in 1 .. Len(a) : (a \o b)[i] = a[i]
        /\ \A i \in 1 .. Len(b) : (a \o b)[Len(a) + i] = b[i]
    <3>1. a \in Seq(Tokens) /\ b \in Seq(Tokens)
      BY <1>3, <1>4
    <3> QED
      BY <3>1, Joined
  <2> QED
    BY <1>3, <1>4, <2>1
<1>9. Bytes(s) \in Nat \ {0}
  <2> HIDE DEF s
  <2>1. Bytes(b) \in Nat
    BY <1>4, WidthsType
  <2> QED
    BY <1>3, <1>7, <2>1 DEF PropertySizeDescription
<1> HIDE DEF s, l
<1>10. n = 2 * l
  BY DEF n
<1>11. ASSUME NEW message, NEW tokens, NEW i \in Nat \ {0}, Len(tokens) \in Nat, Holds(tokens, i, s)
      PROVE  /\ tokens[i].code = "Described"
             /\ readSection(message, tokens, i) = <<Filled(message, type, pairs), i + Len(s)>>
  <2>1. tokens[i] = a[1] /\ tokens[i + 1] = a[2] /\ i + 1 + n <= Len(tokens)
    <3>1. 1 \in 1 .. Len(s) /\ 2 \in 1 .. Len(s) /\ i - 1 + 1 = i /\ i - 1 + 2 = i + 1
      BY <1>1, <1>8, <1>10
    <3>2. tokens[i - 1 + 1] = s[1] /\ tokens[i - 1 + 2] = s[2]
      BY <1>11, <3>1 DEF Holds
    <3>3. i + Len(s) - 1 <= Len(tokens)
      BY <1>11 DEF Holds
    <3> QED
      BY <1>1, <1>8, <1>10, <1>11, <3>1, <3>2, <3>3
  <2>2. ASSUME NEW k \in 1 .. l
        PROVE  /\ tokens[i + 2 * k] = amqpWriteString(pairs[k].key)
               /\ tokens[i + 2 * k + 1] = amqpWriteValue(pairs[k].value)
    <3>1. 2 * k - 1 \in 1 .. n /\ 2 * k \in 1 .. n
      BY <1>1, <1>10
    <3>2. /\ 2 + (2 * k - 1) \in 1 .. Len(s) /\ 2 + 2 * k \in 1 .. Len(s)
          /\ i - 1 + (2 + (2 * k - 1)) = i + 2 * k /\ i - 1 + (2 + 2 * k) = i + 2 * k + 1
      BY <1>1, <1>8, <1>10, <3>1
    <3>3. tokens[i - 1 + (2 + (2 * k - 1))] = s[2 + (2 * k - 1)] /\ tokens[i - 1 + (2 + 2 * k)] = s[2 + 2 * k]
      BY <1>11, <3>2 DEF Holds
    <3>4. s[2 + (2 * k - 1)] = b[2 * k - 1] /\ s[2 + 2 * k] = b[2 * k]
      BY <1>8, <3>1
    <3> QED
      BY <1>4, <3>2, <3>3, <3>4
  <2> DEFINE count == tokens[i + 1].n \div 2
             at(k) == i + 2 * k
             read == [k \in 1 .. count |-> readPair(type, tokens[at(k)], tokens[at(k) + 1])]
             m == IF type = "Application" THEN [message EXCEPT !.application = read]
                                          ELSE [message EXCEPT !.annotations = read]
  <2>3. tokens[i].n = type /\ count = l
    <3>1. n \div 2 = l
      BY <1>1, <1>10
    <3> QED
      BY <1>3, <2>1, <3>1
  <2>4. ASSUME NEW k \in 1 .. l PROVE read[k] = AsPair(pairs[k]) /\ read[k].value # Garbled
    <3>1. GoodPair(type, pairs[k])
      BY DEF l
    <3>2. read[k] = readPair(type, amqpWriteString(pairs[k].key), amqpWriteValue(pairs[k].value))
      BY <2>2, <2>3
    <3> QED
      BY <3>1, <3>2, PairIs
  <2>5. readMap(message, tokens, i) =
          IF i + 1 + 2 * count > Len(tokens) \/ \E k \in 1 .. count : read[k].value = Garbled
          THEN <<>> ELSE <<m, i + 2 + 2 * count>>
    BY <2>3 DEF readMap
  <2>6. read = AsPairs(pairs)
    <3>1. read = [k \in 1 .. l |-> read[k]]
      BY <2>3
    <3> HIDE DEF read
    <3> QED
      BY <2>4, <3>1 DEF AsPairs, l
  <2>7. m = Filled(message, type, pairs)
    BY <2>6 DEF Filled
  <2> HIDE DEF read, m, count
  <2>8. readMap(message, tokens, i) = <<m, i + 2 + 2 * l>>
    BY <1>1, <1>10, <2>1, <2>3, <2>4, <2>5
  <2>9. readSection(message, tokens, i) = readMap(message, tokens, i)
    BY <2>3 DEF readSection
  <2>10. i + 2 + 2 * l = i + Len(s)
    BY <1>1, <1>8, <1>10
  <2> QED
    BY <1>3, <2>1, <2>7, <2>8, <2>9, <2>10
<1> QED
  BY <1>3, <1>4, <1>5, <1>6, <1>7, <1>8, <1>9, <1>10, <1>11 DEF l

LEMMA FieldsAre ==
  /\ DOMAIN Fields = 1 .. 13 /\ Len(Fields) = 13 /\ \A i \in 1 .. 13 : Fields[i] \in ToSet(Fields)
  /\ \A f \in ToSet(Fields) : \E i \in 1 .. 13 : Fields[i] = f
  /\ "userId" \in ToSet(Fields)
<1>1. DOMAIN Fields = 1 .. 13 /\ Len(Fields) = 13 /\ Fields[2] = "userId"
  BY DEF Fields
<1>2. ToSet(Fields) = {Fields[i] : i \in 1 .. 13}
  BY <1>1 DEF ToSet
<1> QED
  BY <1>1, <1>2

(* Reading s turns what was read before into the one that follows.         *)
Reads(s, before, after) ==
  /\ s \in Seq(Tokens)
  /\ \/ s = <<>> /\ after = before
     \/ /\ Len(s) >= 2 /\ Bytes(s) \in Nat \ {0}
        /\ \A tokens : \A i \in Nat \ {0} : Len(tokens) \in Nat /\ Holds(tokens, i, s) =>
             /\ tokens[i].code = "Described"
             /\ readSection(before, tokens, i) = <<after, i + Len(s)>>

AsFields(p) == [f \in ToSet(Fields) |-> AsField(p[f])]
WithFields(message, p) == [message EXCEPT !.properties = AsFields(p)]

LEMMA PropertiesAre ==
  ASSUME NEW properties, NEW p \in MessageProperties, properties # <<>>, properties[1] = p,
         p["userId"] = Absent \/ p["userId"].n \in 1 .. 255
  PROVE  LET s == writeProperties(properties) IN
           /\ Bytes(s) = sizeOfProperties(properties) /\ Bytes(s) \in Nat \ {0}
           /\ \A message : Reads(s, message, WithFields(message, p))
<1> DEFINE a == Section("Properties", "List32", Len(Fields), <<4, 4>>)
           b == [i \in DOMAIN Fields |-> writeField(Fields[i], p[Fields[i]])]
           sizes == [i \in DOMAIN Fields |-> getSizeOf(p[Fields[i]])]
           s == a \o b
<1>1. \A i \in 1 .. 13 : /\ b[i] \in Tokens /\ Width(b[i]) = sizes[i]
                         /\ readField(Fields[i], b[i]) = AsField(p[Fields[i]])
                         /\ readField(Fields[i], b[i]) # Garbled
  <2> SUFFICES ASSUME NEW i \in 1 .. 13
               PROVE  /\ b[i] \in Tokens /\ Width(b[i]) = sizes[i]
                      /\ readField(Fields[i], b[i]) = AsField(p[Fields[i]])
                      /\ readField(Fields[i], b[i]) # Garbled
    OBVIOUS
  <2> DEFINE f == Fields[i]
             t == writeField(f, p[f])
  <2>1. f \in ToSet(Fields)
    BY FieldsAre
  <2>2. t \in Tokens /\ Width(t) = getSizeOf(p[f]) /\ readField(f, t) = AsField(p[f]) /\ readField(f, t) # Garbled
    <3> HIDE DEF f
    <3> QED
      BY <2>1, FieldIs
  <2>3. b[i] = t /\ sizes[i] = getSizeOf(p[f])
    BY FieldsAre
  <2> HIDE DEF b, sizes, t
  <2> QED
    BY <2>2, <2>3
<1>2. b \in Seq(Tokens) /\ Len(b) = 13 /\ sizes \in Seq(Int) /\ Len(sizes) = 13
  <2>1. b = [i \in 1 .. 13 |-> b[i]] /\ sizes = [i \in 1 .. 13 |-> sizes[i]]
    BY FieldsAre
  <2> HIDE DEF b, sizes
  <2>2. \A i \in 1 .. 13 : sizes[i] \in Int
    <3>1. \A t \in Tokens : Width(t) \in Int
      BY WidthType
    <3> QED
      BY <1>1, <3>1
  <2>3. PICK l : l = 13
    OBVIOUS
  <2>4. l \in Nat /\ b \in [1 .. l -> Tokens] /\ sizes \in [1 .. l -> Int]
    BY <1>1, <2>1, <2>2, <2>3
  <2>5. b \in Seq(Tokens) /\ Len(b) = l /\ sizes \in Seq(Int) /\ Len(sizes) = l
    BY <2>4
  <2> QED
    BY <2>3, <2>5
<1>3. writeProperties(properties) = s
  BY DEF writeProperties
<1>4. sizeOfProperties(properties) = PropertySizeDescription + Total(sizes)
  BY DEF sizeOfProperties
<1>5. /\ a \in Seq(Tokens) /\ Len(a) = 2 /\ Bytes(a) = PropertySizeDescription
      /\ a[1].code = "Described" /\ a[1].n = "Properties"
  <2>1. "Properties" \in Types /\ "List32" \in Codes /\ 13 \in Int
    BY CodesAre DEF Types
  <2>2. PICK type : type = "Properties"
    OBVIOUS
  <2>3. PICK code : code = "List32"
    OBVIOUS
  <2>4. PICK n : n = 13
    OBVIOUS
  <2>5. type \in Types /\ code \in Codes /\ n \in Int
    BY <2>1, <2>2, <2>3, <2>4
  <2>6. LET x == Section(type, code, n, <<4, 4>>) IN
          /\ x \in Seq(Tokens) /\ Len(x) = 2 /\ Bytes(x) = PropertySizeDescription
          /\ x[1].code = "Described" /\ x[1].n = type
    BY <2>5, SectionIs
  <2> QED
    BY <2>2, <2>3, <2>4, <2>6, FieldsAre
<1> HIDE DEF a, b, sizes
<1>6. Bytes(b) = Total(sizes)
  <2>1. \A i \in 1 .. 13 : Widths(b)[i] = sizes[i]
    <3>1. DOMAIN b = 1 .. 13
      BY <1>2, LenProperties
    <3> QED
      BY <1>1, <3>1 DEF Widths
  <2>2. Widths(b) \in Seq(Int) /\ Len(Widths(b)) = 13 /\ Bytes(b) = Total(Widths(b))
    BY <1>2, WidthsType
  <2>3. Widths(b) = sizes
    BY <1>2, <2>1, <2>2, SeqEqual
  <2> QED
    BY <2>2, <2>3
<1>7. s \in Seq(Tokens) /\ Bytes(s) = Bytes(a) + Bytes(b)
  BY <1>2, <1>5, BytesConcat
<1>8. Len(s) = 15 /\ (\A i \in 1 .. 2 : s[i] = a[i]) /\ \A i \in 1 .. 13 : s[2 + i] = b[i]
  <2>1. a \in Seq(Tokens) /\ b \in Seq(Tokens)
    BY <1>2, <1>5
  <2>2. /\ Len(a \o b) = Len(a) + Len(b)
        /\ \A i \in 1 .. Len(a) : (a \o b)[i] = a[i]
        /\ \A i \in 1 .. Len(b) : (a \o b)[Len(a) + i] = b[i]
    BY <2>1, Joined
  <2>3. Len(a) = 2 /\ Len(b) = 13
    BY <1>2, <1>5
  <2>4. \A i \in 1 .. 13 : (a \o b)[Len(a) + i] = b[i] /\ Len(a) + i = 2 + i
    BY <2>2, <2>3
  <2>5. Len(a \o b) = 15
    BY <2>2, <2>3
  <2>6. \A i \in 1 .. 2 : (a \o b)[i] = a[i]
    BY <2>2, <2>3
  <2> QED
    BY <2>4, <2>5, <2>6
<1> HIDE DEF s
<1>9. Bytes(s) \in Nat \ {0}
  <2>1. Bytes(b) \in Nat
    BY <1>2, WidthsType
  <2> QED
    BY <1>5, <1>7, <2>1 DEF PropertySizeDescription
<1>10. ASSUME NEW message, NEW tokens, NEW i \in Nat \ {0}, Len(tokens) \in Nat, Holds(tokens, i, s)
       PROVE  /\ tokens[i].code = "Described"
              /\ readSection(message, tokens, i) =
                   <<WithFields(message, p), i + Len(s)>>
  <2>1. \A j \in 1 .. 15 : tokens[i - 1 + j] = s[j]
    BY <1>8, <1>10 DEF Holds
  <2>2. tokens[i] = a[1]
    <3>1. i - 1 + 1 = i /\ 1 \in 1 .. 15 /\ 1 \in 1 .. 2
      OBVIOUS
    <3>2. tokens[i - 1 + 1] = s[1]
      BY <2>1, <3>1
    <3> QED
      BY <1>8, <3>1, <3>2
  <2>3. ASSUME NEW k \in 1 .. 13 PROVE tokens[i + 1 + k] = b[k]
    <3>1. 2 + k \in 1 .. 15 /\ i - 1 + (2 + k) = i + 1 + k
      OBVIOUS
    <3>2. tokens[i - 1 + (2 + k)] = s[2 + k]
      BY <2>1, <3>1
    <3> QED
      BY <1>8, <3>1, <3>2
  <2> DEFINE fields == [k \in 1 .. Len(Fields) |-> readField(Fields[k], tokens[i + 1 + k])]
             read == [f \in ToSet(Fields) |-> fields[CHOOSE k \in DOMAIN Fields : Fields[k] = f]]
  <2>4. readProperties(message, tokens, i) =
          IF \E k \in DOMAIN fields : fields[k] = Garbled
          THEN <<>> ELSE <<[message EXCEPT !.properties = read], i + 2 + Len(Fields)>>
    BY DEF readProperties
  <2>5. DOMAIN fields = 1 .. 13 /\ \A k \in 1 .. 13 : fields[k] = AsField(p[Fields[k]]) /\ fields[k] # Garbled
    BY <1>1, <2>3, FieldsAre
  <2>6. ASSUME NEW f \in ToSet(Fields) PROVE read[f] = AsField(p[f])
    <3> DEFINE k == CHOOSE k \in DOMAIN Fields : Fields[k] = f
    <3>1. k \in 1 .. 13 /\ Fields[k] = f
      BY FieldsAre
    <3>2. read[f] = fields[k]
      OBVIOUS
    <3> HIDE DEF k, fields, read
    <3> QED
      BY <2>5, <3>1, <3>2
  <2>7. read = AsFields(p)
    <3>1. read = [f \in ToSet(Fields) |-> read[f]]
      OBVIOUS
    <3> HIDE DEF read
    <3> QED
      BY <2>6, <3>1 DEF AsFields
  <2> HIDE DEF fields, read
  <2>8. readProperties(message, tokens, i) = <<WithFields(message, p), i + 2 + 13>>
    BY <2>4, <2>5, <2>7, FieldsAre DEF WithFields
  <2>9. readSection(message, tokens, i) = readProperties(message, tokens, i)
    BY <1>5, <2>2 DEF readSection
  <2>10. i + 2 + 13 = i + Len(s)
    BY <1>8
  <2> QED
    BY <1>5, <2>2, <2>8, <2>9, <2>10
<1>11. Bytes(s) = sizeOfProperties(properties)
  BY <1>4, <1>5, <1>6, <1>7
<1>12. Len(s) >= 2
  BY <1>8
<1>13. ASSUME NEW message PROVE Reads(s, message, WithFields(message, p))
  <2> DEFINE after == WithFields(message, p)
  <2>1. \A tokens : \A i \in Nat \ {0} : Len(tokens) \in Nat /\ Holds(tokens, i, s) =>
          tokens[i].code = "Described" /\ readSection(message, tokens, i) = <<after, i + Len(s)>>
    BY <1>10
  <2> HIDE DEF after
  <2>2. Reads(s, message, after)
    BY <1>7, <1>9, <1>12, <2>1 DEF Reads
  <2> QED
    BY <2>2 DEF after
<1> QED
  BY <1>3, <1>9, <1>11, <1>13

LEMMA ContentIs ==
  ASSUME NEW n \in Nat
  PROVE  LET s == writeContent(n) IN
           /\ s \in Seq(Tokens) /\ Bytes(s) = n + 3 + (IF n <= 255 THEN 2 ELSE 5) /\ Len(s) = 2
           /\ \A message, tokens : \A i \in Nat \ {0} : Len(tokens) \in Nat /\ Holds(tokens, i, s) =>
                /\ tokens[i].code = "Described"
                /\ readSection(message, tokens, i) = <<[message EXCEPT !.content = n], i + Len(s)>>
<1>1. PICK t : t = Token("Described", "Data", <<1, 1, 1>>, 0)
  OBVIOUS
<1>2. PICK u : u = Sized("Vbin8", "Vbin32", n)
  OBVIOUS
<1>3. t \in Tokens /\ Width(t) = 3
  <2>1. PICK head : head = <<1, 1, 1>>
    OBVIOUS
  <2>2. head \in Seq(Nat) /\ Total(head) = 3
    BY <2>1, Heads
  <2>3. "Described" \in Codes /\ "Data" \in Int \cup Types
    BY CodesAre DEF Types
  <2>4. PICK code : code = "Described"
    OBVIOUS
  <2>5. PICK type : type = "Data"
    OBVIOUS
  <2>6. code \in Codes /\ type \in Int \cup Types /\ t = Token(code, type, head, 0)
    BY <1>1, <2>1, <2>3, <2>4, <2>5
  <2>7. Token(code, type, head, 0) \in Tokens /\ Width(Token(code, type, head, 0)) = Total(head) + 0
    <3>1. code \in Codes /\ type \in Int \cup Types /\ head \in Seq(Nat)
      BY <2>2, <2>6
    <3>2. 0 \in Nat
      OBVIOUS
    <3> QED
      BY <3>1, <3>2, TokenIs, Zenon
  <2> QED
    BY <2>2, <2>6, <2>7
<1>4. t.code = "Described" /\ t.n = "Data"
  BY <1>1 DEF Token
<1>5. u \in Tokens /\ u.n = n /\ Width(u) = IF n <= 255 THEN 2 + n ELSE 5 + n
  BY <1>2, CodesAre, SizedIs
<1>6. writeContent(n) = <<t, u>>
  BY <1>1, <1>2 DEF writeContent, Sized
<1> DEFINE s == <<t, u>>
<1>7. s \in Seq(Tokens) /\ Bytes(s) = 3 + Width(u)
  BY <1>3, <1>5, BytesOfTwo
<1>8. Len(s) = 2 /\ s[1] = t /\ s[2] = u
  OBVIOUS
<1> HIDE DEF s
<1>9. ASSUME NEW message, NEW tokens, NEW i \in Nat \ {0}, Len(tokens) \in Nat, Holds(tokens, i, s)
      PROVE  /\ tokens[i].code = "Described"
             /\ readSection(message, tokens, i) = <<[message EXCEPT !.content = n], i + Len(s)>>
  <2>1. tokens[i] = t /\ tokens[i + 1] = u
    <3>1. 1 \in 1 .. Len(s) /\ 2 \in 1 .. Len(s) /\ i - 1 + 1 = i /\ i - 1 + 2 = i + 1
      BY <1>8
    <3>2. tokens[i - 1 + 1] = s[1] /\ tokens[i - 1 + 2] = s[2]
      BY <1>9, <3>1 DEF Holds
    <3> QED
      BY <1>8, <3>1, <3>2
  <2>2. readSection(message, tokens, i) = <<[message EXCEPT !.content = u.n], i + 2>>
    BY <1>4, <2>1 DEF readSection
  <2> QED
    BY <1>4, <1>5, <1>8, <2>1, <2>2
<1>10. Bytes(s) = n + 3 + (IF n <= 255 THEN 2 ELSE 5)
  BY <1>5, <1>7
<1> QED
  BY <1>6, <1>7, <1>8, <1>9, <1>10 DEF s

-----------------------------------------------------------------------------
(* Messages.                                                               *)

LEMMA PairsOf ==
  ASSUME NEW m \in Message, Proper(m)
  PROVE  /\ m.application \in Seq(ApplicationProperty) /\ m.annotations \in Seq(MessageAnnotation)
         /\ \A i \in 1 .. Len(m.application) : GoodPair("Application", m.application[i])
         /\ \A i \in 1 .. Len(m.annotations) : GoodPair("Annotations", m.annotations[i])
<1>1. m.application \in Seq(ApplicationProperty) /\ m.annotations \in Seq(MessageAnnotation)
  BY DEF Message
<1> DEFINE q == m.application
           a == m.annotations
<1>2. /\ DOMAIN q = 1 .. Len(q) /\ \A i \in 1 .. Len(q) : q[i] \in ApplicationProperty
      /\ DOMAIN a = 1 .. Len(a) /\ \A i \in 1 .. Len(a) : a[i] \in MessageAnnotation
  <2> HIDE DEF q, a
  <2>1. q \in Seq(ApplicationProperty) /\ a \in Seq(MessageAnnotation)
    BY <1>1 DEF q, a
  <2> QED
    BY <2>1, LenProperties, ElementOfSeq
<1>3. /\ \A i \in 1 .. Len(q) : ~Falsy(q[i].key) /\ ~Falsy(q[i].value)
      /\ \A i \in 1 .. Len(a) : ~Falsy(a[i].key) /\ a[i].value # Value("string", 0)
  BY <1>2 DEF Proper, ToSet
<1> HIDE DEF q, a
<1>4. ASSUME NEW i \in 1 .. Len(q) PROVE GoodPair("Application", q[i])
  <2> DEFINE p == q[i]
  <2>1. p \in ApplicationProperty /\ ~Falsy(p.key) /\ ~Falsy(p.value)
    BY <1>2, <1>3
  <2> HIDE DEF p
  <2>2. /\ p.key \in Given("string") /\ (p.value \in Given("string") \/ p.value \in Given("number"))
        /\ p = [key |-> p.key, value |-> p.value]
    BY <2>1 DEF ApplicationProperty
  <2>3. p.value.kind \in {"string", "number"}
    BY <2>2, GivenIs
  <2>4. \A v \in Given("byte") : v.kind = "byte"
    BY GivenIs
  <2>5. p.value # Value("string", 0)
    <3>1. Falsy(Value("string", 0))
      BY DEF Falsy, Value
    <3> QED
      BY <2>1, <3>1
  <2>6. p.value \notin Given("byte")
    BY <2>3, <2>4
  <2>7. GoodPair("Application", p)
    BY <2>1, <2>2, <2>5, <2>6 DEF GoodPair
  <2> QED
    BY <2>7 DEF p
<1>5. ASSUME NEW i \in 1 .. Len(a) PROVE GoodPair("Annotations", a[i])
  <2> DEFINE p == a[i]
  <2>1. p \in MessageAnnotation /\ ~Falsy(p.key) /\ p.value # Value("string", 0)
    BY <1>2, <1>3
  <2> HIDE DEF p
  <2>2. /\ p.key \in Given("string") /\ p.value \in Given("string") \cup Given("number") \cup Given("byte")
        /\ p = [key |-> p.key, value |-> p.value]
    BY <2>1 DEF MessageAnnotation
  <2>3. GoodPair("Annotations", p)
    BY <2>1, <2>2 DEF GoodPair
  <2> QED
    BY <2>3 DEF p
<1> QED
  BY <1>1, <1>4, <1>5 DEF q, a

Read(c, p, q, a) == [content |-> c, properties |-> p, application |-> q, annotations |-> a]

LEMMA SameApplication ==
  ASSUME NEW m \in Message, Proper(m)
  PROVE  AsPairs(m.application) = m.application
<1> DEFINE q == m.application
<1>1. q \in Seq(ApplicationProperty) /\ \A i \in 1 .. Len(q) : GoodPair("Application", q[i])
  BY PairsOf
<1> HIDE DEF q
<1>2. ASSUME NEW i \in 1 .. Len(q) PROVE AsPair(q[i]) = q[i]
  <2> DEFINE p == q[i]
  <2>1. GoodPair("Application", p)
    BY <1>1
  <2> HIDE DEF p
  <2>2. p.value \in Given("string") \/ p.value \in Given("number")
    BY <2>1 DEF GoodPair
  <2>3. p.value.kind \in {"string", "number"}
    BY <2>2, GivenIs
  <2>4. AsPair(p) = p
    BY <2>1, <2>3 DEF AsPair, GoodPair
  <2> QED
    BY <2>4 DEF p
<1>3. AsPairs(q) = [i \in 1 .. Len(q) |-> q[i]]
  BY <1>2 DEF AsPairs
<1>4. q = [i \in 1 .. Len(q) |-> q[i]]
  BY <1>1
<1> QED
  BY <1>3, <1>4 DEF q

LEMMA ReadAnnotations ==
  ASSUME NEW m \in Message, Proper(m)
  PROVE  /\ Reads(writeMap("Annotations", m.annotations), Empty,
                  Read(0, NoProperties, <<>>, AsPairs(m.annotations)))
         /\ Bytes(writeMap("Annotations", m.annotations)) = sizeOfMap(m.annotations)
         /\ sizeOfMap(m.annotations) \in Nat
<1> DEFINE a == m.annotations
           s == writeMap("Annotations", a)
           to == Read(0, NoProperties, <<>>, AsPairs(a))
<1>1. a \in Seq(MessageAnnotation) /\ \A i \in 1 .. Len(a) : GoodPair("Annotations", a[i])
  BY PairsOf
<1> HIDE DEF a
<1>2. CASE a = <<>>
  <2>1. s = <<>> /\ sizeOfMap(a) = 0
    BY <1>2 DEF writeMap, sizeOfMap
  <2>2. AsPairs(a) = <<>>
    BY <1>2 DEF AsPairs
  <2>3. to = Empty
    BY <2>2 DEF Read, Empty
  <2> HIDE DEF s, to
  <2>4. Reads(s, Empty, to) /\ Bytes(s) = 0
    BY <2>1, <2>3, BytesOfNone DEF Reads
  <2> QED
    BY <2>1, <2>4 DEF s, to, a
<1>3. CASE a # <<>>
  <2>1. /\ s \in Seq(Tokens) /\ Bytes(s) = sizeOfMap(a) /\ Len(s) = 2 + 2 * Len(a)
        /\ Bytes(s) \in Nat \ {0}
        /\ \A message, tokens : \A i \in Nat \ {0} : Len(tokens) \in Nat /\ Holds(tokens, i, s) =>
             /\ tokens[i].code = "Described"
             /\ readSection(message, tokens, i) = <<Filled(message, "Annotations", a), i + Len(s)>>
    <3> HIDE DEF s
    <3>1. "Annotations" \in {"Annotations", "Application"}
      OBVIOUS
    <3> QED
      BY <1>1, <1>3, <3>1, MapIs DEF s
  <2>2. Filled(Empty, "Annotations", a) = to
    BY DEF Filled, Empty, Read
  <2>3. Len(a) \in Nat
    BY <1>1
  <2> HIDE DEF s, to
  <2>4. Len(s) >= 2
    BY <2>1, <2>3
  <2>5. Reads(s, Empty, to)
    BY <2>1, <2>2, <2>4 DEF Reads
  <2> QED
    BY <2>1, <2>5 DEF s, to, a
<1> QED
  BY <1>2, <1>3

LEMMA ReadApplication ==
  ASSUME NEW m \in Message, Proper(m), NEW p, NEW x
  PROVE  /\ Reads(writeMap("Application", m.application), Read(0, p, <<>>, x), Read(0, p, m.application, x))
         /\ Bytes(writeMap("Application", m.application)) = sizeOfMap(m.application)
         /\ sizeOfMap(m.application) \in Nat
<1> DEFINE a == m.application
           s == writeMap("Application", a)
           from == Read(0, p, <<>>, x)
           to == Read(0, p, a, x)
<1>1. a \in Seq(ApplicationProperty) /\ \A i \in 1 .. Len(a) : GoodPair("Application", a[i])
  BY PairsOf
<1>2. AsPairs(a) = a
  BY SameApplication
<1> HIDE DEF a
<1>3. CASE a = <<>>
  <2>1. s = <<>> /\ sizeOfMap(a) = 0
    BY <1>3 DEF writeMap, sizeOfMap
  <2>2. to = from
    BY <1>3 DEF Read
  <2> HIDE DEF s, from, to
  <2>3. Reads(s, from, to) /\ Bytes(s) = 0
    BY <2>1, <2>2, BytesOfNone DEF Reads
  <2> QED
    BY <2>1, <2>3 DEF s, from, to, a
<1>4. CASE a # <<>>
  <2>1. /\ s \in Seq(Tokens) /\ Bytes(s) = sizeOfMap(a) /\ Len(s) = 2 + 2 * Len(a)
        /\ Bytes(s) \in Nat \ {0}
        /\ \A message, tokens : \A i \in Nat \ {0} : Len(tokens) \in Nat /\ Holds(tokens, i, s) =>
             /\ tokens[i].code = "Described"
             /\ readSection(message, tokens, i) = <<Filled(message, "Application", a), i + Len(s)>>
    <3> HIDE DEF s
    <3>1. "Application" \in {"Annotations", "Application"}
      OBVIOUS
    <3> QED
      BY <1>1, <1>4, <3>1, MapIs DEF s
  <2>2. Filled(from, "Application", a) = to
    BY <1>2 DEF Filled, Read
  <2>3. Len(a) \in Nat
    BY <1>1
  <2> HIDE DEF s, from, to
  <2>4. Len(s) >= 2
    BY <2>1, <2>3
  <2>5. Reads(s, from, to)
    BY <2>1, <2>2, <2>4 DEF Reads
  <2> QED
    BY <2>1, <2>5 DEF s, from, to, a
<1> QED
  BY <1>3, <1>4

(* What a consumer is given of the properties.                             *)
PropertiesRead(m) == AsRead(m).properties

LEMMA ReadProperties ==
  ASSUME NEW m \in Message, Proper(m), NEW x
  PROVE  /\ Reads(writeProperties(m.properties), Read(0, NoProperties, <<>>, x),
                  Read(0, PropertiesRead(m), <<>>, x))
         /\ Bytes(writeProperties(m.properties)) = sizeOfProperties(m.properties)
         /\ sizeOfProperties(m.properties) \in Nat
<1> DEFINE ps == m.properties
           s == writeProperties(ps)
           from == Read(0, NoProperties, <<>>, x)
           to == Read(0, PropertiesRead(m), <<>>, x)
<1>1. ps \in Seq(MessageProperties) /\ Len(ps) <= 1
  BY DEF Message
<1>2. PropertiesRead(m) = [f \in ToSet(Fields) |->
         IF ps = <<>> THEN Absent ELSE IF Falsy(ps[1][f]) THEN Absent ELSE ps[1][f]]
  BY DEF PropertiesRead, AsRead
<1>3. \A p \in ToSet(ps) : p["userId"] = Absent \/ p["userId"].n \in 1 .. 255
  BY DEF Proper
<1> HIDE DEF ps
<1>4. CASE ps = <<>>
  <2>1. s = <<>> /\ sizeOfProperties(ps) = 0
    BY <1>4 DEF writeProperties, sizeOfProperties
  <2>2. PropertiesRead(m) = NoProperties
    BY <1>2, <1>4 DEF NoProperties
  <2>3. to = from
    BY <2>2
  <2> QED
    BY <2>1, <2>3, BytesOfNone DEF Reads, ps
<1>5. CASE ps # <<>>
  <2> DEFINE p == ps[1]
  <2>1. p \in MessageProperties /\ p \in ToSet(ps)
    <3>1. Len(ps) \in Nat /\ DOMAIN ps = 1 .. Len(ps)
      BY <1>1, LenProperties
    <3>2. Len(ps) # 0
      BY <1>1, <1>5, EmptySeq
    <3>3. 1 \in DOMAIN ps /\ 1 \in 1 .. Len(ps)
      BY <3>1, <3>2
    <3> QED
      BY <1>1, <3>3, ElementOfSeq DEF ToSet
  <2>2. p["userId"] = Absent \/ p["userId"].n \in 1 .. 255
    BY <1>3, <2>1
  <2>3. PropertiesRead(m) = AsFields(p)
    BY <1>2, <1>5 DEF AsFields, AsField
  <2> HIDE DEF p
  <2>4. ps[1] = p
    BY DEF p
  <2>5. /\ Bytes(writeProperties(ps)) = sizeOfProperties(ps)
        /\ Bytes(writeProperties(ps)) \in Nat \ {0}
        /\ \A message : Reads(writeProperties(ps), message, WithFields(message, p))
    BY <1>5, <2>1, <2>2, <2>4, PropertiesAre
  <2>6. WithFields(from, p) = to
    BY <2>3 DEF Read, WithFields
  <2> HIDE DEF s, from, to
  <2>7. Reads(s, from, to)
    BY <2>5, <2>6 DEF s
  <2> QED
    BY <2>5, <2>7 DEF s, from, to, ps
<1> QED
  BY <1>4, <1>5

LEMMA ReadContent ==
  ASSUME NEW n \in Nat, NEW p, NEW q, NEW x
  PROVE  /\ Reads(writeContent(n), Read(0, p, q, x), Read(n, p, q, x))
         /\ Bytes(writeContent(n)) = n + 3 + (IF n <= 255 THEN 2 ELSE 5)
         /\ Bytes(writeContent(n)) \in Nat \ {0}
<1> DEFINE s == writeContent(n)
           from == Read(0, p, q, x)
           to == Read(n, p, q, x)
<1>1. /\ s \in Seq(Tokens) /\ Bytes(s) = n + 3 + (IF n <= 255 THEN 2 ELSE 5) /\ Len(s) = 2
      /\ \A message, tokens : \A i \in Nat \ {0} : Len(tokens) \in Nat /\ Holds(tokens, i, s) =>
           /\ tokens[i].code = "Described"
           /\ readSection(message, tokens, i) = <<[message EXCEPT !.content = n], i + Len(s)>>
  BY ContentIs
<1>2. [from EXCEPT !.content = n] = to
  BY DEF Read
<1> HIDE DEF s, from, to
<1>3. Bytes(s) \in Nat \ {0}
  BY <1>1
<1>4. Reads(s, from, to)
  BY <1>1, <1>2, <1>3, SMTT(30) DEF Reads
<1> QED
  BY <1>1, <1>3, <1>4 DEF s, from, to

-----------------------------------------------------------------------------
(* The loop of decodeMessage.                                              *)

Following(tokens, size, before, k) == IF k = 0 THEN <<Empty, 1>> ELSE readNext(before, tokens, size)
IsAfter(tokens, size, f, m) == f = [k \in 0 .. m |-> Following(tokens, size, f[k - 1], k)]

LEMMA AfterExists ==
  ASSUME NEW tokens, NEW size
  PROVE  \A m \in Nat : \E f : IsAfter(tokens, size, f, m)
<1> DEFINE S == {m \in Nat : \E f : IsAfter(tokens, size, f, m)}
           F(before, k) == Following(tokens, size, before, k)
<1>1. 0 \in S
  <2> DEFINE f == [k \in 0 .. 0 |-> <<Empty, 1>>]
             h == [k \in 0 .. 0 |-> F(f[k - 1], k)]
  <2>1. \A k \in 0 .. 0 : f[k] = F(f[k - 1], k)
    BY DEF Following
  <2>2. f = h
    BY <2>1
  <2> QED
    BY <2>2 DEF IsAfter
<1>2. ASSUME NEW m \in Nat, m \in S PROVE m + 1 \in S
  <2>1. PICK f : IsAfter(tokens, size, f, m)
    BY <1>2
  <2> DEFINE x == F(f[m], m + 1)
             g == [k \in 0 .. m + 1 |-> IF k <= m THEN f[k] ELSE x]
             h == [k \in 0 .. m + 1 |-> F(g[k - 1], k)]
  <2>2. \A k \in 0 .. m : f[k] = F(f[k - 1], k)
    BY <2>1 DEF IsAfter
  <2>3. ASSUME NEW k \in 0 .. m + 1 PROVE g[k] = F(g[k - 1], k)
    <3>1. CASE k = 0
      <4>1. g[k] = f[k] /\ f[k] = F(f[k - 1], k)
        BY <2>2, <3>1
      <4> QED
        BY <3>1, <4>1 DEF Following
    <3>2. CASE k \in 1 .. m
      <4>1. g[k] = f[k] /\ g[k - 1] = f[k - 1] /\ f[k] = F(f[k - 1], k)
        BY <2>2, <3>2
      <4> QED
        BY <4>1
    <3>3. CASE k = m + 1
      <4>1. g[k] = x /\ g[k - 1] = f[m]
        BY <3>3
      <4> QED
        BY <3>3, <4>1
    <3> QED
      BY <3>1, <3>2, <3>3
  <2>4. \A k \in 0 .. m + 1 : g[k] = h[k]
    BY <2>3
  <2>5. DOMAIN g = 0 .. m + 1 /\ DOMAIN h = 0 .. m + 1 /\ g = [k \in DOMAIN g |-> g[k]] /\ h = [k \in DOMAIN h |-> h[k]]
    OBVIOUS
  <2> HIDE DEF g, h
  <2>6. g = h
    BY <2>4, <2>5
  <2> QED
    BY <2>6 DEF IsAfter, h
<1>3. Nat \subseteq S
  <2> HIDE DEF S
  <2> QED
    BY <1>1, <1>2, SetInduction
<1> QED
  BY <1>3

(* What was read after k sections, for all k up to the number of tokens.   *)
Loop(f, tokens, size) ==
  f[0] = <<Empty, 1>> /\ \A k \in 1 .. Len(tokens) : f[k] = readNext(f[k - 1], tokens, size)

LEMMA DecodeIs ==
  ASSUME NEW tokens, Len(tokens) \in Nat, NEW size
  PROVE  \E f : /\ Loop(f, tokens, size)
                /\ decodeMessage(tokens, size) =
                     LET read == f[Len(tokens)]
                     IN  IF read # <<>> /\ ReadWhole(read, tokens, size) THEN <<read[1]>> ELSE <<>>
<1> DEFINE l == Len(tokens)
           f == CHOOSE f : IsAfter(tokens, size, f, l)
<1>1. IsAfter(tokens, size, f, l)
  BY AfterExists
<1>2. decodeMessage(tokens, size) =
        LET read == f[l]
        IN  IF read # <<>> /\ ReadWhole(read, tokens, size) THEN <<read[1]>> ELSE <<>>
  BY DEF decodeMessage, IsAfter, Following
<1> HIDE DEF f
<1>3. \A k \in 0 .. l : f[k] = Following(tokens, size, f[k - 1], k)
  BY <1>1 DEF IsAfter
<1>4. Loop(f, tokens, size)
  BY <1>3 DEF Loop, Following
<1> QED
  BY <1>2, <1>4

(* u is a beginning of the tokens.                                         *)
Begins(tokens, u) == Len(u) <= Len(tokens) /\ \A i \in 1 .. Len(u) : tokens[i] = u[i]

LEMMA BeginsConcat ==
  ASSUME NEW tokens \in Seq(Tokens), NEW u \in Seq(Tokens), NEW s \in Seq(Tokens), Begins(tokens, u \o s)
  PROVE  Begins(tokens, u) /\ Holds(tokens, Len(u) + 1, s)
<1>1. /\ Len(u) \in Nat /\ Len(s) \in Nat /\ Len(u \o s) = Len(u) + Len(s)
      /\ \A i \in 1 .. Len(u) : (u \o s)[i] = u[i]
      /\ \A i \in 1 .. Len(s) : (u \o s)[Len(u) + i] = s[i]
  BY Joined
<1> DEFINE w == u \o s
<1>2. Len(w) <= Len(tokens) /\ \A i \in 1 .. Len(w) : tokens[i] = w[i]
  BY DEF Begins
<1>3. Len(tokens) \in Nat
  BY LenProperties
<1>4. /\ Len(w) = Len(u) + Len(s)
      /\ \A i \in 1 .. Len(u) : w[i] = u[i]
      /\ \A i \in 1 .. Len(s) : w[Len(u) + i] = s[i]
  BY <1>1
<1> HIDE DEF w
<1>5. Begins(tokens, u)
  BY <1>1, <1>2, <1>3, <1>4 DEF Begins
<1>6. ASSUME NEW j \in 1 .. Len(s) PROVE tokens[Len(u) + 1 - 1 + j] = s[j]
  <2>1. Len(u) + j \in 1 .. Len(w) /\ Len(u) + 1 - 1 + j = Len(u) + j
    BY <1>1, <1>4
  <2> QED
    BY <1>2, <1>4, <2>1
<1>7. Len(u) + 1 + Len(s) - 1 <= Len(tokens)
  BY <1>1, <1>2, <1>3, <1>4
<1> QED
  BY <1>5, <1>6, <1>7 DEF Holds

LEMMA BeginsIs ==
  ASSUME NEW tokens \in Seq(Tokens), NEW u \in Seq(Tokens), Begins(tokens, u)
  PROVE  SubSeq(tokens, 1, Len(u)) = u
<1>1. Len(u) \in Nat /\ Len(tokens) \in Nat /\ Len(u) <= Len(tokens)
  BY LenProperties DEF Begins
<1>2. \A i \in 1 .. Len(u) : tokens[i] = u[i] /\ u[i] \in Tokens
  BY ElementOfSeq DEF Begins
<1> DEFINE n == Len(u)
           w == SubSeq(tokens, 1, n)
<1>3. n \in Int /\ 1 \in Int /\ \A i \in 1 .. n : tokens[i] \in Tokens
  BY <1>1, <1>2
<1> HIDE DEF n
<1>4. w \in Seq(Tokens) /\ Len(w) = (IF 1 <= n THEN n - 1 + 1 ELSE 0) /\ \A i \in 1 .. n - 1 + 1 : w[i] = tokens[1 + i - 1]
  BY <1>3, SubSeqProperties
<1> HIDE DEF w
<1>5. n \in Nat
  BY <1>1 DEF n
<1>6. Len(w) = n /\ \A i \in 1 .. n : w[i] = tokens[i]
  <2>1. Len(w) = n
    BY <1>4, <1>5
  <2>2. \A i \in 1 .. n : 1 + i - 1 = i /\ i \in 1 .. n - 1 + 1
    BY <1>5
  <2> QED
    BY <1>4, <2>1, <2>2
<1>7. w = u
  BY <1>2, <1>4, <1>6, SeqEqual DEF n
<1> QED
  BY <1>7 DEF w, n

(* The sections u have been read, and the message is what they say.        *)
Reached(f, message, u) == \E k \in 0 .. Len(u) : f[k] = <<message, Len(u) + 1>>

LEMMA OneMore ==
  ASSUME NEW f, NEW tokens \in Seq(Tokens), NEW size, Loop(f, tokens, size),
         NEW u \in Seq(Tokens), NEW s, NEW before, NEW after, Reads(s, before, after),
         Begins(tokens, u \o s), Bytes(u) # size, Reached(f, before, u)
  PROVE  Reached(f, after, u \o s)
<1>1. CASE s = <<>>
  <2>1. u \o s = u
    BY <1>1, ConcatEmptySeq
  <2>2. after = before
    <3>1. Len(<<>>) = 0
      OBVIOUS
    <3> QED
      BY <1>1, <3>1 DEF Reads
  <2> QED
    BY <2>1, <2>2
<1>2. CASE s # <<>>
  <2>1. /\ s \in Seq(Tokens) /\ Len(s) >= 2
        /\ \A t : \A i \in Nat \ {0} : Len(t) \in Nat /\ Holds(t, i, s) =>
             t[i].code = "Described" /\ readSection(before, t, i) = <<after, i + Len(s)>>
    BY <1>2 DEF Reads
  <2>2. Len(u) \in Nat /\ Len(s) \in Nat /\ Len(u \o s) = Len(u) + Len(s) /\ Len(tokens) \in Nat
    BY <2>1, Joined, LenProperties
  <2>3. Len(u) + Len(s) <= Len(tokens)
    BY <2>2 DEF Begins
  <2>4. Begins(tokens, u) /\ Holds(tokens, Len(u) + 1, s)
    BY <2>1, BeginsConcat
  <2> DEFINE i == Len(u) + 1
             read == <<before, i>>
  <2>5. i \in Nat \ {0} /\ i - 1 = Len(u) /\ i <= Len(tokens)
    BY <2>1, <2>2, <2>3
  <2>6. tokens[i].code = "Described" /\ readSection(before, tokens, i) = <<after, i + Len(s)>>
    BY <2>1, <2>2, <2>4, <2>5
  <2>7. read # <<>> /\ read[1] = before /\ read[2] = i
    OBVIOUS
  <2>8. PICK k \in 0 .. Len(u) : f[k] = read
    BY DEF Reached
  <2> HIDE DEF i, read
  <2>9. ~ReadWhole(read, tokens, size)
    <3>1. SubSeq(tokens, 1, read[2] - 1) = u
      BY <2>4, <2>5, <2>7, BeginsIs
    <3> QED
      BY <3>1 DEF ReadWhole
  <2>10. readNext(read, tokens, size) = <<after, i + Len(s)>>
    BY <2>2, <2>5, <2>6, <2>7, <2>9 DEF readNext
  <2>11. k + 1 \in 1 .. Len(tokens) /\ (k + 1) - 1 = k /\ k + 1 \in 0 .. Len(u \o s)
    BY <2>1, <2>2, <2>3
  <2>12. f[k + 1] = <<after, i + Len(s)>>
    BY <2>8, <2>10, <2>11 DEF Loop
  <2>13. i + Len(s) = Len(u \o s) + 1
    BY <2>2 DEF i
  <2> QED
    BY <2>11, <2>12, <2>13 DEF Reached
<1> QED
  BY <1>1, <1>2

(* Once all is read, the loop ends with it.                                *)
LEMMA Stays ==
  ASSUME NEW f, NEW tokens \in Seq(Tokens), NEW message, Loop(f, tokens, Bytes(tokens)),
         Reached(f, message, tokens)
  PROVE  /\ f[Len(tokens)] = <<message, Len(tokens) + 1>>
         /\ ReadWhole(f[Len(tokens)], tokens, Bytes(tokens))
<1> DEFINE l == Len(tokens)
           read == <<message, l + 1>>
<1>1. l \in Nat /\ (l + 1) - 1 = l
  BY LenProperties
<1>2. PICK k \in 0 .. l : f[k] = read
  BY DEF Reached
<1>3. ReadWhole(read, tokens, Bytes(tokens))
  <2>1. read[2] = l + 1
    OBVIOUS
  <2>2. SubSeq(tokens, 1, read[2] - 1) = tokens
    BY <1>1, <2>1, SubSeqFull
  <2> QED
    BY <2>2 DEF ReadWhole
<1>4. readNext(read, tokens, Bytes(tokens)) = read
  BY <1>3 DEF readNext
<1> HIDE DEF read
<1> DEFINE S == {n \in Nat : k + n <= l => f[k + n] = read}
<1>5. 0 \in S
  BY <1>1, <1>2
<1>6. ASSUME NEW n \in Nat, n \in S PROVE n + 1 \in S
  <2> SUFFICES ASSUME k + (n + 1) <= l PROVE f[k + (n + 1)] = read
    OBVIOUS
  <2>1. k + (n + 1) \in 1 .. l /\ (k + (n + 1)) - 1 = k + n /\ k + n <= l
    BY <1>1
  <2>2. f[k + (n + 1)] = readNext(f[k + n], tokens, Bytes(tokens))
    BY <2>1 DEF Loop
  <2>3. f[k + n] = read
    BY <1>6, <2>1
  <2> QED
    BY <1>4, <2>2, <2>3
<1>7. Nat \subseteq S
  <2> HIDE DEF S
  <2> QED
    BY <1>5, <1>6, SetInduction
<1>8. f[l] = read
  <2>1. l - k \in Nat /\ k + (l - k) = l
    BY <1>1
  <2>2. l - k \in S
    BY <1>7, <2>1
  <2> QED
    BY <2>1, <2>2
<1> QED
  BY <1>3, <1>8 DEF read

(* What amqpEncode writes of a message the codec keeps is as long as       *)
(* messageSize said, and decodeMessage gives the message back.             *)
THEOREM RoundTrip ==
  ASSUME NEW m \in Message, Proper(m)
  PROVE  /\ encode(m) \in Seq(Tokens) /\ Bytes(encode(m)) = messageSize(m)
         /\ decodeMessage(encode(m), messageSize(m)) = <<AsRead(m)>>
<1> DEFINE x == AsPairs(m.annotations)
           p == PropertiesRead(m)
           r1 == Read(0, NoProperties, <<>>, x)
           r2 == Read(0, p, <<>>, x)
           r3 == Read(0, p, m.application, x)
           r4 == Read(m.content, p, m.application, x)
           a == writeMap("Annotations", m.annotations)
           b == writeProperties(m.properties)
           c == writeMap("Application", m.application)
           d == writeContent(m.content)
<1>1. m.content \in Nat
  BY DEF Message
<1>2. Reads(a, Empty, r1) /\ Bytes(a) = sizeOfMap(m.annotations) /\ Bytes(a) \in Nat
  BY ReadAnnotations
<1>3. Reads(b, r1, r2) /\ Bytes(b) = sizeOfProperties(m.properties) /\ Bytes(b) \in Nat
  BY ReadProperties
<1>4. Reads(c, r2, r3) /\ Bytes(c) = sizeOfMap(m.application) /\ Bytes(c) \in Nat
  BY ReadApplication
<1>5. /\ Reads(d, r3, r4) /\ Bytes(d) = m.content + 3 + (IF m.content <= 255 THEN 2 ELSE 5)
      /\ Bytes(d) \in Nat \ {0}
  BY <1>1, ReadContent
<1>6. encode(m) = ((a \o b) \o c) \o d
  BY DEF encode
<1>7. messageSize(m) = m.content + 3 + (IF m.content <= 255 THEN 2 ELSE 5)
                         + sizeOfProperties(m.properties) + sizeOfMap(m.application) + sizeOfMap(m.annotations)
  BY DEF messageSize
<1>8. r4 = AsRead(m)
  <2>1. m.annotations \in Seq(MessageAnnotation)
    BY PairsOf
  <2>2. DOMAIN m.annotations = 1 .. Len(m.annotations)
    BY <2>1, LenProperties
  <2>3. AsRead(m).annotations = x
    BY <2>2 DEF AsRead, AsPairs, AsPair
  <2>4. AsRead(m) = [content |-> m.content, properties |-> AsRead(m).properties,
                     application |-> m.application, annotations |-> AsRead(m).annotations]
    BY DEF AsRead
  <2> QED
    BY <2>3, <2>4 DEF Read, PropertiesRead
<1> HIDE DEF r1, r2, r3, r4, a, b, c, d
<1> DEFINE ab == a \o b
           abc == ab \o c
           tokens == abc \o d
           size == messageSize(m)
<1>9. a \in Seq(Tokens) /\ b \in Seq(Tokens) /\ c \in Seq(Tokens) /\ d \in Seq(Tokens)
  BY <1>2, <1>3, <1>4, <1>5 DEF Reads
<1>10. ab \in Seq(Tokens) /\ Bytes(ab) = Bytes(a) + Bytes(b)
  BY <1>9, BytesConcat
<1> HIDE DEF ab
<1>11. abc \in Seq(Tokens) /\ Bytes(abc) = Bytes(ab) + Bytes(c)
  BY <1>9, <1>10, BytesConcat
<1> HIDE DEF abc
<1>12. tokens \in Seq(Tokens) /\ Bytes(tokens) = Bytes(abc) + Bytes(d)
  BY <1>9, <1>11, BytesConcat
<1> HIDE DEF tokens
<1>13. Bytes(tokens) = size
  <2> DEFINE z == IF m.content <= 255 THEN 2 ELSE 5
  <2>1. z \in Nat
    BY <1>1
  <2>2. size = m.content + 3 + z + Bytes(b) + Bytes(c) + Bytes(a)
    BY <1>2, <1>3, <1>4, <1>7
  <2>3. Bytes(d) = m.content + 3 + z
    BY <1>5
  <2>4. m.content \in Nat /\ Bytes(a) \in Nat /\ Bytes(b) \in Nat /\ Bytes(c) \in Nat
    BY <1>1, <1>2, <1>3, <1>4
  <2>5. Bytes(tokens) = Bytes(a) + Bytes(b) + Bytes(c) + Bytes(d)
    BY <1>10, <1>11, <1>12
  <2> HIDE DEF z, size
  <2> QED
    BY <2>1, <2>2, <2>3, <2>4, <2>5
<1>14. tokens = encode(m)
  BY <1>6 DEF tokens, abc, ab
<1> HIDE DEF size
<1>15. Bytes(<<>>) # size /\ Bytes(a) # size /\ Bytes(ab) # size /\ Bytes(abc) # size
  <2>1. Bytes(<<>>) = 0
    BY BytesOfNone
  <2> QED
    BY <1>2, <1>3, <1>4, <1>5, <1>10, <1>11, <1>12, <1>13, <2>1
<1>16. Begins(tokens, abc \o d) /\ Begins(tokens, abc) /\ Begins(tokens, ab) /\ Begins(tokens, a)
  <2>1. Begins(tokens, tokens)
    <3>1. Len(tokens) \in Nat
      BY <1>12, LenProperties
    <3> QED
      BY <3>1 DEF Begins
  <2>2. Begins(tokens, abc \o d)
    BY <2>1 DEF tokens
  <2>3. Begins(tokens, abc)
    BY <1>9, <1>11, <1>12, <2>2, BeginsConcat
  <2>4. Begins(tokens, ab)
    <3>1. Begins(tokens, ab \o c)
      BY <2>3 DEF abc
    <3> QED
      BY <1>9, <1>10, <1>12, <3>1, BeginsConcat
  <2>5. Begins(tokens, a)
    <3>1. Begins(tokens, a \o b)
      BY <2>4 DEF ab
    <3> QED
      BY <1>9, <1>12, <3>1, BeginsConcat
  <2> QED
    BY <2>2, <2>3, <2>4, <2>5
<1>17. PICK f : /\ Loop(f, tokens, size)
                /\ decodeMessage(tokens, size) =
                     LET read == f[Len(tokens)]
                     IN  IF read # <<>> /\ ReadWhole(read, tokens, size) THEN <<read[1]>> ELSE <<>>
  <2>1. Len(tokens) \in Nat
    BY <1>12, LenProperties
  <2> QED
    BY <2>1, DecodeIs
<1>18. Reached(f, Empty, <<>>)
  <2>1. f[0] = <<Empty, 1>>
    BY <1>17 DEF Loop
  <2>2. Len(<<>>) = 0 /\ 0 \in 0 .. Len(<<>>) /\ Len(<<>>) + 1 = 1
    OBVIOUS
  <2> QED
    BY <2>1, <2>2 DEF Reached
<1>19. Reached(f, r1, a)
  <2>1. <<>> \o a = a /\ <<>> \in Seq(Tokens)
    BY <1>9, ConcatEmptySeq, BytesOfNone
  <2>2. Begins(tokens, <<>> \o a)
    BY <1>16, <2>1
  <2>3. PICK u : u = <<>>
    OBVIOUS
  <2>4. /\ u \in Seq(Tokens) /\ Begins(tokens, u \o a) /\ Bytes(u) # size /\ Reached(f, Empty, u) /\ u \o a = a
    BY <1>15, <1>18, <2>1, <2>2, <2>3
  <2>5. Reached(f, r1, u \o a)
    BY <1>2, <1>12, <1>17, <2>4, OneMore
  <2> QED
    BY <2>4, <2>5
<1>20. Reached(f, r2, ab)
  <2>1. Reached(f, r2, a \o b)
    <3>1. Begins(tokens, a \o b)
      BY <1>16 DEF ab
    <3> QED
      BY <1>3, <1>9, <1>12, <1>15, <1>17, <1>19, <3>1, OneMore
  <2> QED
    BY <2>1 DEF ab
<1>21. Reached(f, r3, abc)
  <2>1. Reached(f, r3, ab \o c)
    <3>1. Begins(tokens, ab \o c)
      BY <1>16 DEF abc
    <3> QED
      BY <1>4, <1>10, <1>12, <1>15, <1>17, <1>20, <3>1, OneMore
  <2> QED
    BY <2>1 DEF abc
<1>22. Reached(f, r4, tokens)
  <2>1. Reached(f, r4, abc \o d)
    BY <1>5, <1>11, <1>12, <1>15, <1>16, <1>17, <1>21, OneMore
  <2> QED
    BY <2>1 DEF tokens
<1>23. f[Len(tokens)] = <<r4, Len(tokens) + 1>> /\ ReadWhole(f[Len(tokens)], tokens, size)
  BY <1>12, <1>13, <1>17, <1>22, Stays
<1>24. decodeMessage(tokens, size) = <<r4>>
  <2>1. f[Len(tokens)] # <<>> /\ f[Len(tokens)][1] = r4
    BY <1>23
  <2> QED
    BY <1>17, <1>23, <2>1
<1> QED
  BY <1>8, <1>12, <1>13, <1>14, <1>24 DEF size

(* The size of any message is a number.                                    *)
LEMMA SizeOfValue ==
  ASSUME NEW kind \in {"string", "buffer", "date", "number", "byte"}, NEW v, v = Absent \/ v \in Given(kind)
  PROVE  getSizeOf(v) \in Nat
<1>1. CASE Falsy(v)
  BY <1>1 DEF getSizeOf
<1>2. CASE ~Falsy(v)
  <2>1. v \in Given(kind) /\ v.kind = kind /\ (kind \in {"string", "buffer"} => v.n \in Nat)
    BY <1>2, AbsentIs, GivenIs
  <2>2. kind \in {"string", "buffer"} => getSizeOf(v) = IF v.n <= 255 THEN 2 + v.n ELSE 5 + v.n
    BY <1>2, <2>1 DEF getSizeOf
  <2>3. /\ kind = "byte" => getSizeOf(v) = 2
        /\ kind = "date" => getSizeOf(v) = 9
        /\ kind = "number" => getSizeOf(v) = 5
    BY <1>2, <2>1 DEF getSizeOf
  <2> QED
    BY <2>1, <2>2, <2>3
<1> QED
  BY <1>1, <1>2

LEMMA SizeOfMap ==
  ASSUME NEW P, NEW pairs \in Seq(P),
         \A p \in P : /\ p.key \in Given("string")
                      /\ p.value \in Given("string") \cup Given("number") \cup Given("byte")
  PROVE  sizeOfMap(pairs) \in Nat
<1> DEFINE sizes == [i \in DOMAIN pairs |-> getSizeOf(pairs[i].key) + getSizeOf(pairs[i].value)]
           l == Len(pairs)
<1>1. l \in Nat /\ DOMAIN pairs = 1 .. l /\ \A i \in 1 .. l : pairs[i] \in P
  BY LenProperties, ElementOfSeq
<1>2. \A p \in P : getSizeOf(p.key) \in Nat /\ getSizeOf(p.value) \in Nat
  <2> SUFFICES ASSUME NEW p \in P PROVE getSizeOf(p.key) \in Nat /\ getSizeOf(p.value) \in Nat
    OBVIOUS
  <2>1. getSizeOf(p.key) \in Nat
    BY SizeOfValue
  <2>2. CASE p.value \in Given("string")
    BY <2>1, <2>2, SizeOfValue
  <2>3. CASE p.value \in Given("number")
    BY <2>1, <2>3, SizeOfValue
  <2>4. CASE p.value \in Given("byte")
    BY <2>1, <2>4, SizeOfValue
  <2> QED
    BY <2>2, <2>3, <2>4
<1>3. sizes \in Seq(Nat)
  <2>1. \A i \in 1 .. l : getSizeOf(pairs[i].key) + getSizeOf(pairs[i].value) \in Nat
    BY <1>1, <1>2
  <2>2. sizes = [i \in 1 .. l |-> sizes[i]] /\ \A i \in 1 .. l : sizes[i] \in Nat
    BY <1>1, <2>1
  <2> HIDE DEF sizes
  <2>3. sizes \in [1 .. l -> Nat]
    BY <2>2
  <2> QED
    BY <1>1, <2>3
<1>4. sizeOfMap(pairs) = IF pairs = <<>> THEN 0 ELSE PropertySizeDescription + Total(sizes)
  BY DEF sizeOfMap
<1> HIDE DEF sizes
<1>5. Total(sizes) \in Nat
  BY <1>3, TotalNat
<1> QED
  BY <1>4, <1>5 DEF PropertySizeDescription

LEMMA SizeOfProperties ==
  ASSUME NEW ps \in Seq(MessageProperties), Len(ps) <= 1
  PROVE  sizeOfProperties(ps) \in Nat
<1>1. CASE ps = <<>>
  BY <1>1 DEF sizeOfProperties
<1>2. CASE ps # <<>>
  <2> DEFINE p == ps[1]
             sizes == [i \in DOMAIN Fields |-> getSizeOf(p[Fields[i]])]
  <2>1. p \in MessageProperties
    <3>1. 1 \in 1 .. Len(ps)
      BY <1>2, EmptySeq
    <3> QED
      BY <3>1, ElementOfSeq
  <2>2. sizeOfProperties(ps) = PropertySizeDescription + Total(sizes)
    BY <1>2 DEF sizeOfProperties
  <2> HIDE DEF p
  <2>3. ASSUME NEW f \in ToSet(Fields) PROVE getSizeOf(p[f]) \in Nat
    <3> DEFINE v == p[f]
    <3>1. v \in FieldValues(f)
      BY <2>1 DEF MessageProperties
    <3> HIDE DEF v
    <3>2. \E kind \in {"string", "buffer", "date", "number", "byte"} : v = Absent \/ v \in Given(kind)
      BY <3>1 DEF FieldValues
    <3>3. getSizeOf(v) \in Nat
      BY <3>2, SizeOfValue
    <3> QED
      BY <3>3 DEF v
  <2>4. sizes \in Seq(Nat)
    <3>1. sizes = [i \in 1 .. 13 |-> sizes[i]] /\ \A i \in 1 .. 13 : sizes[i] \in Nat
      BY <2>3, FieldsAre
    <3> HIDE DEF sizes
    <3>2. PICK l : l = 13
      OBVIOUS
    <3>3. l \in Nat /\ sizes \in [1 .. l -> Nat]
      BY <3>1, <3>2
    <3> QED
      BY <3>3
  <2> HIDE DEF sizes
  <2>5. Total(sizes) \in Nat
    BY <2>4, TotalNat
  <2> QED
    BY <2>2, <2>5 DEF PropertySizeDescription
<1> QED
  BY <1>1, <1>2

LEMMA SizeOfMessage ==
  ASSUME NEW m \in Message
  PROVE  messageSize(m) \in Nat
<1>1. /\ m.content \in Nat /\ m.properties \in Seq(MessageProperties) /\ Len(m.properties) <= 1
      /\ m.application \in Seq(ApplicationProperty) /\ m.annotations \in Seq(MessageAnnotation)
  BY DEF Message
<1>2. sizeOfProperties(m.properties) \in Nat
  BY <1>1, SizeOfProperties
<1>3. sizeOfMap(m.application) \in Nat
  <2>1. \A p \in ApplicationProperty :
          /\ p.key \in Given("string")
          /\ p.value \in Given("string") \cup Given("number") \cup Given("byte")
    BY DEF ApplicationProperty
  <2> QED
    BY <1>1, <2>1, SizeOfMap
<1>4. sizeOfMap(m.annotations) \in Nat
  <2>1. \A p \in MessageAnnotation :
          /\ p.key \in Given("string")
          /\ p.value \in Given("string") \cup Given("number") \cup Given("byte")
    BY DEF MessageAnnotation
  <2> QED
    BY <1>1, <2>1, SizeOfMap
<1>5. messageSize(m) = m.content + 3 + (IF m.content <= 255 THEN 2 ELSE 5)
                         + sizeOfProperties(m.properties) + sizeOfMap(m.application) + sizeOfMap(m.annotations)
  BY DEF messageSize
<1>6. \A a, b, c, d \in Nat : a + 3 + (IF a <= 255 THEN 2 ELSE 5) + b + c + d \in Nat
  OBVIOUS
<1> QED
  BY <1>1, <1>2, <1>3, <1>4, <1>5, <1>6, SMTT(30)

-----------------------------------------------------------------------------
(* The stream and its reader.                                              *)

Record == {Stored(m) : m \in Message}
Entry == {e \in [batch : BOOLEAN, records : Seq(Record)] : ~e.batch => Len(e.records) = 1}
Chunk == Seq(Entry) \ {<<>>}

LEMMA RecordIs ==
  ASSUME NEW x \in Record
  PROVE  /\ x.size \in Nat /\ x.message \in Message
         /\ x.tokens = encode(x.message) /\ x.size = messageSize(x.message)
<1>1. PICK m \in Message : x = Stored(m)
  BY DEF Record
<1>2. x.size = messageSize(m) /\ x.tokens = encode(m) /\ x.message = m
  BY <1>1 DEF Stored
<1> QED
  BY <1>2, SizeOfMessage

LEMMA EntryIs ==
  ASSUME NEW e \in Entry
  PROVE  /\ e.batch \in BOOLEAN /\ e.records \in Seq(Record) /\ Len(e.records) \in Nat
         /\ ~e.batch => Len(e.records) = 1 /\ e.records[1] \in Record
<1>1. e.batch \in BOOLEAN /\ e.records \in Seq(Record) /\ (~e.batch => Len(e.records) = 1)
  BY DEF Entry
<1> DEFINE rs == e.records
<1>2. rs \in Seq(Record)
  BY <1>1
<1> HIDE DEF rs
<1>3. Len(rs) \in Nat /\ (Len(rs) = 1 => rs[1] \in Record)
  <2>1. Len(rs) \in Nat
    BY <1>2, LenProperties
  <2>2. Len(rs) = 1 => 1 \in 1 .. Len(rs)
    OBVIOUS
  <2> QED
    BY <1>2, <2>1, <2>2, ElementOfSeq
<1> QED
  BY <1>1, <1>3 DEF rs

(* The length of a frame is a number.                                      *)
LEMMA EntrySizeIs ==
  ASSUME NEW e \in Entry
  PROVE  EntrySize(e) \in Nat
<1> DEFINE rs == e.records
           l == Len(rs)
           sizes == [i \in DOMAIN rs |-> 4 + rs[i].size]
<1>1. rs \in Seq(Record)
  BY EntryIs
<1> HIDE DEF rs
<1>2. l \in Nat /\ DOMAIN rs = 1 .. l /\ \A i \in 1 .. l : rs[i] \in Record
  BY <1>1, LenProperties, ElementOfSeq
<1>3. \A i \in 1 .. l : 4 + rs[i].size \in Nat
  BY <1>2, RecordIs
<1>4. sizes \in Seq(Nat)
  <2>1. sizes = [i \in 1 .. l |-> sizes[i]] /\ \A i \in 1 .. l : sizes[i] \in Nat
    BY <1>2, <1>3
  <2> HIDE DEF sizes
  <2>2. sizes \in [1 .. l -> Nat]
    BY <2>1
  <2> QED
    BY <1>2, <2>2
<1>5. EntrySize(e) = Total(sizes) + (IF e.batch THEN 1 + 2 + 4 + 4 ELSE 0)
  BY DEF EntrySize, rs
<1> HIDE DEF sizes
<1>6. Total(sizes) \in Nat
  BY <1>4, TotalNat
<1> QED
  BY <1>5, <1>6

LEMMA FrameIs ==
  ASSUME NEW c \in Chunk
  PROVE  WholeFrame(c) \in Nat
<1> DEFINE l == Len(c)
           sizes == [i \in DOMAIN c |-> EntrySize(c[i])]
<1>1. l \in Nat /\ DOMAIN c = 1 .. l /\ \A i \in 1 .. l : c[i] \in Entry
  <2>1. c \in Seq(Entry)
    BY DEF Chunk
  <2> QED
    BY <2>1, LenProperties, ElementOfSeq
<1>2. sizes \in Seq(Nat)
  <2>1. sizes = [i \in 1 .. l |-> sizes[i]] /\ \A i \in 1 .. l : sizes[i] \in Nat
    BY <1>1, EntrySizeIs
  <2> HIDE DEF sizes
  <2>2. sizes \in [1 .. l -> Nat]
    BY <2>1
  <2> QED
    BY <1>1, <2>2
<1>3. WholeFrame(c) = 4 + (2 + 2 + 1 + 48 + Total(sizes))
  BY DEF WholeFrame, FrameSize, UInt32Size
<1> HIDE DEF sizes
<1>4. Total(sizes) \in Nat
  BY <1>2, TotalNat
<1> QED
  BY <1>3, <1>4

(* What the broker makes of a request.                                     *)
LEMMA EntriesAre ==
  ASSUME NEW r \in Requests
  PROVE  Entries(r) \in Chunk
<1> DEFINE ms == r.messages
           l == Len(ms)
           records == [i \in DOMAIN ms |-> Stored(ms[i])]
           plain == [i \in DOMAIN records |-> [batch |-> FALSE, records |-> <<records[i]>>]]
           batch == [batch |-> TRUE, records |-> records]
<1>1. ms \in Seq(Message) /\ (r.kind # "batch" => ms # <<>>)
  BY WireAssumption
<1>2. Entries(r) = IF r.kind = "batch" THEN <<batch>> ELSE plain
  BY DEF Entries
<1> HIDE DEF ms
<1>3. l \in Nat /\ DOMAIN ms = 1 .. l /\ \A i \in 1 .. l : ms[i] \in Message
  BY <1>1, LenProperties, ElementOfSeq
<1>4. \A i \in 1 .. l : records[i] \in Record
  BY <1>3 DEF Record
<1>5. records \in Seq(Record) /\ DOMAIN records = 1 .. l
  <2>1. records = [i \in 1 .. l |-> records[i]]
    BY <1>3
  <2> HIDE DEF records
  <2>2. records \in [1 .. l -> Record]
    BY <1>4, <2>1
  <2> QED
    BY <1>3, <2>2
<1> HIDE DEF records
<1>6. CASE r.kind = "batch"
  <2>1. batch \in Entry
    BY <1>5 DEF Entry
  <2> HIDE DEF batch
  <2>2. <<batch>> \in Seq(Entry) /\ <<batch>> # <<>>
    BY <2>1
  <2> QED
    BY <1>2, <1>6, <2>2 DEF Chunk
<1>7. CASE r.kind # "batch"
  <2>1. ASSUME NEW i \in 1 .. l PROVE plain[i] \in Entry
    <3> DEFINE x == records[i]
               e == [batch |-> FALSE, records |-> <<x>>]
    <3>1. x \in Record
      BY <1>4
    <3>2. plain[i] = e
      BY <1>5
    <3> HIDE DEF x
    <3>3. <<x>> \in Seq(Record) /\ Len(<<x>>) = 1
      BY <3>1
    <3>4. e \in Entry
      BY <3>3 DEF Entry
    <3> QED
      BY <3>2, <3>4
  <2>2. plain = [i \in 1 .. l |-> plain[i]]
    BY <1>5
  <2>3. l # 0
    BY <1>1, <1>7, EmptySeq
  <2> HIDE DEF plain
  <2>4. plain \in [1 .. l -> Entry]
    BY <2>1, <2>2
  <2>5. plain \in Seq(Entry) /\ Len(plain) = l
    BY <1>3, <2>4
  <2>6. plain # <<>>
    BY <2>3, <2>5, EmptySeq
  <2> QED
    BY <1>2, <1>7, <2>5, <2>6 DEF Chunk
<1> QED
  BY <1>6, <1>7

(* A chunk of messages that the codec keeps is read as it was sent.        *)
LEMMA PlainIsRead ==
  ASSUME NEW c \in Chunk, ChunkIs(c, FALSE), AllProper(c), NEW first
  PROVE  LET read == decodeDeliverResponse(c, first) IN
           /\ \A i \in DOMAIN read : read[i] # <<>>
           /\ FlattenSeq(read) =
                [k \in DOMAIN Records(c) |->
                   [message |-> AsRead(Records(c)[k].message), offset |-> first + k - 1]]
<1> DEFINE l == Len(c)
           x(i) == c[i].records[1]
           rr == [i \in DOMAIN c |-> c[i].records]
           rs == Records(c)
<1>1. l \in Nat /\ l # 0 /\ DOMAIN c = 1 .. l /\ \A i \in 1 .. l : c[i] \in Entry
  <2>1. c \in Seq(Entry) /\ c # <<>>
    BY DEF Chunk
  <2> QED
    BY <2>1, LenProperties, ElementOfSeq, EmptySeq
<1>2. \A i \in 1 .. l : ~c[i].batch
  <2>1. \A i \in 1 .. l : c[i].batch = FALSE
    BY <1>1 DEF ChunkIs
  <2> QED
    BY <2>1
<1>3. \A i \in 1 .. l : c[i].records \in Seq(Record) /\ Len(c[i].records) = 1 /\ x(i) \in Record
  BY <1>1, <1>2, EntryIs
<1>4. rr \in Seq(Seq(Record)) /\ Len(rr) = l /\ DOMAIN rr = 1 .. l /\ \A i \in DOMAIN rr : Len(rr[i]) = 1 /\ rr[i][1] = x(i)
  <2> DEFINE Q == Seq(Record)
  <2>1. DOMAIN rr = 1 .. l /\ \A i \in 1 .. l : rr[i] = c[i].records
    BY <1>1
  <2>2. rr = [i \in 1 .. l |-> rr[i]]
    BY <1>1
  <2> HIDE DEF rr
  <2>3. \A i \in DOMAIN rr : Len(rr[i]) = 1 /\ rr[i][1] = x(i)
    BY <1>3, <2>1
  <2>4. \A i \in 1 .. l : rr[i] \in Q
    <3> HIDE DEF Q
    <3>1. \A i \in 1 .. l : c[i].records \in Q
      BY <1>3 DEF Q
    <3> QED
      BY <2>1, <3>1
  <2> HIDE DEF Q
  <2>5. rr \in [1 .. l -> Q]
    BY <2>2, <2>4
  <2>6. rr \in Seq(Q) /\ Len(rr) = l
    BY <1>1, <2>5
  <2> QED
    BY <2>1, <2>3, <2>6 DEF Q
<1>5. rs = FlattenSeq(rr)
  BY DEF Records
<1> HIDE DEF x, rr
<1>6. rs \in Seq(Record) /\ Len(rs) = l /\ \A i \in 1 .. l : rs[i] = x(i)
  <2>1. \A i \in DOMAIN rr : Len(rr[i]) = 1
    BY <1>4
  <2>2. FlattenSeq(rr) \in Seq(Record)
    BY <1>4, FlattenType
  <2>3. Len(FlattenSeq(rr)) = Len(rr) /\ \A i \in DOMAIN rr : FlattenSeq(rr)[i] = rr[i][1]
    BY <1>4, <2>1, FlattenSingles
  <2> QED
    BY <1>4, <1>5, <2>2, <2>3
<1> HIDE DEF rs
<1>7. DOMAIN rs = 1 .. l
  BY <1>6, LenProperties
<1>8. \A i \in 1 .. l : Proper(x(i).message)
  BY <1>6, <1>7 DEF AllProper, rs
<1> DEFINE d(i) == [message |-> AsRead(x(i).message), offset |-> first + i - 1]
           D == {d(i) : i \in 1 .. l}
           read == [i \in DOMAIN c |-> IF c[i].batch THEN <<>> ELSE Decoded(c[i].records[1], first + i - 1)]
<1>9. ASSUME NEW i \in 1 .. l PROVE read[i] = <<d(i)>>
  <2> DEFINE r == x(i)
  <2>1. /\ r.message \in Message /\ Proper(r.message)
        /\ r.tokens = encode(r.message) /\ r.size = messageSize(r.message)
    BY <1>3, <1>8, RecordIs
  <2>2. decodeMessage(r.tokens, r.size) = <<AsRead(r.message)>>
    BY <2>1, RoundTrip
  <2>3. Decoded(r, first + i - 1) = <<[message |-> AsRead(r.message), offset |-> first + i - 1]>>
    BY <2>2 DEF Decoded
  <2>4. read[i] = Decoded(r, first + i - 1)
    BY <1>1, <1>2 DEF x
  <2> QED
    BY <2>3, <2>4
<1>10. decodeDeliverResponse(c, first) = read
  <2>1. ~c[1].batch
    BY <1>1, <1>2
  <2> QED
    BY <2>1 DEF decodeDeliverResponse, decodeEntries
<1>11. DOMAIN read = 1 .. l
  BY <1>1
<1> HIDE DEF d, read
<1>12. /\ read \in Seq(Seq(D)) /\ Len(read) = l
       /\ \A i \in DOMAIN read : Len(read[i]) = 1 /\ read[i][1] = d(i) /\ read[i] # <<>>
  <2> DEFINE Q == Seq(D)
  <2>1. \A i \in 1 .. l : d(i) \in D
    OBVIOUS
  <2> HIDE DEF D
  <2>2. ASSUME NEW i \in 1 .. l
        PROVE  Len(read[i]) = 1 /\ read[i][1] = d(i) /\ read[i] # <<>> /\ read[i] \in Seq(D)
    <3>1. PICK y : y = d(i)
      OBVIOUS
    <3>2. read[i] = <<y>> /\ y \in D
      BY <1>9, <2>1, <3>1
    <3>3. Len(<<y>>) = 1 /\ <<y>>[1] = y /\ <<y>> # <<>> /\ <<y>> \in Seq(D)
      BY <3>2
    <3> QED
      BY <3>1, <3>2, <3>3
  <2>3. \A i \in 1 .. l : read[i] \in Q
    BY <2>2
  <2>4. read = [i \in 1 .. l |-> read[i]]
    BY <1>1 DEF read
  <2> HIDE DEF Q
  <2>5. read \in [1 .. l -> Q]
    BY <2>3, <2>4
  <2>6. read \in Seq(Q) /\ Len(read) = l
    BY <1>1, <2>5
  <2>7. \A i \in DOMAIN read : Len(read[i]) = 1 /\ read[i][1] = d(i) /\ read[i] # <<>>
    BY <1>11, <2>2
  <2> QED
    BY <2>6, <2>7 DEF Q
<1> HIDE DEF D
<1> DEFINE fl == FlattenSeq(read)
<1>13. fl \in Seq(D) /\ Len(fl) = l /\ \A i \in 1 .. l : fl[i] = d(i)
  <2>1. \A i \in DOMAIN read : Len(read[i]) = 1
    BY <1>12
  <2>2. FlattenSeq(read) \in Seq(D)
    BY <1>12, FlattenType
  <2>3. Len(FlattenSeq(read)) = Len(read) /\ \A i \in DOMAIN read : FlattenSeq(read)[i] = read[i][1]
    BY <1>12, <2>1, FlattenSingles
  <2> QED
    BY <1>11, <1>12, <2>2, <2>3
<1> HIDE DEF fl
<1> DEFINE e == [k \in DOMAIN rs |-> [message |-> AsRead(rs[k].message), offset |-> first + k - 1]]
<1>14. fl = e
  <2>1. fl = [k \in 1 .. l |-> fl[k]]
    BY <1>13
  <2>2. \A k \in 1 .. l : fl[k] = [message |-> AsRead(rs[k].message), offset |-> first + k - 1]
    BY <1>6, <1>13 DEF d
  <2> QED
    BY <1>7, <2>1, <2>2
<1> HIDE DEF e
<1>15. \A i \in DOMAIN read : read[i] # <<>>
  BY <1>12
<1> QED
  BY <1>10, <1>14, <1>15 DEF e, fl, rs

(* A reader never gets ahead of the broker, and a chunk that was delivered *)
(* is not written to again.                                                *)
RequestIs == request = <<>> \/ \E r \in Requests : request = <<r>>
Listed(s) == Len(s) \in Nat /\ DOMAIN s = 1 .. Len(s) /\ \E X : s \in Seq(X)
StreamIs ==
  /\ chunks \in Seq(Chunk) /\ delivered \in Nat /\ delivered <= Len(chunks)
  /\ Listed(decoded) /\ Len(decoded) <= delivered
  /\ rest \in Int /\ arrived \in Int
WireInv == RequestIs /\ StreamIs /\ AllRead /\ ReadAsSent

LEMMA ListedAppend ==
  ASSUME NEW s, Listed(s), NEW x
  PROVE  /\ Listed(Append(s, x)) /\ Len(Append(s, x)) = Len(s) + 1
         /\ \A i \in 1 .. Len(s) : Append(s, x)[i] = s[i]
         /\ Append(s, x)[Len(s) + 1] = x
<1>1. PICK X : s \in Seq(X)
  BY DEF Listed
<1> DEFINE Y == X \cup {x}
<1>2. s \in Seq(Y) /\ x \in Y
  BY <1>1
<1> HIDE DEF Y
<1> DEFINE t == Append(s, x)
<1>3. /\ t \in Seq(Y) /\ Len(t) = Len(s) + 1
      /\ \A i \in 1 .. Len(s) : t[i] = s[i]
      /\ t[Len(s) + 1] = x
  BY <1>2, AppendProperties
<1> HIDE DEF t
<1>4. Listed(t)
  BY <1>3, LenProperties DEF Listed
<1> QED
  BY <1>3, <1>4 DEF t

(* What stands before a delivered chunk stays.                             *)
RecordsOf(c) == Total([k \in DOMAIN c |-> Len(c[k].records)])
Before(cs, i) == Total([k \in 1 .. i - 1 |-> RecordsOf(cs[k])])

LEMMA FirstOffsetIs == \A i : FirstOffset(i) = Before(chunks, i)
  BY DEF FirstOffset, RecordsOf, Before

LEMMA BeforeStays ==
  ASSUME NEW cs, NEW ds, NEW n \in Nat, \A i \in 1 .. n : ds[i] = cs[i]
  PROVE  \A i \in 1 .. n + 1 : Before(ds, i) = Before(cs, i)
<1> TAKE i \in 1 .. n + 1
<1>1. [k \in 1 .. i - 1 |-> RecordsOf(ds[k])] = [k \in 1 .. i - 1 |-> RecordsOf(cs[k])]
  OBVIOUS
<1> QED
  BY <1>1 DEF Before

(* What a chunk of the stream is to be read as, and what a reader has read *)
(* and the sizes of it.                                                    *)
Due(cs, i) ==
  [k \in DOMAIN Records(cs[i]) |->
     [message |-> AsRead(Records(cs[i])[k].message), offset |-> Before(cs, i) + k - 1]]
ReadWell(cs, ds) ==
  \A i \in DOMAIN ds : ChunkIs(cs[i], FALSE) /\ AllProper(cs[i]) => ds[i] = Due(cs, i)
FrameSizes(cs, ds) == [i \in DOMAIN ds |-> WholeFrame(cs[i])]

LEMMA ReadWellIs == ReadAsSent <=> ReadWell(chunks, decoded)
<1>1. \A i : Expected(i) = Due(chunks, i)
  BY FirstOffsetIs DEF Expected, Due
<1> QED
  BY <1>1 DEF ReadAsSent, ReadWell

LEMMA AllReadIs == AllRead <=> Total(FrameSizes(chunks, decoded)) + rest = arrived
  BY DEF AllRead, FrameSizes

LEMMA Stay ==
  ASSUME NEW cs, NEW ds, NEW r, Listed(r), NEW n \in Nat, Len(r) <= n,
         \A i \in 1 .. n : ds[i] = cs[i]
  PROVE  /\ FrameSizes(ds, r) = FrameSizes(cs, r)
         /\ ReadWell(cs, r) => ReadWell(ds, r)
<1>1. DOMAIN r = 1 .. Len(r) /\ Len(r) \in Nat
  BY DEF Listed
<1>2. \A i \in DOMAIN r : ds[i] = cs[i] /\ Before(ds, i) = Before(cs, i)
  <2>1. \A i \in 1 .. n + 1 : Before(ds, i) = Before(cs, i)
    BY BeforeStays
  <2> QED
    BY <1>1, <2>1
<1>3. FrameSizes(ds, r) = FrameSizes(cs, r)
  BY <1>2 DEF FrameSizes
<1>4. \A i \in DOMAIN r : Due(ds, i) = Due(cs, i)
  BY <1>2 DEF Due
<1>5. ReadWell(cs, r) => ReadWell(ds, r)
  BY <1>2, <1>4 DEF ReadWell
<1> QED
  BY <1>3, <1>5

(* The stream only grows behind what was delivered.                        *)
LEMMA StoresKeep ==
  ASSUME WireInv, BrokerStores
  PROVE  /\ chunks' \in Seq(Chunk) /\ Len(chunks') >= Len(chunks) /\ Len(chunks') \in Nat
         /\ \A i \in 1 .. delivered : chunks'[i] = chunks[i]
<1> DEFINE l == Len(chunks)
<1>1. chunks \in Seq(Chunk) /\ delivered \in Nat /\ delivered <= l /\ l \in Nat
  BY LenProperties DEF WireInv, StreamIs
<1>2. PICK r \in Requests : request = <<r>>
  BY DEF WireInv, RequestIs, BrokerStores, Finished
<1> DEFINE e == Entries(r)
<1>3. e \in Chunk /\ request[1] = r
  BY <1>2, EntriesAre
<1>4. \/ chunks' = Append(chunks, e)
      \/ /\ delivered < l
         /\ chunks' = [chunks EXCEPT ![l] = @ \o e]
  BY <1>3 DEF BrokerStores
<1> HIDE DEF e
<1>5. CASE chunks' = Append(chunks, e)
  BY <1>1, <1>3, <1>5, AppendProperties
<1>6. CASE delivered < l /\ chunks' = [chunks EXCEPT ![l] = @ \o e]
  <2> DEFINE c == chunks[l]
             d == c \o e
  <2>1. l \in 1 .. l
    BY <1>1, <1>6
  <2>2. c \in Chunk
    BY <1>1, <2>1, ElementOfSeq
  <2> HIDE DEF c
  <2>3. d \in Chunk
    <3>1. c \in Seq(Entry) /\ e \in Seq(Entry) /\ e # <<>>
      BY <1>3, <2>2 DEF Chunk
    <3>2. d \in Seq(Entry) /\ Len(d) = Len(c) + Len(e)
      BY <3>1, ConcatProperties
    <3>3. Len(c) \in Nat /\ Len(e) \in Nat /\ Len(e) # 0
      BY <3>1, EmptySeq, LenProperties
    <3>4. Len(d) # 0
      BY <3>2, <3>3
    <3> HIDE DEF d
    <3>5. d # <<>>
      BY <3>2, <3>4, EmptySeq
    <3> QED
      BY <3>2, <3>5 DEF Chunk
  <2>4. chunks' = [chunks EXCEPT ![l] = d]
    BY <1>6 DEF c
  <2> HIDE DEF d
  <2>5. /\ chunks' \in Seq(Chunk) /\ Len(chunks') = l
        /\ \A j \in 1 .. l : chunks'[j] = IF j = l THEN d ELSE chunks[j]
    BY <1>1, <2>1, <2>3, <2>4, ExceptSeq
  <2>6. delivered < l
    BY <1>6
  <2>7. \A j \in 1 .. delivered : j \in 1 .. l /\ j # l
    BY <1>1, <2>6
  <2>8. \A j \in 1 .. delivered : chunks'[j] = chunks[j]
    BY <2>5, <2>7
  <2>9. Len(chunks') >= Len(chunks) /\ Len(chunks') \in Nat
    BY <1>1, <2>5
  <2> QED
    BY <2>5, <2>8, <2>9
<1> QED
  BY <1>4, <1>5, <1>6

(* A frame of the next delivered chunk is taken from the bytes.            *)
LEMMA FrameRead ==
  ASSUME WireInv, DecodeFrame
  PROVE  StreamIs' /\ AllRead' /\ ReadAsSent'
<1> DEFINE n == Len(decoded)
           next == chunks[n + 1]
           read == decodeDeliverResponse(next, FirstOffset(n + 1))
           x == IF crashed' THEN <<>> ELSE FlattenSeq(read)
<1>1. /\ chunks \in Seq(Chunk) /\ delivered \in Nat /\ delivered <= Len(chunks)
      /\ Listed(decoded) /\ n \in Nat /\ n <= delivered /\ DOMAIN decoded = 1 .. n
      /\ rest \in Int /\ arrived \in Int /\ Len(chunks) \in Nat
  BY LenProperties DEF WireInv, StreamIs, Listed
<1>2. n + 1 <= delivered /\ Unread[1] = next
  <2>1. \A i \in n + 1 .. delivered : chunks[i] \in Chunk
    BY <1>1, ElementOfSeq
  <2>2. SubSeq(chunks, n + 1, delivered) # <<>>
    BY DEF DecodeFrame, Complete, Unread
  <2>3. n + 1 <= delivered
    BY <1>1, <2>2, SubSeqEmpty
  <2>4. \A i \in 1 .. delivered - (n + 1) + 1 : SubSeq(chunks, n + 1, delivered)[i] = chunks[n + 1 + i - 1]
    BY <1>1, <2>1, SubSeqProperties
  <2>5. 1 \in 1 .. delivered - (n + 1) + 1 /\ n + 1 + 1 - 1 = n + 1
    BY <1>1, <2>3
  <2> QED
    BY <2>3, <2>4, <2>5 DEF Unread
<1>3. next \in Chunk /\ WholeFrame(next) \in Nat
  <2>1. n + 1 \in 1 .. Len(chunks)
    BY <1>1, <1>2
  <2>2. next \in Chunk
    BY <1>1, <2>1, ElementOfSeq
  <2> QED
    BY <2>2, FrameIs
<1>4. /\ rest' = rest - WholeFrame(next) /\ arrived' = arrived
      /\ chunks' = chunks /\ delivered' = delivered
      /\ crashed' = \E i \in DOMAIN read : read[i] = <<>>
      /\ decoded' = Append(decoded, x)
  BY <1>2 DEF DecodeFrame, Handled, stream
<1> HIDE DEF next, x
<1>5. /\ Listed(decoded') /\ Len(decoded') = n + 1
      /\ \A i \in 1 .. n : decoded'[i] = decoded[i]
      /\ decoded'[n + 1] = x
  BY <1>1, <1>4, ListedAppend
<1>6. DOMAIN decoded' = 1 .. n + 1
  BY <1>5 DEF Listed
<1>7. StreamIs'
  BY <1>1, <1>2, <1>3, <1>4, <1>5 DEF StreamIs
<1>8. AllRead'
  <2> DEFINE s == FrameSizes(chunks, decoded)
             t == FrameSizes(chunks, decoded')
             w == WholeFrame(next)
  <2>1. DOMAIN s = 1 .. n /\ \A i \in 1 .. n : s[i] = WholeFrame(chunks[i])
    BY <1>1 DEF FrameSizes
  <2>2. DOMAIN t = 1 .. n + 1 /\ \A i \in 1 .. n + 1 : t[i] = WholeFrame(chunks[i])
    BY <1>6 DEF FrameSizes
  <2>3. s = [i \in 1 .. n |-> s[i]] /\ t = [i \in 1 .. n + 1 |-> t[i]]
    BY <1>1, <1>6 DEF FrameSizes
  <2>4. \A i \in 1 .. n + 1 : WholeFrame(chunks[i]) \in Nat
    <3>1. \A i \in 1 .. n + 1 : chunks[i] \in Chunk
      BY <1>1, <1>2, ElementOfSeq
    <3> QED
      BY <3>1, FrameIs
  <2>5. s \in Seq(Int) /\ Len(s) = n
    <3> HIDE DEF s
    <3>1. s \in [1 .. n -> Int]
      BY <1>1, <2>1, <2>3, <2>4
    <3> QED
      BY <1>1, <3>1
  <2>6. t \in Seq(Int) /\ Len(t) = n + 1
    <3> HIDE DEF t
    <3>1. t \in [1 .. n + 1 -> Int]
      BY <2>2, <2>3, <2>4
    <3> QED
      BY <1>1, <3>1
  <2>7. w \in Int /\ t[n + 1] = w
    BY <1>1, <1>3, <2>2 DEF next
  <2> HIDE DEF s, t, w
  <2>8. Append(s, w) \in Seq(Int) /\ Len(Append(s, w)) = n + 1
        /\ (\A i \in 1 .. n : Append(s, w)[i] = s[i]) /\ Append(s, w)[n + 1] = w
    BY <2>5, <2>7, AppendProperties
  <2>9. t = Append(s, w)
    <3>1. \A i \in 1 .. n + 1 : t[i] = Append(s, w)[i]
      BY <1>1, <2>1, <2>2, <2>7, <2>8
    <3> QED
      BY <2>6, <2>8, <3>1, SeqEqual
  <2>10. t = s \o <<w>>
    BY <2>5, <2>7, <2>9, AppendIsConcat
  <2>11. <<w>> \in Seq(Int)
    BY <2>7
  <2>12. Total(t) = Total(s) + w
    BY <2>5, <2>7, <2>10, <2>11, TotalConcat, TotalOfOne
  <2>13. Total(s) \in Int
    BY <2>5, TotalType
  <2>14. Total(s) + rest = arrived
    BY AllReadIs DEF WireInv, s
  <2>15. Total(t) + rest' = arrived'
    BY <1>1, <1>4, <2>7, <2>12, <2>13, <2>14 DEF w
  <2>16. AllRead' <=> Total(FrameSizes(chunks', decoded')) + rest' = arrived'
    BY DEF AllRead, FrameSizes
  <2> QED
    BY <1>4, <2>15, <2>16 DEF t
<1>9. ReadAsSent'
  <2>1. ReadWell(chunks, decoded)
    BY ReadWellIs DEF WireInv
  <2>2. ASSUME NEW i \in 1 .. n, ChunkIs(chunks[i], FALSE), AllProper(chunks[i])
        PROVE  decoded'[i] = Due(chunks, i)
    BY <1>1, <1>5, <2>1, <2>2 DEF ReadWell
  <2>3. ASSUME ChunkIs(next, FALSE), AllProper(next)
        PROVE  x = Due(chunks, n + 1)
    <3>1. /\ \A i \in DOMAIN read : read[i] # <<>>
          /\ FlattenSeq(read) =
               [k \in DOMAIN Records(next) |->
                  [message |-> AsRead(Records(next)[k].message), offset |-> FirstOffset(n + 1) + k - 1]]
      BY <1>3, <2>3, PlainIsRead
    <3>2. x = FlattenSeq(read)
      BY <1>4, <3>1 DEF x
    <3>3. FirstOffset(n + 1) = Before(chunks, n + 1)
      BY FirstOffsetIs
    <3> QED
      BY <3>1, <3>2, <3>3 DEF Due, next
  <2>4. ReadWell(chunks, decoded')
    <3> SUFFICES ASSUME NEW i \in 1 .. n + 1, ChunkIs(chunks[i], FALSE), AllProper(chunks[i])
                 PROVE  decoded'[i] = Due(chunks, i)
      BY <1>6 DEF ReadWell
    <3>1. CASE i \in 1 .. n
      BY <2>2, <3>1
    <3>2. CASE i = n + 1
      BY <1>5, <2>3, <3>2 DEF next
    <3> QED
      BY <1>1, <3>1, <3>2
  <2>5. \A i : Expected(i)' = Due(chunks', i)
    BY DEF Expected, Due, FirstOffset, Before, RecordsOf
  <2>6. ReadAsSent' <=> ReadWell(chunks', decoded')
    BY <2>5 DEF ReadAsSent, ReadWell
  <2> QED
    BY <1>4, <2>4, <2>6
<1> QED
  BY <1>7, <1>8, <1>9

LEMMA InitWire == WireInit => WireInv
<1> SUFFICES ASSUME WireInit PROVE WireInv
  OBVIOUS
<1>1. /\ request = <<>> /\ chunks = <<>> /\ delivered = 0
      /\ rest = 0 /\ arrived = 0 /\ decoded = <<>>
  BY DEF WireInit
<1>2. Len(<<>>) = 0 /\ <<>> \in Seq(Chunk) /\ DOMAIN <<>> = 1 .. 0
  OBVIOUS
<1>3. Listed(<<>>)
  BY <1>2 DEF Listed
<1>4. StreamIs
  BY <1>1, <1>2, <1>3 DEF StreamIs
<1>5. RequestIs
  BY <1>1 DEF RequestIs
<1>6. AllRead
  <2>1. FrameSizes(chunks, decoded) = <<>>
    BY <1>1 DEF FrameSizes
  <2> QED
    BY <1>1, <2>1, AllReadIs, TotalOfNone
<1>7. ReadAsSent
  BY <1>1, <1>2 DEF ReadAsSent
<1> QED
  BY <1>4, <1>5, <1>6, <1>7 DEF WireInv

LEMMA StepWire == WireInv /\ [WireNext]_wire => WireInv'
<1> SUFFICES ASSUME WireInv, [WireNext]_wire PROVE WireInv'
  OBVIOUS
<1>1. /\ RequestIs /\ StreamIs /\ AllRead /\ ReadAsSent
      /\ chunks \in Seq(Chunk) /\ delivered \in Nat /\ delivered <= Len(chunks) /\ Len(chunks) \in Nat
      /\ Listed(decoded) /\ Len(decoded) <= delivered /\ rest \in Int /\ arrived \in Int /\ Len(decoded) \in Nat
  BY LenProperties DEF WireInv, StreamIs, Listed
<1> DEFINE SameReader == rest' = rest /\ arrived' = arrived /\ decoded' = decoded
           SameStream == chunks' = chunks /\ delivered' = delivered
<1>2. ASSUME SameReader, \A i \in 1 .. delivered : chunks'[i] = chunks[i]
      PROVE  AllRead' /\ ReadAsSent'
  <2>1. /\ FrameSizes(chunks', decoded) = FrameSizes(chunks, decoded)
        /\ ReadWell(chunks, decoded) => ReadWell(chunks', decoded)
    BY <1>1, <1>2, Stay
  <2>2. AllRead' <=> Total(FrameSizes(chunks', decoded')) + rest' = arrived'
    BY DEF AllRead, FrameSizes
  <2>3. AllRead'
    BY <1>1, <1>2, <2>1, <2>2, AllReadIs
  <2>4. \A i : Expected(i)' = Due(chunks', i)
    BY DEF Expected, Due, FirstOffset, Before, RecordsOf
  <2>5. ReadAsSent' <=> ReadWell(chunks', decoded')
    BY <2>4 DEF ReadAsSent, ReadWell
  <2>6. ReadWell(chunks', decoded')
    BY <1>1, <1>2, <2>1, ReadWellIs
  <2> QED
    BY <2>3, <2>5, <2>6
<1>3. ASSUME SameReader, SameStream
      PROVE  StreamIs' /\ AllRead' /\ ReadAsSent'
  <2>1. AllRead' /\ ReadAsSent'
    BY <1>2, <1>3
  <2>2. StreamIs'
    BY <1>1, <1>3 DEF StreamIs
  <2> QED
    BY <2>1, <2>2
<1>4. ASSUME request' = request PROVE RequestIs'
  BY <1>1, <1>4 DEF RequestIs
<1>5. ASSUME request' = <<>> PROVE RequestIs'
  BY <1>5 DEF RequestIs
<1>6. ASSUME NEW r \in Requests, Publish(r) PROVE WireInv'
  <2>1. SameReader /\ SameStream /\ request' = <<r>>
    BY <1>6 DEF Publish, stream, reader
  <2>2. RequestIs'
    BY <2>1 DEF RequestIs
  <2> QED
    BY <1>3, <2>1, <2>2 DEF WireInv
<1>7. CASE Write
  <2>1. SameReader /\ SameStream /\ request' = request
    BY <1>7 DEF Write, stream, reader
  <2> QED
    BY <1>3, <1>4, <2>1 DEF WireInv
<1>8. CASE RequestFails
  <2>1. SameReader /\ SameStream /\ request' = <<>>
    BY <1>8 DEF RequestFails, stream, reader
  <2> QED
    BY <1>3, <1>5, <2>1 DEF WireInv
<1>9. CASE BrokerStores
  <2>1. SameReader /\ delivered' = delivered /\ request' = <<>>
    BY <1>9 DEF BrokerStores, reader
  <2>2. /\ chunks' \in Seq(Chunk) /\ Len(chunks') >= Len(chunks) /\ Len(chunks') \in Nat
        /\ \A i \in 1 .. delivered : chunks'[i] = chunks[i]
    BY <1>9, StoresKeep
  <2>3. StreamIs'
    BY <1>1, <2>1, <2>2 DEF StreamIs
  <2> QED
    BY <1>2, <1>5, <2>1, <2>2, <2>3 DEF WireInv
<1>10. CASE BrokerRefuses
  <2>1. SameReader /\ SameStream /\ request' = <<>>
    BY <1>10 DEF BrokerRefuses, stream, reader
  <2> QED
    BY <1>3, <1>5, <2>1 DEF WireInv
<1>11. CASE BrokerDelivers
  <2>1. SameReader /\ chunks' = chunks /\ delivered' = delivered + 1 /\ delivered < Len(chunks)
        /\ request' = request
    BY <1>11 DEF BrokerDelivers, reader
  <2>2. StreamIs'
    BY <1>1, <2>1 DEF StreamIs
  <2> QED
    BY <1>2, <1>4, <2>1, <2>2 DEF WireInv
<1>12. CASE Data
  <2>1. PICK n \in Int : rest' = rest + n /\ arrived' = arrived + n
    BY <1>12 DEF Data
  <2>2. SameStream /\ decoded' = decoded /\ request' = request
    BY <1>12 DEF Data, stream
  <2>3. StreamIs'
    BY <1>1, <2>1, <2>2 DEF StreamIs
  <2>4. AllRead'
    <3>1. AllRead' <=> Total(FrameSizes(chunks', decoded')) + rest' = arrived'
      BY DEF AllRead, FrameSizes
    <3> DEFINE t == Total(FrameSizes(chunks, decoded))
    <3>2. t + rest = arrived
      BY <1>1, AllReadIs
    <3>3. t \in Int
      <4> DEFINE s == FrameSizes(chunks, decoded)
                 n1 == Len(decoded)
      <4>1. s = [i \in 1 .. n1 |-> WholeFrame(chunks[i])]
        BY <1>1 DEF FrameSizes, Listed
      <4>2. \A i \in 1 .. n1 : WholeFrame(chunks[i]) \in Int
        <5>1. \A i \in 1 .. n1 : chunks[i] \in Chunk
          BY <1>1, ElementOfSeq
        <5> QED
          BY <5>1, FrameIs
      <4> HIDE DEF s
      <4>3. s \in [1 .. n1 -> Int]
        BY <4>1, <4>2
      <4>4. s \in Seq(Int)
        BY <1>1, <4>3
      <4> QED
        BY <4>4, TotalType DEF s
    <3> HIDE DEF t
    <3>4. t + rest' = arrived'
      BY <1>1, <2>1, <3>2, <3>3
    <3> QED
      BY <2>2, <3>1, <3>4 DEF t
  <2>5. ReadAsSent'
    <3>1. \A i : Expected(i)' = Due(chunks', i)
      BY DEF Expected, Due, FirstOffset, Before, RecordsOf
    <3>2. ReadAsSent' <=> ReadWell(chunks', decoded')
      BY <3>1 DEF ReadAsSent, ReadWell
    <3> QED
      BY <1>1, <2>2, <3>2, ReadWellIs
  <2> QED
    BY <1>4, <2>2, <2>3, <2>4, <2>5 DEF WireInv
<1>13. CASE DecodeFrame
  <2>1. request' = request
    BY <1>13 DEF DecodeFrame
  <2>2. StreamIs' /\ AllRead' /\ ReadAsSent'
    BY <1>13, FrameRead
  <2> QED
    BY <1>4, <2>1, <2>2 DEF WireInv
<1>14. CASE UNCHANGED wire
  <2>1. SameReader /\ SameStream /\ request' = request
    BY <1>14 DEF wire, stream, reader
  <2> QED
    BY <1>3, <1>4, <2>1 DEF WireInv
<1> QED
  BY <1>6, <1>7, <1>8, <1>9, <1>10, <1>11, <1>12, <1>13, <1>14 DEF WireNext

LEMMA WireHolds == WireSpec => []WireInv
  BY InitWire, StepWire, PTL DEF WireSpec

(* However the bytes of the frames were cut by 'data' events, the loop of  *)
(* ResponseDecoder.add has taken whole frames only, and lastData holds     *)
(* exactly the bytes behind them.                                          *)
THEOREM FramesWhole == WireSpec => []AllRead
<1>1. WireInv => AllRead
  BY DEF WireInv
<1> QED
  BY <1>1, WireHolds, PTL

(* A chunk of messages that the codec keeps is handed to its consumer as   *)
(* it was published, every message in its order and with its own offset:   *)
(* what encodes and what decodes messages are inverses of each other.      *)
THEOREM SentIsRead == WireSpec => []ReadAsSent
<1>1. WireInv => ReadAsSent
  BY DEF WireInv
<1> QED
  BY <1>1, WireHolds, PTL

-----------------------------------------------------------------------------
(* What a request is written as, whatever the messages: numbers and texts  *)
(* of so many bytes each.                                                  *)

LEMMA AnyBuffer ==
  ASSUME NEW v, v = Absent \/ v \in Given("buffer")
  PROVE  amqpWriteBuffer(v) \in Tokens
<1>1. CASE v.n = 0
  BY <1>1, NullIs DEF amqpWriteBuffer
<1>2. CASE v.n # 0
  <2>1. v \in Given("buffer") /\ v.n \in Nat
    BY <1>2, AbsentIs, GivenIs
  <2>2. PICK short : short = "Vbin8"
    OBVIOUS
  <2>3. PICK long : long = "Vbin32"
    OBVIOUS
  <2>4. short \in Codes /\ long \in Codes
    BY <2>2, <2>3, CodesAre
  <2> DEFINE n == v.n
  <2>5. n \in Nat
    BY <2>1
  <2>6. amqpWriteBuffer(v) = Sized(short, long, n)
    BY <1>2, <2>2, <2>3 DEF amqpWriteBuffer
  <2> HIDE DEF n
  <2>7. Sized(short, long, n) \in Tokens
    BY <2>4, <2>5, SizedIs
  <2> QED
    BY <2>6, <2>7
<1> QED
  BY <1>1, <1>2

LEMMA AnyField ==
  ASSUME NEW p \in MessageProperties, NEW f \in ToSet(Fields)
  PROVE  writeField(f, p[f]) \in Tokens
<1> DEFINE v == p[f]
<1>1. v \in FieldValues(f)
  BY DEF MessageProperties
<1> HIDE DEF v
<1>2. CASE f = "userId"
  <2>1. v = Absent \/ v \in Given("buffer")
    BY <1>1, <1>2 DEF FieldValues
  <2>2. amqpWriteBuffer(v) \in Tokens
    BY <2>1, AnyBuffer
  <2> QED
    BY <1>2, <2>2 DEF writeField, v
<1>3. CASE f \in {"contentType", "contentEncoding"}
  <2>1. v = Absent \/ v \in Given("string")
    BY <1>1, <1>3 DEF FieldValues
  <2>2. amqpWriteSymbol(v) \in Tokens
    BY <2>1, SymbolIs
  <2> QED
    BY <1>3, <2>2 DEF writeField, v
<1>4. CASE f \in {"absoluteExpiryTime", "creationTime"}
  <2>1. v = Absent \/ v \in Given("date")
    BY <1>1, <1>4 DEF FieldValues
  <2>2. amqpWriteDate(v) \in Tokens
    BY <2>1, DateIs
  <2> QED
    BY <1>4, <2>2 DEF writeField, v
<1>5. CASE f = "groupSequence"
  <2>1. v = Absent \/ v \in Given("number")
    BY <1>1, <1>5 DEF FieldValues
  <2>2. amqpWriteNumber(v) \in Tokens
    BY <2>1, NumberIs
  <2> QED
    BY <1>5, <2>2 DEF writeField, v
<1>6. CASE f \notin {"userId", "contentType", "contentEncoding", "absoluteExpiryTime", "creationTime",
                     "groupSequence"}
  <2>1. v = Absent \/ v \in Given("string")
    BY <1>1, <1>6 DEF FieldValues
  <2>2. amqpWriteString(v) \in Tokens
    BY <2>1, StringIs
  <2> QED
    BY <1>6, <2>2 DEF writeField, v
<1> QED
  BY <1>2, <1>3, <1>4, <1>5, <1>6

LEMMA AnyValue ==
  ASSUME NEW v \in Given("string") \cup Given("number") \cup Given("byte")
  PROVE  amqpWriteValue(v) \in Tokens
<1>1. CASE v \in Given("string")
  <2>1. v.kind = "string"
    BY <1>1, GivenIs
  <2>2. amqpWriteValue(v) = amqpWriteString(v)
    BY <2>1 DEF amqpWriteValue
  <2> QED
    BY <1>1, <2>2, StringIs
<1>2. CASE v \in Given("number")
  BY <1>2, IntIs
<1>3. CASE v \in Given("byte")
  BY <1>3, ByteIs
<1> QED
  BY <1>1, <1>2, <1>3

(* A sequence of as many elements of S as there are numbers up to l.       *)
LEMMA ListIs ==
  ASSUME NEW S, NEW l \in Nat, NEW f, f = [i \in 1 .. l |-> f[i]], \A i \in 1 .. l : f[i] \in S
  PROVE  f \in Seq(S) /\ Len(f) = l
<1>1. f \in [1 .. l -> S]
  OBVIOUS
<1> QED
  BY <1>1

LEMMA AnyMap ==
  ASSUME NEW type \in {"Annotations", "Application"}, NEW P, NEW pairs \in Seq(P),
         \A p \in P : /\ p.key \in Given("string")
                      /\ p.value \in Given("string") \cup Given("number") \cup Given("byte")
  PROVE  writeMap(type, pairs) \in Seq(Tokens)
<1> DEFINE l == Len(pairs)
           k(i) == amqpWriteString(pairs[i].key)
           v(i) == amqpWriteValue(pairs[i].value)
           ss == [i \in DOMAIN pairs |-> IF Falsy(pairs[i].key) THEN <<>> ELSE <<k(i), v(i)>>]
           Q == Seq(Tokens)
<1>1. l \in Nat /\ DOMAIN pairs = 1 .. l /\ \A i \in 1 .. l : pairs[i] \in P
  BY LenProperties, ElementOfSeq
<1>2. ASSUME NEW i \in 1 .. l PROVE ss[i] \in Q
  <2>1. k(i) \in Tokens /\ v(i) \in Tokens
    BY <1>1, StringIs, AnyValue
  <2> HIDE DEF k, v
  <2>2. <<k(i), v(i)>> \in Seq(Tokens) /\ <<>> \in Seq(Tokens)
    BY <2>1
  <2> QED
    BY <1>1, <2>2
<1>3. ss = [i \in 1 .. l |-> ss[i]]
  BY <1>1
<1>4. writePairs(pairs) = FlattenSeq(ss)
  BY DEF writePairs
<1> HIDE DEF ss, Q, l
<1>5. ss \in Seq(Q)
  BY <1>1, <1>2, <1>3, ListIs
<1>6. FlattenSeq(ss) \in Seq(Tokens)
  BY <1>5, FlattenType DEF Q
<1>7. CASE pairs = <<>>
  BY <1>7, BytesOfNone DEF writeMap
<1>8. CASE pairs # <<>>
  <2>1. PICK code : code = "Map32"
    OBVIOUS
  <2>2. PICK n : n = 2 * Len(pairs)
    OBVIOUS
  <2>3. code \in Codes /\ n \in Int /\ type \in Types
    BY <1>1, <2>1, <2>2, CodesAre DEF Types, l
  <2> DEFINE s == Section(type, code, n, <<4, 4>>)
  <2>4. s \in Seq(Tokens)
    BY <2>3, SectionIs
  <2>5. writeMap(type, pairs) = s \o FlattenSeq(ss)
    BY <1>4, <1>8, <2>1, <2>2 DEF writeMap
  <2> HIDE DEF s
  <2> QED
    BY <1>6, <2>4, <2>5
<1> QED
  BY <1>7, <1>8

LEMMA AnyProperties ==
  ASSUME NEW ps \in Seq(MessageProperties), Len(ps) <= 1
  PROVE  writeProperties(ps) \in Seq(Tokens)
<1>1. CASE ps = <<>>
  BY <1>1, BytesOfNone DEF writeProperties
<1>2. CASE ps # <<>>
  <2> DEFINE p == ps[1]
             b == [i \in DOMAIN Fields |-> writeField(Fields[i], p[Fields[i]])]
  <2>1. p \in MessageProperties
    BY <1>2, EmptySeq, LenProperties, ElementOfSeq
  <2>2. PICK type : type = "Properties"
    OBVIOUS
  <2>3. PICK code : code = "List32"
    OBVIOUS
  <2>4. PICK l : l = 13
    OBVIOUS
  <2>5. type \in Types /\ code \in Codes /\ l \in Int /\ l \in Nat
    BY <2>2, <2>3, <2>4, CodesAre DEF Types
  <2> DEFINE s == Section(type, code, l, <<4, 4>>)
  <2>6. s \in Seq(Tokens)
    BY <2>5, SectionIs
  <2>7. writeProperties(ps) = s \o b
    BY <1>2, <2>2, <2>3, <2>4, FieldsAre DEF writeProperties
  <2> HIDE DEF s, p
  <2>8. \A i \in 1 .. l : Fields[i] \in ToSet(Fields) /\ b[i] = writeField(Fields[i], p[Fields[i]])
    BY <2>4, FieldsAre
  <2>9. \A i \in 1 .. l : b[i] \in Tokens
    BY <2>1, <2>8, AnyField
  <2>10. b = [i \in 1 .. l |-> b[i]]
    BY <2>4, FieldsAre
  <2> HIDE DEF b
  <2>11. b \in Seq(Tokens)
    BY <2>5, <2>9, <2>10, ListIs
  <2> QED
    BY <2>6, <2>7, <2>11
<1> QED
  BY <1>1, <1>2

LEMMA AnyEncoded ==
  ASSUME NEW m \in Message
  PROVE  encode(m) \in Seq(Tokens) /\ Bytes(encode(m)) \in Nat
<1>1. /\ m.content \in Nat /\ m.properties \in Seq(MessageProperties) /\ Len(m.properties) <= 1
      /\ m.application \in Seq(ApplicationProperty) /\ m.annotations \in Seq(MessageAnnotation)
  BY DEF Message
<1> DEFINE a == writeMap("Annotations", m.annotations)
           b == writeProperties(m.properties)
           c == writeMap("Application", m.application)
           d == writeContent(m.content)
<1>2. a \in Seq(Tokens)
  <2>1. \A p \in MessageAnnotation :
          /\ p.key \in Given("string")
          /\ p.value \in Given("string") \cup Given("number") \cup Given("byte")
    BY DEF MessageAnnotation
  <2>2. PICK type : type = "Annotations"
    OBVIOUS
  <2>3. type \in {"Annotations", "Application"}
    BY <2>2
  <2>4. writeMap(type, m.annotations) \in Seq(Tokens)
    BY <1>1, <2>1, <2>3, AnyMap
  <2> QED
    BY <2>2, <2>4
<1>3. c \in Seq(Tokens)
  <2>1. \A p \in ApplicationProperty :
          /\ p.key \in Given("string")
          /\ p.value \in Given("string") \cup Given("number") \cup Given("byte")
    BY DEF ApplicationProperty
  <2>2. PICK type : type = "Application"
    OBVIOUS
  <2>3. type \in {"Annotations", "Application"}
    BY <2>2
  <2>4. writeMap(type, m.application) \in Seq(Tokens)
    BY <1>1, <2>1, <2>3, AnyMap
  <2> QED
    BY <2>2, <2>4
<1>4. b \in Seq(Tokens)
  BY <1>1, AnyProperties
<1>5. d \in Seq(Tokens)
  BY <1>1, ContentIs
<1>6. encode(m) = a \o b \o c \o d
  BY DEF encode
<1> HIDE DEF a, b, c, d
<1>7. encode(m) \in Seq(Tokens)
  BY <1>2, <1>3, <1>4, <1>5, <1>6, BytesConcat
<1> QED
  BY <1>7, WidthsType

Part == [bytes : Nat, text : BOOLEAN]

LEMMA NumbersAre ==
  ASSUME NEW widths \in Seq(Nat)
  PROVE  Numbers(widths) \in Seq(Part)
<1> DEFINE l == Len(widths)
           f == [i \in DOMAIN widths |-> [bytes |-> widths[i], text |-> FALSE]]
<1>1. l \in Nat /\ DOMAIN widths = 1 .. l /\ \A i \in 1 .. l : widths[i] \in Nat
  BY LenProperties, ElementOfSeq
<1>2. f = [i \in 1 .. l |-> f[i]] /\ \A i \in 1 .. l : f[i] \in Part
  BY <1>1 DEF Part
<1>3. Numbers(widths) = f
  BY DEF Numbers
<1> HIDE DEF f, l
<1> QED
  BY <1>1, <1>2, <1>3, ListIs

LEMMA TextPart ==
  ASSUME NEW n \in Nat
  PROVE  Text(n) \in Seq(Part)
<1> DEFINE x == [bytes |-> n, text |-> TRUE]
<1>1. x \in Part
  BY DEF Part
<1>2. Text(n) = <<x>>
  BY DEF Text
<1> HIDE DEF x
<1> QED
  BY <1>1, <1>2

LEMMA HeaderIs ==
  /\ Header \in Seq(Part) /\ Numbers(<<1, 4>>) \in Seq(Part) /\ Numbers(<<8>>) \in Seq(Part)
  /\ Numbers(<<4>>) \in Seq(Part) /\ Numbers(<<2>>) \in Seq(Part)
  /\ Numbers(<<1, 4, 8, 1, 2, 4, 4>>) \in Seq(Part)
<1>1. PICK a : a = <<2, 2>>
  OBVIOUS
<1>2. PICK b : b = <<1, 4>>
  OBVIOUS
<1>3. PICK c : c = <<8>>
  OBVIOUS
<1>4. PICK d : d = <<4>>
  OBVIOUS
<1>5. PICK e : e = <<2>>
  OBVIOUS
<1>6. PICK f : f = <<1, 4, 8, 1, 2, 4, 4>>
  OBVIOUS
<1>7. a \in Seq(Nat) /\ b \in Seq(Nat) /\ c \in Seq(Nat)
  BY <1>1, <1>2, <1>3
<1>8. d \in Seq(Nat) /\ e \in Seq(Nat)
  BY <1>4, <1>5
<1>9. f \in Seq(Nat)
  BY <1>6
<1>10. \A w \in {a, b, c, d, e, f} : Numbers(w) \in Seq(Part)
  BY <1>7, <1>8, <1>9, NumbersAre
<1>11. Header = Numbers(a)
  BY <1>1 DEF Header
<1> QED
  BY <1>1, <1>2, <1>3, <1>4, <1>5, <1>6, <1>10, <1>11

LEMMA WritesAre ==
  ASSUME NEW tokens \in Seq(Tokens)
  PROVE  Writes(tokens) \in Seq(Part)
<1> DEFINE l == Len(tokens)
           g(i) == Numbers(tokens[i].head) \o (IF tokens[i].data = 0 THEN <<>> ELSE Text(tokens[i].data))
           ss == [i \in DOMAIN tokens |->
                    Numbers(tokens[i].head) \o (IF tokens[i].data = 0 THEN <<>> ELSE Text(tokens[i].data))]
           Q == Seq(Part)
<1>1. l \in Nat /\ DOMAIN tokens = 1 .. l /\ \A i \in 1 .. l : tokens[i] \in Tokens
  BY LenProperties, ElementOfSeq
<1>2. ASSUME NEW i \in 1 .. l PROVE ss[i] \in Q
  <2> DEFINE t == tokens[i]
  <2>1. t.head \in Seq(Nat) /\ t.data \in Nat
    BY <1>1 DEF Tokens
  <2> DEFINE h == t.head
             d == t.data
  <2> HIDE DEF h, d
  <2>2. h \in Seq(Nat) /\ d \in Nat
    BY <2>1 DEF h, d
  <2>3. Numbers(t.head) \in Seq(Part) /\ Text(t.data) \in Seq(Part) /\ <<>> \in Seq(Part)
    <3>1. Numbers(h) \in Seq(Part)
      BY <2>2, NumbersAre
    <3>2. Text(d) \in Seq(Part) /\ <<>> \in Seq(Part)
      BY <2>2, TextPart
    <3> QED
      BY <3>1, <3>2 DEF h, d
  <2>4. (IF t.data = 0 THEN <<>> ELSE Text(t.data)) \in Seq(Part)
    BY <2>3
  <2>5. Numbers(t.head) \o (IF t.data = 0 THEN <<>> ELSE Text(t.data)) \in Seq(Part)
    BY <2>3, <2>4, Joined
  <2>6. ss[i] = Numbers(t.head) \o (IF t.data = 0 THEN <<>> ELSE Text(t.data))
    BY <1>1
  <2> QED
    BY <2>5, <2>6
<1>3. ss = [i \in 1 .. l |-> ss[i]]
  BY <1>1
<1>4. Writes(tokens) = FlattenSeq(ss)
  BY DEF Writes
<1> HIDE DEF ss, Q, l
<1>5. ss \in Seq(Q)
  BY <1>1, <1>2, <1>3, ListIs
<1> QED
  BY <1>4, <1>5, FlattenType DEF Q

LEMMA EncodedAre ==
  ASSUME NEW m \in Message
  PROVE  amqpEncode(m) \in Seq(Part)
<1>1. encode(m) \in Seq(Tokens)
  BY AnyEncoded
<1> DEFINE a == Numbers(<<4>>)
           b == Writes(encode(m))
<1>2. a \in Seq(Part) /\ b \in Seq(Part)
  BY <1>1, WritesAre, HeaderIs
<1>3. amqpEncode(m) = a \o b
  BY DEF amqpEncode
<1> HIDE DEF a, b
<1> QED
  BY <1>2, <1>3, Joined

LEMMA FilterIs ==
  ASSUME NEW m \in Message
  PROVE  filterValue(m) \in Seq(Part)
<1> DEFINE a == Numbers(<<2>>)
           n == m.filterValue
           b == IF n = 0 THEN <<>> ELSE Text(n)
<1>1. n \in Nat
  BY DEF Message
<1>2. a \in Seq(Part)
  BY HeaderIs
<1>3. b \in Seq(Part)
  <2>1. Text(n) \in Seq(Part) /\ <<>> \in Seq(Part)
    BY <1>1, TextPart
  <2> QED
    BY <2>1
<1>4. filterValue(m) = a \o b
  BY DEF filterValue
<1> HIDE DEF a, b
<1> QED
  BY <1>2, <1>3, <1>4, Joined

LEMMA InnerIs ==
  ASSUME NEW ms \in Seq(Message)
  PROVE  Inner(ms) \in Nat
<1> DEFINE l == Len(ms)
           f == [i \in DOMAIN ms |-> 4 + Bytes(encode(ms[i]))]
<1>1. l \in Nat /\ DOMAIN ms = 1 .. l /\ \A i \in 1 .. l : ms[i] \in Message
  BY LenProperties, ElementOfSeq
<1>2. \A i \in 1 .. l : Bytes(encode(ms[i])) \in Nat
  BY <1>1, AnyEncoded
<1>3. f = [i \in 1 .. l |-> f[i]] /\ \A i \in 1 .. l : f[i] \in Nat
  BY <1>1, <1>2
<1>4. Inner(ms) = Total(f)
  BY DEF Inner
<1> HIDE DEF f, l
<1>5. f \in Seq(Nat)
  BY <1>1, <1>3, ListIs
<1> QED
  BY <1>4, <1>5, TotalNat

LEMMA PlainParts ==
  ASSUME NEW ms \in Seq(Message)
  PROVE  PublishRequest(ms) \in Seq(Part)
<1> DEFINE l == Len(ms)
           ss == [i \in DOMAIN ms |-> Numbers(<<8>>) \o amqpEncode(ms[i])]
           Q == Seq(Part)
<1>1. l \in Nat /\ DOMAIN ms = 1 .. l /\ \A i \in 1 .. l : ms[i] \in Message
  BY LenProperties, ElementOfSeq
<1>2. ASSUME NEW i \in 1 .. l PROVE ss[i] \in Q
  <2> DEFINE a == Numbers(<<8>>)
             b == amqpEncode(ms[i])
  <2>1. a \in Seq(Part) /\ b \in Seq(Part)
    BY <1>1, HeaderIs, EncodedAre
  <2>2. ss[i] = a \o b
    BY <1>1
  <2> HIDE DEF a, b, ss
  <2> QED
    BY <2>1, <2>2, Joined
<1>3. ss = [i \in 1 .. l |-> ss[i]]
  BY <1>1
<1> DEFINE a == Numbers(<<1, 4>>)
<1>4. PublishRequest(ms) = Header \o a \o FlattenSeq(ss)
  BY DEF PublishRequest
<1>5. Header \in Seq(Part) /\ a \in Seq(Part)
  BY HeaderIs
<1> HIDE DEF ss, Q, l, a
<1>6. ss \in Seq(Q)
  BY <1>1, <1>2, <1>3, ListIs
<1>7. FlattenSeq(ss) \in Seq(Part)
  BY <1>6, FlattenType DEF Q
<1> QED
  BY <1>4, <1>5, <1>7, Joined

LEMMA FilteredParts ==
  ASSUME NEW ms \in Seq(Message)
  PROVE  PublishRequestV2(ms) \in Seq(Part)
<1> DEFINE l == Len(ms)
           ss == [i \in DOMAIN ms |-> Numbers(<<8>>) \o filterValue(ms[i]) \o amqpEncode(ms[i])]
           Q == Seq(Part)
<1>1. l \in Nat /\ DOMAIN ms = 1 .. l /\ \A i \in 1 .. l : ms[i] \in Message
  BY LenProperties, ElementOfSeq
<1>2. ASSUME NEW i \in 1 .. l PROVE ss[i] \in Q
  <2> DEFINE a == Numbers(<<8>>)
             b == amqpEncode(ms[i])
             c == filterValue(ms[i])
  <2>1. a \in Seq(Part) /\ b \in Seq(Part) /\ c \in Seq(Part)
    BY <1>1, HeaderIs, EncodedAre, FilterIs
  <2>2. ss[i] = a \o c \o b
    BY <1>1
  <2> HIDE DEF a, b, c, ss
  <2> QED
    BY <2>1, <2>2, Joined
<1>3. ss = [i \in 1 .. l |-> ss[i]]
  BY <1>1
<1> DEFINE a == Numbers(<<1, 4>>)
<1>4. PublishRequestV2(ms) = Header \o a \o FlattenSeq(ss)
  BY DEF PublishRequestV2
<1>5. Header \in Seq(Part) /\ a \in Seq(Part)
  BY HeaderIs
<1> HIDE DEF ss, Q, l, a
<1>6. ss \in Seq(Q)
  BY <1>1, <1>2, <1>3, ListIs
<1>7. FlattenSeq(ss) \in Seq(Part)
  BY <1>6, FlattenType DEF Q
<1> QED
  BY <1>4, <1>5, <1>7, Joined

LEMMA BatchParts ==
  ASSUME NEW ms \in Seq(Message)
  PROVE  SubEntryBatchPublishRequest(ms) \in Seq(Part)
<1> DEFINE a == Numbers(<<1, 4, 8, 1, 2, 4, 4>>)
           b == Text(Inner(ms))
<1>1. Header \in Seq(Part) /\ a \in Seq(Part) /\ b \in Seq(Part)
  BY HeaderIs, InnerIs, TextPart
<1>2. SubEntryBatchPublishRequest(ms) = Header \o a \o b
  BY DEF SubEntryBatchPublishRequest
<1> HIDE DEF a, b
<1> QED
  BY <1>1, <1>2, Joined

LEMMA PublishParts ==
  ASSUME NEW r \in Requests, Publish(r)
  PROVE  todo' \in Seq(Part)
<1>1. r.messages \in Seq(Message) /\ r.kind \in {"plain", "filtered", "batch"}
  BY WireAssumption
<1>2. todo' = CASE r.kind = "plain"    -> PublishRequest(r.messages)
                [] r.kind = "filtered" -> PublishRequestV2(r.messages)
                [] r.kind = "batch"    -> SubEntryBatchPublishRequest(r.messages)
  BY DEF Publish
<1>3. /\ PublishRequest(r.messages) \in Seq(Part) /\ PublishRequestV2(r.messages) \in Seq(Part)
      /\ SubEntryBatchPublishRequest(r.messages) \in Seq(Part)
  BY <1>1, PlainParts, FilteredParts, BatchParts
<1> QED
  BY <1>1, <1>2, <1>3

PartsTyped == todo \in Seq(Part)

LEMMA StepParts == PartsTyped /\ [WireNext]_wire => PartsTyped' /\ [WriterNext]_writer
<1> SUFFICES ASSUME todo \in Seq(Part), [WireNext]_wire
             PROVE  todo' \in Seq(Part) /\ [WriterNext]_writer
  BY DEF PartsTyped
<1>1. ASSUME NEW r \in Requests, Publish(r) PROVE todo' \in Seq(Part) /\ [WriterNext]_writer
  <2>1. New
    BY <1>1 DEF Publish
  <2> QED
    BY <1>1, <2>1, PublishParts DEF WriterNext
<1>2. CASE Write
  <2> DEFINE x == Head(todo)
  <2>1. x \in Part /\ todo' \in Seq(Part)
    BY <1>2, HeadTailProperties DEF Write
  <2>2. x.bytes \in Nat
    BY <2>1 DEF Part
  <2>3. WriteData(x.bytes) \/ WriteNumber(x.bytes)
    BY <1>2 DEF Write
  <2>4. WriterNext
    BY <2>2, <2>3 DEF WriterNext
  <2> QED
    BY <2>1, <2>4
<1>3. CASE RequestFails
  BY <1>3 DEF RequestFails
<1>4. CASE BrokerStores
  BY <1>4 DEF BrokerStores
<1>5. CASE BrokerRefuses
  BY <1>5 DEF BrokerRefuses
<1>6. CASE BrokerDelivers
  BY <1>6 DEF BrokerDelivers
<1>7. CASE Data
  BY <1>7 DEF Data
<1>8. CASE DecodeFrame
  BY <1>8 DEF DecodeFrame
<1>9. CASE UNCHANGED wire
  BY <1>9 DEF wire
<1> QED
  BY <1>1, <1>2, <1>3, <1>4, <1>5, <1>6, <1>7, <1>8, <1>9 DEF WireNext

(* What publish requests ask of the buffer is a run of the buffer: what    *)
(* holds of every sequence of writes holds of the requests of a publisher. *)
THEOREM RequestsAreWritten == WireSpec => WriterSpec
<1>1. WireInit => PartsTyped /\ WriterInit
  BY DEF WireInit, PartsTyped
<1> QED
  BY <1>1, StepParts, PTL DEF WireSpec, WriterSpec

(* A publish request that fits the limit is written to the last byte: what *)
(* BufferDataWriter promises of every sequence of writes, of publishers.   *)
THEOREM PublishersWriteWhole == WireSpec => []WrittenWhole
  BY RequestsAreWritten, RequestsWhole, PTL

-----------------------------------------------------------------------------
(* The heartbeat.                                                          *)

(* Why no heartbeat is ever counted as missed: the counter is zero, and    *)
(* idleDetection is only reached with a message sent less than an interval *)
(* ago.  Why the silence is bounded: when the loop set its timer, the last *)
(* message sent was younger than an interval, and since then both aged by  *)
(* the same time.                                                          *)
YoungAtTimer ==
  used = 0 => \/ loop = "timer" /\ sentAge < Interval + (Interval - timer)
              \/ loop = "sending" /\ sentAge < 2 * Interval
StartedOpen == used = 0 => sock = "open" /\ started
BeatInv == TypeOK /\ NeverMissed /\ YoungAtTimer /\ StartedOpen

LEMMA InitBeat == Init => BeatInv
  BY HeartbeatAssumption
     DEF Init, BeatInv, TypeOK, NeverMissed, YoungAtTimer, StartedOpen, Old, MAX_HEARTBEATS_MISSED

(* The detection that follows a message sent less than an interval ago.    *)
LEMMA DetectionQuiet ==
  ASSUME TypeOK, NEW s \in 0 .. Old, s < Interval, idleDetection(s, recvAge, 0)
  PROVE  /\ sentAge' = s /\ recvAge' = recvAge /\ idleCounter' = 0
         /\ sock' = sock /\ started' = started
         /\ loop' = IF started THEN "timer" ELSE "none"
         /\ timer' = IF started THEN Interval ELSE timer
  BY HeartbeatAssumption DEF TypeOK, idleDetection, Old, MAX_HEARTBEATS_MISSED

LEMMA StepBeat == BeatInv /\ [Next]_vars => BeatInv'
<1> SUFFICES ASSUME BeatInv, [Next]_vars PROVE BeatInv'
  OBVIOUS
<1> USE HeartbeatAssumption DEF BeatInv
<1>1. CASE Tick
  BY <1>1 DEF Tick, Punctual, Older, TypeOK, NeverMissed, YoungAtTimer, StartedOpen, Old,
              MAX_HEARTBEATS_MISSED
<1>2. CASE Receive
  BY <1>2 DEF Receive, reportLastMessageReceived, TypeOK, NeverMissed, YoungAtTimer, StartedOpen,
              Old, MAX_HEARTBEATS_MISSED
<1>3. CASE Request
  BY <1>3 DEF Request, reportLastMessageSent, TypeOK, NeverMissed, YoungAtTimer, StartedOpen,
              Old, MAX_HEARTBEATS_MISSED
<1>4. CASE Fire
  <2>1. CASE MustSend
    BY <1>4, <2>1 DEF Fire, MustSend, TypeOK, NeverMissed, YoungAtTimer, StartedOpen, Old,
                      MAX_HEARTBEATS_MISSED
  <2>2. CASE ~MustSend
    <3>1. sentAge < Interval /\ sentAge \in 0 .. Old
      BY <2>2 DEF MustSend, TypeOK, Old
    <3>2. idleDetection(sentAge, recvAge, 0)
      BY <1>4, <2>2 DEF Fire, NeverMissed
    <3>3. UNCHANGED <<peerAlive, used>>
      BY <1>4 DEF Fire
    <3> QED
      BY <3>1, <3>2, <3>3, DetectionQuiet
         DEF TypeOK, NeverMissed, YoungAtTimer, StartedOpen, Old, MAX_HEARTBEATS_MISSED
  <2> QED
    BY <2>1, <2>2
<1>5. CASE SendDone
  <2>1. idleDetection(0, recvAge, 0) /\ UNCHANGED <<peerAlive, used>>
    BY <1>5 DEF SendDone
  <2>2. 0 \in 0 .. Old /\ 0 < Interval
    BY DEF Old
  <2> QED
    BY <2>1, <2>2, DetectionQuiet
       DEF TypeOK, NeverMissed, YoungAtTimer, StartedOpen, Old, MAX_HEARTBEATS_MISSED
<1>6. CASE SendFails
  BY <1>6 DEF SendFails, TypeOK, NeverMissed, YoungAtTimer, StartedOpen, Old, MAX_HEARTBEATS_MISSED
<1>7. CASE PeerDies
  BY <1>7 DEF PeerDies, TypeOK, NeverMissed, YoungAtTimer, StartedOpen, Old, MAX_HEARTBEATS_MISSED
<1>8. CASE Drop
  <2>1. /\ used' = used + 1 /\ sock' = "ended" /\ used < MaxDrops
        /\ UNCHANGED <<timer, recvAge, peerAlive>>
        /\ started' \in BOOLEAN /\ loop' \in {"timer", "sending", "hung", "none"}
        /\ sentAge' \in 0 .. Old /\ idleCounter' = 0
    BY <1>8 DEF Drop, TypeOK, NeverMissed, Old
  <2>2. used' \in 0 .. MaxDrops /\ used' # 0
    BY <2>1 DEF TypeOK
  <2>3. TypeOK'
    BY <2>1, <2>2 DEF TypeOK, Old, MAX_HEARTBEATS_MISSED
  <2>4. NeverMissed' /\ YoungAtTimer' /\ StartedOpen'
    BY <2>1, <2>2 DEF NeverMissed, YoungAtTimer, StartedOpen
  <2> QED
    BY <2>3, <2>4
<1>9. CASE Close
  <2>0. UNCHANGED <<timer, recvAge, peerAlive>>
    BY <1>9 DEF Close
  <2>1. /\ used' = used + 1 /\ sock' = "ended" /\ used < MaxDrops
        /\ started' \in BOOLEAN /\ loop' \in {"timer", "sending", "hung", "none"}
        /\ sentAge' \in 0 .. Old /\ idleCounter' = 0
    <3>1. /\ used' = used + 1 /\ sock' = "ended" /\ used < MaxDrops
          /\ started' = FALSE /\ sentAge' = 0 /\ idleCounter' = 0
          /\ loop' = IF loop = "timer" THEN "none" ELSE loop
      BY <1>9, Zenon DEF Close, reportLastMessageSent
    <3>2. started' \in BOOLEAN
      BY <3>1, Zenon
    <3>3. loop' \in {"timer", "sending", "hung", "none"}
      BY <3>1 DEF TypeOK
    <3>4. sentAge' \in 0 .. Old
      BY <3>1 DEF Old
    <3> QED
      BY <3>1, <3>2, <3>3, <3>4
  <2>2. used' \in 0 .. MaxDrops /\ used' # 0
    BY <2>1 DEF TypeOK
  <2>3. TypeOK'
    BY <2>0, <2>1, <2>2 DEF TypeOK, Old, MAX_HEARTBEATS_MISSED
  <2>4. NeverMissed' /\ YoungAtTimer' /\ StartedOpen'
    BY <2>1, <2>2 DEF NeverMissed, YoungAtTimer, StartedOpen
  <2> QED
    BY <2>3, <2>4
<1>10. CASE Restart \/ SocketConnects
  BY <1>10 DEF Restart, SocketConnects, TypeOK, NeverMissed, YoungAtTimer, StartedOpen, Old,
              MAX_HEARTBEATS_MISSED
<1>11. CASE HandshakeDone
  BY <1>11 DEF HandshakeDone, TypeOK, NeverMissed, YoungAtTimer, StartedOpen, Old,
               MAX_HEARTBEATS_MISSED
<1>12. CASE UNCHANGED vars
  BY <1>12 DEF vars, TypeOK, NeverMissed, YoungAtTimer, StartedOpen
<1> QED
  BY <1>1, <1>2, <1>3, <1>4, <1>5, <1>6, <1>7, <1>8, <1>10, <1>11, <1>12, <1>9 DEF Next

LEMMA BeatHolds == Spec => []BeatInv
  BY InitBeat, StepBeat, PTL DEF Spec

(* The types of Heartbeat hold.                                            *)
THEOREM TypeCorrect == Spec => []TypeOK
<1>1. BeatInv => TypeOK
  BY DEF BeatInv
<1> QED
  BY <1>1, BeatHolds, PTL

(* Until the connection first fails, the broker gets a frame from the      *)
(* client in less than two intervals: heartbeat.ts sends one in time.      *)
THEOREM SilenceIsBounded == Spec => []SilenceBounded
<1>1. BeatInv => SilenceBounded
  BY HeartbeatAssumption DEF BeatInv, TypeOK, YoungAtTimer, SilenceBounded, Old
<1> QED
  BY <1>1, BeatHolds, PTL

(* idleCounter never leaves zero: the branch of idleDetection that closes  *)
(* the connection after MAX_HEARTBEATS_MISSED cannot be reached.           *)
THEOREM NothingMissed == Spec => []NeverMissed
<1>1. BeatInv => NeverMissed
  BY DEF BeatInv
<1> QED
  BY <1>1, BeatHolds, PTL
=============================================================================
