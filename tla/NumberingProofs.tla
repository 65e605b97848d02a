-------------------------- MODULE NumberingProofs --------------------------
(***************************************************************************)
(* Proofs about SuperStream and Outbox: messages, their numbers and what   *)
(* becomes of them.  A super stream publisher hands each message over      *)
(* once, to one partition per key, in the order of the calls and under an  *)
(* id the broker does not have; the outbox of the example forgets nothing  *)
(* that is not stored, and its offset parts what was sent from what was    *)
(* not.                                                                    *)
(***************************************************************************)
EXTENDS SuperStream, Outbox, SequenceTheorems, FiniteSetTheorems, WellFoundedInduction, TLAPS

-----------------------------------------------------------------------------
(* Sequences, by their points.                                             *)

LEMMA Points ==
  ASSUME NEW S, NEW s \in Seq(S)
  PROVE  Len(s) \in Nat /\ DOMAIN s = 1 .. Len(s) /\ \A i \in DOMAIN s : s[i] \in S
BY LenProperties, ElementOfSeq

LEMMA ByPoints ==
  ASSUME NEW S, NEW l \in Nat, NEW f, f = [i \in 1 .. l |-> f[i]], \A i \in 1 .. l : f[i] \in S
  PROVE  f \in Seq(S) /\ Len(f) = l /\ DOMAIN f = 1 .. l
<1>1. f \in [1 .. l -> S]
  OBVIOUS
<1> QED
  BY <1>1

LEMMA Appended ==
  ASSUME NEW S, NEW s \in Seq(S), NEW x \in S
  PROVE  /\ Append(s, x) \in Seq(S) /\ Len(s) \in Nat
         /\ Len(Append(s, x)) = Len(s) + 1
         /\ DOMAIN s = 1 .. Len(s) /\ DOMAIN Append(s, x) = 1 .. Len(s) + 1
         /\ Append(s, x)[Len(s) + 1] = x
         /\ \A i \in DOMAIN s : Append(s, x)[i] = s[i]
BY AppendProperties, LenProperties

LEMMA Joined ==
  ASSUME NEW S, NEW s \in Seq(S), NEW t \in Seq(S)
  PROVE  /\ s \o t \in Seq(S) /\ Len(s) \in Nat /\ Len(t) \in Nat
         /\ DOMAIN s = 1 .. Len(s) /\ DOMAIN t = 1 .. Len(t)
         /\ Len(s \o t) = Len(s) + Len(t) /\ DOMAIN (s \o t) = 1 .. Len(s) + Len(t)
         /\ \A i \in DOMAIN s : i \in DOMAIN (s \o t) /\ (s \o t)[i] = s[i]
         /\ \A j \in DOMAIN t : Len(s) + j \in DOMAIN (s \o t) /\ (s \o t)[Len(s) + j] = t[j]
         /\ \A i \in DOMAIN (s \o t) : i \in DOMAIN s \/ \E j \in DOMAIN t : i = Len(s) + j
<1>1. /\ s \o t \in Seq(S) /\ Len(s) \in Nat /\ Len(t) \in Nat /\ Len(s \o t) = Len(s) + Len(t)
      /\ \A i \in 1 .. Len(s) + Len(t) : (s \o t)[i] = IF i <= Len(s) THEN s[i] ELSE t[i - Len(s)]
  BY ConcatProperties, LenProperties
<1>2. DOMAIN s = 1 .. Len(s) /\ DOMAIN t = 1 .. Len(t) /\ DOMAIN (s \o t) = 1 .. Len(s) + Len(t)
  BY <1>1, LenProperties
<1> DEFINE u == s \o t
           l == Len(s)
           n == Len(t)
<1>3. /\ l \in Nat /\ n \in Nat /\ DOMAIN s = 1 .. l /\ DOMAIN t = 1 .. n /\ DOMAIN u = 1 .. l + n
      /\ \A i \in 1 .. l + n : u[i] = IF i <= l THEN s[i] ELSE t[i - l]
  BY <1>1, <1>2
<1> HIDE DEF u, l, n
<1>4. \A i \in DOMAIN s : i \in DOMAIN u /\ u[i] = s[i]
  BY <1>3
<1>5. \A j \in DOMAIN t : l + j \in DOMAIN u /\ u[l + j] = t[j]
  <2> SUFFICES ASSUME NEW j \in DOMAIN t PROVE l + j \in DOMAIN u /\ u[l + j] = t[j]
    OBVIOUS
  <2>1. l + j \in 1 .. l + n /\ ~(l + j <= l) /\ (l + j) - l = j
    BY <1>3
  <2> QED
    BY <1>3, <2>1
<1>6. \A i \in DOMAIN u : i \in DOMAIN s \/ \E j \in DOMAIN t : i = l + j
  <2> SUFFICES ASSUME NEW i \in DOMAIN u, i \notin DOMAIN s PROVE \E j \in DOMAIN t : i = l + j
    OBVIOUS
  <2>1. i - l \in DOMAIN t /\ i = l + (i - l)
    BY <1>3
  <2> QED
    BY <2>1
<1> QED
  BY <1>1, <1>2, <1>4, <1>5, <1>6 DEF u, l, n

LEMMA Beheaded ==
  ASSUME NEW S, NEW s \in Seq(S), s # <<>>
  PROVE  /\ Head(s) = s[1] /\ 1 \in DOMAIN s /\ s[1] \in S
         /\ Tail(s) \in Seq(S) /\ Len(s) \in Nat \ {0} /\ Len(Tail(s)) = Len(s) - 1
         /\ DOMAIN s = 1 .. Len(s) /\ DOMAIN Tail(s) = 1 .. Len(s) - 1
         /\ \A i \in DOMAIN Tail(s) : i + 1 \in DOMAIN s /\ Tail(s)[i] = s[i + 1]
<1>1. /\ Head(s) \in S /\ Tail(s) \in Seq(S) /\ Len(Tail(s)) = Len(s) - 1 /\ Len(s) \in Nat /\ Len(s) # 0
      /\ \A i \in 1 .. Len(Tail(s)) : Tail(s)[i] = s[i + 1]
  BY HeadTailProperties, LenProperties, EmptySeq
<1>2. DOMAIN s = 1 .. Len(s) /\ DOMAIN Tail(s) = 1 .. Len(Tail(s))
  BY <1>1, LenProperties
<1>3. Head(s) = s[1] /\ 1 \in DOMAIN s
  BY <1>1, <1>2
<1>4. \A i \in 1 .. Len(Tail(s)) : i + 1 \in DOMAIN s
  BY <1>1, <1>2
<1> QED
  BY <1>1, <1>2, <1>3, <1>4

(* What is left of a sequence from its n-th element on.                    *)
LEMMA FromOn ==
  ASSUME NEW S, NEW s \in Seq(S), NEW n \in DOMAIN s
  PROVE  /\ SubSeq(s, n, Len(s)) \in Seq(S) /\ SubSeq(s, n, Len(s)) # <<>>
         /\ 1 \in DOMAIN SubSeq(s, n, Len(s)) /\ SubSeq(s, n, Len(s))[1] = s[n]
         /\ \A i \in DOMAIN SubSeq(s, n, Len(s)) :
              n + i - 1 \in DOMAIN s /\ i \in Nat /\ SubSeq(s, n, Len(s))[i] = s[n + i - 1]
<1> DEFINE t == SubSeq(s, n, Len(s))
           l == Len(s)
<1>1. l \in Nat /\ n \in 1 .. l /\ DOMAIN s = 1 .. l
  BY Points
<1>2. t \in Seq(S) /\ Len(t) = l - n + 1 /\ \A i \in 1 .. l - n + 1 : t[i] = s[n + i - 1]
  <2>1. \A i \in n .. l : s[i] \in S
    BY <1>1, Points
  <2>2. n \in Nat /\ n <= l
    BY <1>1
  <2> QED
    BY <1>1, <2>1, <2>2, SubSeqProperties
<1> HIDE DEF t, l
<1>3. DOMAIN t = 1 .. l - n + 1
  BY <1>2, LenProperties
<1>4. 1 \in DOMAIN t /\ n + 1 - 1 = n
  BY <1>1, <1>3
<1>5. t[1] = s[n]
  BY <1>2, <1>3, <1>4
<1>6. t # <<>>
  BY <1>1, <1>2
<1>7. \A i \in DOMAIN t : n + i - 1 \in DOMAIN s /\ i \in Nat /\ t[i] = s[n + i - 1]
  <2> SUFFICES ASSUME NEW i \in 1 .. l - n + 1 PROVE n + i - 1 \in 1 .. l /\ i \in Nat /\ t[i] = s[n + i - 1]
    BY <1>1, <1>3
  <2>1. n + i - 1 \in 1 .. l /\ i \in Nat
    BY <1>1
  <2> QED
    BY <1>2, <2>1
<1>8. t \in Seq(S) /\ 1 \in DOMAIN t
  BY <1>2, <1>4
<1> QED
  BY <1>5, <1>6, <1>7, <1>8 DEF t
(* A set of numbers has a least one.                                       *)
LEMMA Least ==
  ASSUME NEW T, T \subseteq Nat, T # {}
  PROVE  \E m \in T : \A k \in T : m <= k
<1> DEFINE R == OpToRel(<, Nat)
<1>1. IsWellFoundedOn(R, Nat)
  BY NatLessThanWellFounded, Zenon
<1>2. \A a, b \in Nat : a < b => <<a, b>> \in R
  BY Zenon DEF OpToRel
<1> HIDE DEF R
<1>3. PICK m \in T : \A k \in T : ~(<<k, m>> \in R)
  BY <1>1, WFMin
<1>4. ASSUME NEW k \in T PROVE m <= k
  <2>1. ~(k < m) /\ k \in Nat /\ m \in Nat
    BY <1>2, <1>3
  <2> QED
    BY <2>1
<1> QED
  BY <1>4

LEMMA SetInduction ==
  ASSUME NEW S, 0 \in S, \A n \in Nat : n \in S => n + 1 \in S
  PROVE  Nat \subseteq S
<1> SUFFICES ASSUME Nat \ S # {} PROVE FALSE
  OBVIOUS
<1>1. PICK m \in Nat \ S : \A k \in Nat \ S : m <= k
  <2>1. Nat \ S \subseteq Nat
    OBVIOUS
  <2> QED
    BY <2>1, Least
<1>2. m # 0 /\ m - 1 \in Nat
  BY <1>1
<1>3. m - 1 \in S
  BY <1>1, <1>2
<1> QED
  BY <1>1, <1>2, <1>3

(* What Without keeps of the first n of ids.                               *)
Step(ids, gone, before, n) ==
  IF n = 0 THEN <<>> ELSE IF ids[n] \in gone THEN before ELSE Append(before, ids[n])
IsKept(ids, gone, f, m) == f = [n \in 0 .. m |-> Step(ids, gone, f[n - 1], n)]

LEMMA KeptExists ==
  ASSUME NEW ids, NEW gone
  PROVE  \A m \in Nat : \E f : IsKept(ids, gone, f, m)
<1> DEFINE S == {m \in Nat : \E f : IsKept(ids, gone, f, m)}
<1>1. 0 \in S
  <2> DEFINE f == [n \in 0 .. 0 |-> <<>>]
  <2>1. \A n \in 0 .. 0 : f[n] = Step(ids, gone, f[n - 1], n)
    BY DEF Step
  <2>2. f = [n \in 0 .. 0 |-> Step(ids, gone, f[n - 1], n)]
    BY <2>1
  <2> QED
    BY <2>2 DEF IsKept
<1>2. ASSUME NEW m \in Nat, m \in S PROVE m + 1 \in S
  <2>1. PICK f : IsKept(ids, gone, f, m)
    BY <1>2
  <2> DEFINE x == Step(ids, gone, f[m], m + 1)
             g == [n \in 0 .. m + 1 |-> IF n <= m THEN f[n] ELSE x]
  <2>2. \A n \in 0 .. m : f[n] = Step(ids, gone, f[n - 1], n)
    BY <2>1 DEF IsKept
  <2>3. ASSUME NEW n \in 0 .. m + 1 PROVE g[n] = Step(ids, gone, g[n - 1], n)
    <3>1. CASE n = 0
      <4>1. g[n] = f[n] /\ f[n] = Step(ids, gone, f[n - 1], n)
        BY <2>2, <3>1
      <4> QED
        BY <3>1, <4>1 DEF Step
    <3>2. CASE n \in 1 .. m
      <4>1. g[n] = f[n] /\ g[n - 1] = f[n - 1] /\ f[n] = Step(ids, gone, f[n - 1], n)
        BY <2>2, <3>2
      <4> QED
        BY <4>1
    <3>3. CASE n = m + 1
      <4>1. g[n] = x /\ g[n - 1] = f[m]
        BY <3>3
      <4> QED
        BY <3>3, <4>1
    <3> QED
      BY <3>1, <3>2, <3>3
  <2> HIDE DEF x
  <2>4. g = [n \in 0 .. m + 1 |-> g[n]]
    OBVIOUS
  <2>5. IsKept(ids, gone, g, m + 1)
    <3> DEFINE h == [n \in 0 .. m + 1 |-> Step(ids, gone, g[n - 1], n)]
    <3>1. \A n \in 0 .. m + 1 : g[n] = h[n]
      BY <2>3
    <3>2. DOMAIN g = 0 .. m + 1 /\ DOMAIN h = 0 .. m + 1 /\ g = [n \in DOMAIN g |-> g[n]] /\ h = [n \in DOMAIN h |-> h[n]]
      OBVIOUS
    <3> HIDE DEF g, h
    <3>3. g = h
      BY <3>1, <3>2
    <3> QED
      BY <3>3 DEF IsKept, h
  <2> QED
    BY <2>5
<1>3. Nat \subseteq S
  <2> HIDE DEF S
  <2> QED
    BY <1>1, <1>2, SetInduction
<1> QED
  BY <1>3

LEMMA WithoutIs ==
  ASSUME NEW ids, Len(ids) \in Nat, NEW gone
  PROVE  \E f : IsKept(ids, gone, f, Len(ids)) /\ Without(ids, gone) = f[Len(ids)]
<1> DEFINE f == CHOOSE f : IsKept(ids, gone, f, Len(ids))
<1>1. IsKept(ids, gone, f, Len(ids))
  <2> QED
    BY KeptExists
<1>2. Without(ids, gone) = f[Len(ids)]
  BY DEF Without, IsKept, Step
<1> HIDE DEF f
<1> QED
  BY <1>1, <1>2

Increasing(s) == \A i, j \in DOMAIN s : i < j => s[i] < s[j]

(* The filter keeps the order, and takes out what is gone.                 *)
LEMMA WithoutFacts ==
  ASSUME NEW ids \in Seq(Nat), Increasing(ids), NEW gone
  PROVE  /\ Without(ids, gone) \in Seq(Nat) /\ Increasing(Without(ids, gone))
         /\ ToSet(Without(ids, gone)) = ToSet(ids) \ gone
<1> DEFINE l == Len(ids)
           first(n) == {ids[i] : i \in 1 .. n}
           Good(t, n) == t \in Seq(Nat) /\ Increasing(t) /\ ToSet(t) = first(n) \ gone
<1>1. l \in Nat /\ DOMAIN ids = 1 .. l /\ \A i \in 1 .. l : ids[i] \in Nat
  OBVIOUS
<1>2. PICK f : IsKept(ids, gone, f, l) /\ Without(ids, gone) = f[l]
  BY WithoutIs
<1>3. \A n \in 0 .. l : f[n] = Step(ids, gone, f[n - 1], n)
  BY <1>2 DEF IsKept
<1> DEFINE S == {n \in Nat : n <= l => Good(f[n], n)}
<1>4. 0 \in S
  <2>1. f[0] = <<>>
    BY <1>1, <1>3 DEF Step
  <2>2. DOMAIN <<>> = {} /\ <<>> \in Seq(Nat)
    OBVIOUS
  <2>3. first(0) = {}
    OBVIOUS
  <2> QED
    BY <2>1, <2>2, <2>3 DEF Increasing, ToSet
<1>5. ASSUME NEW n \in Nat, n \in S PROVE n + 1 \in S
  <2> SUFFICES ASSUME n + 1 <= l PROVE Good(f[n + 1], n + 1)
    OBVIOUS
  <2> DEFINE t == f[n]
             x == ids[n + 1]
  <2>1. Good(t, n) /\ n \in Nat
    <3>1. n <= l
      BY <1>1
    <3> HIDE DEF Good
    <3> QED
      BY <1>5, <3>1
  <2>2. f[n + 1] = IF x \in gone THEN t ELSE Append(t, x)
    <3>1. n + 1 \in 0 .. l /\ n + 1 # 0 /\ (n + 1) - 1 = n
      BY <1>1
    <3> QED
      BY <1>3, <3>1 DEF Step
  <2>3. first(n + 1) = first(n) \cup {x}
    OBVIOUS
  <2>4. x \in Nat /\ \A y \in first(n) : y < x
    <3>1. n + 1 \in DOMAIN ids /\ \A i \in 1 .. n : i \in DOMAIN ids /\ i < n + 1
      BY <1>1
    <3> QED
      BY <3>1 DEF Increasing
  <2>5. CASE x \in gone
    BY <2>1, <2>2, <2>3, <2>5
  <2>6. CASE x \notin gone
    <3> HIDE DEF x, t
    <3> DEFINE u == Append(t, x)
    <3>1. /\ u \in Seq(Nat) /\ Len(u) = Len(t) + 1 /\ Len(t) \in Nat /\ DOMAIN t = 1 .. Len(t)
          /\ DOMAIN u = 1 .. Len(t) + 1 /\ u[Len(t) + 1] = x
          /\ \A i \in 1 .. Len(t) : u[i] = t[i]
      BY <2>1, <2>4, AppendProperties
    <3> HIDE DEF u
    <3> HIDE DEF first
    <3>2. ToSet(u) = ToSet(t) \cup {x}
      <4>1. \A i \in DOMAIN u : i \in DOMAIN t \/ i = Len(t) + 1
        BY <3>1
      <4>2. DOMAIN t \subseteq DOMAIN u /\ Len(t) + 1 \in DOMAIN u
        BY <3>1
      <4> QED
        BY <3>1, <4>1, <4>2 DEF ToSet
    <3>3. \A i \in DOMAIN t : t[i] < x
      <4> SUFFICES ASSUME NEW i \in DOMAIN t PROVE t[i] < x
        OBVIOUS
      <4>1. t[i] \in first(n)
        BY <2>1 DEF ToSet
      <4> QED
        BY <2>4, <4>1
    <3>4. Increasing(u)
      <4> SUFFICES ASSUME NEW i \in DOMAIN u, NEW j \in DOMAIN u, i < j PROVE u[i] < u[j]
        BY DEF Increasing
      <4>1. i \in DOMAIN t /\ u[i] = t[i]
        BY <3>1
      <4>2. CASE j \in DOMAIN t
        BY <2>1, <3>1, <4>1, <4>2 DEF Increasing
      <4>3. CASE j = Len(t) + 1
        BY <3>1, <3>3, <4>1, <4>3
      <4> QED
        BY <3>1, <4>2, <4>3
    <3>5. ToSet(u) = first(n + 1) \ gone
      BY <2>1, <2>3, <2>6, <3>2
    <3> QED
      BY <2>2, <2>6, <3>1, <3>4, <3>5 DEF u
  <2> QED
    BY <2>5, <2>6
<1>6. l \in S
  <2> HIDE DEF S
  <2> QED
    BY <1>1, <1>4, <1>5, SetInduction
<1>7. first(l) = ToSet(ids)
  BY <1>1 DEF ToSet
<1> QED
  BY <1>1, <1>2, <1>6, <1>7

(* The same of any sequence.                                               *)
LEMMA WithoutIn ==
  ASSUME NEW S, NEW s \in Seq(S), NEW gone
  PROVE  /\ Without(s, gone) \in Seq(S) /\ ToSet(Without(s, gone)) = ToSet(s) \ gone
         /\ IsInjective(s) => IsInjective(Without(s, gone))
<1> DEFINE l == Len(s)
           first(n) == {s[i] : i \in 1 .. n}
           Good(t, n) == /\ t \in Seq(S) /\ ToSet(t) = first(n) \ gone
                         /\ IsInjective(s) => IsInjective(t)
<1>1. l \in Nat /\ DOMAIN s = 1 .. l /\ \A i \in 1 .. l : s[i] \in S
  BY Points
<1>2. PICK f : IsKept(s, gone, f, l) /\ Without(s, gone) = f[l]
  BY <1>1, WithoutIs
<1>3. \A n \in 0 .. l : f[n] = Step(s, gone, f[n - 1], n)
  BY <1>2 DEF IsKept
<1> DEFINE G == {n \in Nat : n <= l => Good(f[n], n)}
<1>4. 0 \in G
  <2>1. f[0] = <<>>
    BY <1>1, <1>3 DEF Step
  <2>2. DOMAIN <<>> = {} /\ <<>> \in Seq(S)
    OBVIOUS
  <2>3. first(0) = {}
    OBVIOUS
  <2> QED
    BY <2>1, <2>2, <2>3 DEF IsInjective, ToSet
<1>5. ASSUME NEW n \in Nat, n \in G PROVE n + 1 \in G
  <2> SUFFICES ASSUME n + 1 <= l PROVE Good(f[n + 1], n + 1)
    OBVIOUS
  <2> DEFINE t == f[n]
             x == s[n + 1]
  <2>1. Good(t, n) /\ n \in Nat
    <3>1. n <= l
      BY <1>1
    <3> HIDE DEF Good
    <3> QED
      BY <1>5, <3>1
  <2>2. f[n + 1] = IF x \in gone THEN t ELSE Append(t, x)
    <3>1. n + 1 \in 0 .. l /\ n + 1 # 0 /\ (n + 1) - 1 = n
      BY <1>1
    <3> QED
      BY <1>3, <3>1 DEF Step
  <2>3. first(n + 1) = first(n) \cup {x}
    OBVIOUS
  <2>4. x \in S /\ (IsInjective(s) => x \notin first(n))
    <3>1. n + 1 \in DOMAIN s /\ \A i \in 1 .. n : i \in DOMAIN s /\ i # n + 1
      BY <1>1
    <3> QED
      BY <1>1, <3>1 DEF IsInjective
  <2>5. CASE x \in gone
    BY <2>1, <2>2, <2>3, <2>5
  <2>6. CASE x \notin gone
    <3> HIDE DEF x, t
    <3> DEFINE u == Append(t, x)
    <3>1. /\ u \in Seq(S) /\ Len(t) \in Nat /\ DOMAIN t = 1 .. Len(t)
          /\ DOMAIN u = 1 .. Len(t) + 1 /\ u[Len(t) + 1] = x
          /\ \A i \in DOMAIN t : u[i] = t[i]
      BY <2>1, <2>4, Appended
    <3> HIDE DEF u
    <3> HIDE DEF first
    <3>2. \A i \in DOMAIN u : i \in DOMAIN t \/ i = Len(t) + 1
      BY <3>1
    <3>3. DOMAIN t \subseteq DOMAIN u /\ Len(t) + 1 \in DOMAIN u /\ Len(t) + 1 \notin DOMAIN t
      BY <3>1
    <3>4. ToSet(u) = ToSet(t) \cup {x}
      BY <3>1, <3>2, <3>3 DEF ToSet
    <3>5. IsInjective(s) => IsInjective(u)
      <4> SUFFICES ASSUME IsInjective(s), NEW i \in DOMAIN u, NEW j \in DOMAIN u, u[i] = u[j] PROVE i = j
        BY DEF IsInjective
      <4>1. \A k \in DOMAIN t : t[k] # x
        BY <2>1, <2>4 DEF ToSet
      <4> QED
        BY <2>1, <3>1, <3>2, <4>1 DEF IsInjective
    <3>6. ToSet(u) = first(n + 1) \ gone
      BY <2>1, <2>3, <2>6, <3>4
    <3> QED
      BY <2>2, <2>6, <3>1, <3>5, <3>6 DEF u
  <2> QED
    BY <2>5, <2>6
<1>6. l \in G
  <2> HIDE DEF G
  <2> QED
    BY <1>1, <1>4, <1>5, SetInduction
<1>7. first(l) = ToSet(s)
  BY <1>1 DEF ToSet
<1> QED
  BY <1>1, <1>2, <1>6, <1>7

LEMMA FirstOnesIn ==
  ASSUME NEW S, NEW s \in Seq(S)
  PROVE  FirstOnes(s) \in Seq(S) /\ ToSet(FirstOnes(s)) = ToSet(s) /\ IsInjective(FirstOnes(s))
<1> DEFINE l == Len(s)
           all == [i \in DOMAIN s |-> i]
           again == {j \in DOMAIN s : \E i \in 1 .. j - 1 : s[i] = s[j]}
           places == Without(all, again)
           n == Len(places)
           t == [k \in DOMAIN places |-> s[places[k]]]
<1>1. l \in Nat /\ DOMAIN s = 1 .. l /\ \A i \in 1 .. l : s[i] \in S
  BY Points
<1>2. all \in Seq(Nat) /\ Increasing(all) /\ ToSet(all) = 1 .. l
  <2>1. all = [i \in 1 .. l |-> all[i]] /\ \A i \in 1 .. l : all[i] = i
    BY <1>1
  <2>2. all \in Seq(Nat) /\ DOMAIN all = 1 .. l
    BY <1>1, <2>1, ByPoints
  <2> HIDE DEF all
  <2> QED
    BY <1>1, <2>1, <2>2 DEF Increasing, ToSet
<1>3. places \in Seq(Nat) /\ Increasing(places) /\ ToSet(places) = (1 .. l) \ again
  BY <1>2, WithoutFacts
<1> HIDE DEF places, all
<1>4. n \in Nat /\ DOMAIN places = 1 .. n /\ \A k \in 1 .. n : places[k] \in (1 .. l) \ again
  <2>1. n \in Nat /\ DOMAIN places = 1 .. n
    BY <1>3, Points
  <2> QED
    BY <1>3, <2>1 DEF ToSet
<1>5. t \in Seq(S) /\ DOMAIN t = 1 .. n /\ \A k \in 1 .. n : t[k] = s[places[k]]
  <2>1. \A k \in 1 .. n : t[k] = s[places[k]] /\ t[k] \in S
    BY <1>1, <1>4
  <2>2. t = [k \in 1 .. n |-> t[k]]
    BY <1>4
  <2> HIDE DEF t
  <2> QED
    BY <1>4, <2>1, <2>2, ByPoints
<1> HIDE DEF t, n, l
<1>6. IsInjective(t)
  <2> SUFFICES ASSUME NEW j \in 1 .. n, NEW k \in 1 .. n, j < k PROVE t[j] # t[k]
    <3>1. n \in Nat
      BY <1>4
    <3>2. \A j, k \in 1 .. n : j # k => j < k \/ k < j
      BY <3>1
    <3> QED
      BY <1>5, <3>2 DEF IsInjective
  <2>1. places[j] < places[k] /\ places[j] \in 1 .. l /\ places[k] \in 1 .. l /\ places[k] \notin again
    BY <1>3, <1>4 DEF Increasing
  <2>2. places[j] \in 1 .. places[k] - 1
    BY <1>1, <2>1
  <2>3. s[places[j]] # s[places[k]]
    BY <1>1, <2>1, <2>2
  <2> QED
    BY <1>5, <2>3
<1>7. ToSet(t) \subseteq ToSet(s)
  BY <1>1, <1>4, <1>5 DEF ToSet
<1>8. ASSUME NEW x \in ToSet(s) PROVE x \in ToSet(t)
  <2> DEFINE T == {i \in 1 .. l : s[i] = x}
  <2>1. T \subseteq Nat /\ T # {}
    BY <1>1, <1>8 DEF ToSet
  <2>2. PICK m \in T : \A i \in T : m <= i
    BY <2>1, Least
  <2>3. m \in 1 .. l /\ s[m] = x
    BY <2>2
  <2>4. m \notin again
    <3> SUFFICES ASSUME NEW i \in 1 .. m - 1, s[i] = s[m] PROVE FALSE
      BY <1>1, <2>3
    <3>1. i \in 1 .. l /\ i < m
      BY <1>1, <2>3
    <3>2. i \in T
      BY <2>3, <3>1
    <3> QED
      BY <1>1, <2>2, <2>3, <3>1, <3>2
  <2>5. PICK k \in 1 .. n : places[k] = m
    BY <1>3, <1>4, <2>3, <2>4 DEF ToSet
  <2> QED
    BY <1>5, <2>3, <2>5 DEF ToSet
<1>9. FirstOnes(s) = t
  BY DEF FirstOnes, t, places, all
<1> QED
  BY <1>5, <1>6, <1>7, <1>8, <1>9

(* A sequence without repetitions of one value, or of none.                *)
LEMMA OnlyOne ==
  ASSUME NEW S, NEW s \in Seq(S), IsInjective(s)
  PROVE  /\ ToSet(s) = {} => s = <<>>
         /\ \A x : ToSet(s) = {x} => s = <<x>>
<1>1. Len(s) \in Nat /\ DOMAIN s = 1 .. Len(s) /\ \A i \in DOMAIN s : s[i] \in ToSet(s)
  BY Points DEF ToSet
<1>2. ASSUME ToSet(s) = {} PROVE s = <<>>
  <2>1. Len(s) = 0
    <3>1. ~(1 \in DOMAIN s)
      BY <1>1, <1>2
    <3> QED
      BY <1>1, <3>1
  <2> QED
    BY <2>1, EmptySeq
<1>3. ASSUME NEW x, ToSet(s) = {x} PROVE s = <<x>>
  <2>1. \A i, j \in DOMAIN s : i = j /\ s[i] = x
    BY <1>1, <1>3 DEF IsInjective
  <2>2. 1 \in DOMAIN s
    <3>1. DOMAIN s # {}
      BY <1>3 DEF ToSet
    <3> QED
      BY <1>1, <3>1
  <2>3. Len(s) = 1
    <3>1. Len(s) \in DOMAIN s
      BY <1>1, <2>2
    <3> QED
      BY <2>1, <2>2, <3>1
  <2>4. s[1] = x
    BY <2>1, <2>2
  <2>5. x \in S
    BY <2>2, <2>4, Points
  <2> DEFINE t == <<x>>
  <2>6. t \in Seq(S) /\ Len(t) = 1 /\ t[1] = x
    BY <2>5
  <2> HIDE DEF t
  <2>7. \A i \in 1 .. Len(s) : s[i] = t[i]
    BY <1>1, <2>1, <2>2, <2>3, <2>4, <2>6
  <2>8. s = t
    BY <2>3, <2>6, <2>7, SeqEqual
  <2> QED
    BY <2>8 DEF t
<1> QED
  BY <1>2, <1>3

-----------------------------------------------------------------------------
(* Types.                                                                  *)

Frames == [call : Nat, id : Nat]
States == {"open", "closing", "closed"}
Publisher == [part : Partitions, conn : Nat, id : Nat, queue : Seq(Frames), state : States]
Connection == [part : Partitions, up : BOOLEAN, frames : Seq(Frames)]
Query == [type : {"route"}, call : Nat, key : Keys] \cup [type : {"sequence"}, call : Nat, part : Partitions]
Call ==
  [op : Sends \cup {"batch", "close"}, keys : Seq(Keys), n : Nat, ready : BOOLEAN, conn : Nat,
   parts : Seq(Partitions), todo : Seq(Partitions), at : Awaiting \cup {"done", "failed"}]

TypeOK ==
  /\ strategy \in {"hash", "key"} /\ plan \in Plan
  /\ binding \in [Keys -> Partitions \cup {0}]
  /\ strategy = "hash" => binding \in [Keys -> Partitions]
  /\ cache \in [Keys -> Partitions \cup {0}]
  /\ publishers \in [Partitions -> Nat]
  /\ made \in Seq(Publisher) /\ conns \in Seq(Connection)
  /\ locator \in Seq(Query) /\ calls \in Seq(Call)
  /\ last \in [Partitions -> Int] /\ log \in [Partitions -> Seq(Nat)]
  /\ discarded \subseteq Partitions \X Nat /\ overtaken \in BOOLEAN
  /\ used \in [Events -> Nat]

LEMMA FrameFacts ==
  ASSUME NEW c \in Nat, NEW n \in Nat
  PROVE  /\ Frame(c, n) \in Frames /\ Frame(c, n).call = c /\ Frame(c, n).id = n
         /\ CloseFrame(n) \in Frames /\ CloseFrame(n).call = 0 /\ CloseFrame(n).id = n
BY DEF Frame, CloseFrame, Frames

LEMMA PublisherFacts ==
  ASSUME NEW x \in Publisher
  PROVE  /\ x.part \in Partitions /\ x.conn \in Nat /\ x.id \in Nat /\ x.queue \in Seq(Frames)
         /\ x.state \in States
BY DEF Publisher

(* The changes of a record's fields that occur.                            *)
Renumbered(x, n, q) == [x EXCEPT !.id = n, !.queue = q]
Stopped(x, q, s) == [x EXCEPT !.queue = q, !.state = s]
Writes(x, s) == [x EXCEPT !.frames = s]
Ends(x) == [x EXCEPT !.up = FALSE, !.frames = <<>>]
Found(x, t, a) == [x EXCEPT !.ready = TRUE, !.todo = t, !.at = a]
Looks(x, t, a) == [x EXCEPT !.todo = t, !.at = a]
Fails(x) == [x EXCEPT !.at = "failed"]
Knows(x, q) == [x EXCEPT !.parts = q]
Taught(x, q, t) == [x EXCEPT !.parts = q, !.todo = t]
Querying(x, n) == [x EXCEPT !.at = "querying", !.conn = n]

LEMMA PublisherNumbers ==
  ASSUME NEW x \in Publisher, NEW q \in Seq(Frames), NEW n \in Nat, NEW y,
         y = Renumbered(x, n, q)
  PROVE  /\ y \in Publisher /\ y.part = x.part /\ y.conn = x.conn /\ y.state = x.state
         /\ y.queue = q /\ y.id = n
<1> DEFINE Q == Seq(Frames)
<1>1. Publisher = [part : Partitions, conn : Nat, id : Nat, queue : Q, state : States] /\ q \in Q
  BY DEF Publisher
<1> HIDE DEF Q
<1> QED
  BY <1>1 DEF Renumbered

LEMMA PublisherStops ==
  ASSUME NEW x \in Publisher, NEW q \in Seq(Frames), NEW s \in States, NEW y,
         y = Stopped(x, q, s)
  PROVE  /\ y \in Publisher /\ y.part = x.part /\ y.conn = x.conn /\ y.state = s
         /\ y.queue = q /\ y.id = x.id
<1> DEFINE Q == Seq(Frames)
<1>1. Publisher = [part : Partitions, conn : Nat, id : Nat, queue : Q, state : States] /\ q \in Q
  BY DEF Publisher
<1> HIDE DEF Q
<1> QED
  BY <1>1 DEF Stopped

LEMMA ConnectionFacts ==
  ASSUME NEW x \in Connection
  PROVE  x.part \in Partitions /\ x.up \in BOOLEAN /\ x.frames \in Seq(Frames)
BY DEF Connection

LEMMA ConnectionWrites ==
  ASSUME NEW x \in Connection, NEW s \in Seq(Frames), NEW y, y = Writes(x, s)
  PROVE  y \in Connection /\ y.part = x.part /\ (y.up <=> x.up) /\ y.frames = s
<1> DEFINE Q == Seq(Frames)
<1>1. Connection = [part : Partitions, up : BOOLEAN, frames : Q] /\ s \in Q
  BY DEF Connection
<1> HIDE DEF Q
<1> QED
  BY <1>1 DEF Writes

LEMMA ConnectionEnds ==
  ASSUME NEW x \in Connection, NEW y, y = Ends(x)
  PROVE  y \in Connection /\ y.part = x.part /\ ~y.up /\ y.frames = <<>>
<1> DEFINE Q == Seq(Frames)
<1>1. Connection = [part : Partitions, up : BOOLEAN, frames : Q] /\ <<>> \in Q
  BY DEF Connection
<1> HIDE DEF Q
<1> QED
  BY <1>1 DEF Ends

LEMMA NewConnection ==
  ASSUME NEW p \in Partitions, NEW y, y = [part |-> p, up |-> TRUE, frames |-> <<>>]
  PROVE  y \in Connection /\ y.part = p /\ y.up /\ y.frames = <<>>
BY DEF Connection

LEMMA NewPublisher ==
  ASSUME NEW p \in Partitions, NEW k \in Nat, last \in [Partitions -> Int], NEW y, y = initPublisher(p, k)
  PROVE  /\ y \in Publisher /\ y.part = p /\ y.conn = k /\ y.queue = <<>> /\ y.state = "open"
         /\ last[p] <= y.id
BY DEF Publisher, initPublisher, States

LEMMA CallFacts ==
  ASSUME NEW x \in Call
  PROVE  /\ x.op \in Sends \cup {"batch", "close"} /\ x.keys \in Seq(Keys) /\ x.n \in Nat
         /\ x.ready \in BOOLEAN /\ x.conn \in Nat /\ x.parts \in Seq(Partitions)
         /\ x.todo \in Seq(Partitions) /\ x.at \in Awaiting \cup {"done", "failed"}
         /\ "routing" \in Awaiting /\ "declaring" \in Awaiting /\ "querying" \in Awaiting
         /\ "closing" \in Awaiting /\ "done" \notin Awaiting /\ "failed" \notin Awaiting
BY DEF Call, Awaiting

(* The answers a call gets change these of its fields only.                *)
Same(x, y) == x.op = y.op /\ x.keys = y.keys /\ x.n = y.n
LEMMA CallFinds ==
  ASSUME NEW x \in Call, NEW t \in Seq(Partitions),
         NEW a \in Awaiting \cup {"done", "failed"}, NEW y, y = Found(x, t, a)
  PROVE  /\ y \in Call /\ Same(y, x) /\ y.ready /\ y.todo = t /\ y.at = a
         /\ y.conn = x.conn /\ y.parts = x.parts
<1> DEFINE Q == Seq(Partitions)
           K == Seq(Keys)
<1>1. Call = [op : Sends \cup {"batch", "close"}, keys : K, n : Nat, ready : BOOLEAN, conn : Nat,
              parts : Q, todo : Q, at : Awaiting \cup {"done", "failed"}] /\ t \in Q
  BY DEF Call
<1> HIDE DEF Q, K
<1> QED
  BY <1>1 DEF Same, Found

LEMMA CallLooks ==
  ASSUME NEW x \in Call, NEW t \in Seq(Partitions),
         NEW a \in Awaiting \cup {"done", "failed"}, NEW y, y = Looks(x, t, a)
  PROVE  /\ y \in Call /\ Same(y, x) /\ (y.ready <=> x.ready) /\ y.todo = t /\ y.at = a
         /\ y.conn = x.conn /\ y.parts = x.parts
<1> DEFINE Q == Seq(Partitions)
           K == Seq(Keys)
<1>1. Call = [op : Sends \cup {"batch", "close"}, keys : K, n : Nat, ready : BOOLEAN, conn : Nat,
              parts : Q, todo : Q, at : Awaiting \cup {"done", "failed"}] /\ t \in Q
  BY DEF Call
<1> HIDE DEF Q, K
<1> QED
  BY <1>1 DEF Same, Looks

LEMMA CallLearns ==
  ASSUME NEW x \in Call, NEW q \in Seq(Partitions), NEW t \in Seq(Partitions), NEW y,
         y = Taught(x, q, t)
  PROVE  /\ y \in Call /\ Same(y, x) /\ y.parts = q /\ y.todo = t /\ (y.ready <=> x.ready)
         /\ y.conn = x.conn /\ y.at = x.at
<1> DEFINE Q == Seq(Partitions)
           K == Seq(Keys)
<1>1. Call = [op : Sends \cup {"batch", "close"}, keys : K, n : Nat, ready : BOOLEAN, conn : Nat,
              parts : Q, todo : Q, at : Awaiting \cup {"done", "failed"}] /\ t \in Q /\ q \in Q
  BY DEF Call
<1> HIDE DEF Q, K
<1> QED
  BY <1>1 DEF Same, Taught

LEMMA CallDeclares ==
  ASSUME NEW x \in Call, NEW n \in Nat, NEW y, y = Querying(x, n)
  PROVE  /\ y \in Call /\ Same(y, x) /\ (y.ready <=> x.ready) /\ y.todo = x.todo /\ y.at = "querying"
         /\ y.conn = n /\ y.parts = x.parts
<1> DEFINE Q == Seq(Partitions)
           K == Seq(Keys)
<1>1. Call = [op : Sends \cup {"batch", "close"}, keys : K, n : Nat, ready : BOOLEAN, conn : Nat,
              parts : Q, todo : Q, at : Awaiting \cup {"done", "failed"}] /\ "querying" \in Awaiting
  BY DEF Call, Awaiting
<1> HIDE DEF Q, K
<1> QED
  BY <1>1 DEF Same, Querying

LEMMA CallFails ==
  ASSUME NEW x \in Call, NEW y, y = Fails(x)
  PROVE  /\ y \in Call /\ Same(y, x) /\ (y.ready <=> x.ready) /\ y.todo = x.todo /\ y.at = "failed"
         /\ y.conn = x.conn /\ y.parts = x.parts
<1> DEFINE Q == Seq(Partitions)
           K == Seq(Keys)
<1>1. Call = [op : Sends \cup {"batch", "close"}, keys : K, n : Nat, ready : BOOLEAN, conn : Nat,
              parts : Q, todo : Q, at : Awaiting \cup {"done", "failed"}]
  BY DEF Call, Awaiting
<1> HIDE DEF Q, K
<1> QED
  BY <1>1 DEF Same, Fails

LEMMA CallKnows ==
  ASSUME NEW x \in Call, NEW q \in Seq(Partitions), NEW y, y = Knows(x, q)
  PROVE  /\ y \in Call /\ Same(y, x) /\ (y.ready <=> x.ready) /\ y.todo = x.todo /\ y.at = x.at
         /\ y.conn = x.conn /\ y.parts = q
<1> DEFINE Q == Seq(Partitions)
           K == Seq(Keys)
<1>1. Call = [op : Sends \cup {"batch", "close"}, keys : K, n : Nat, ready : BOOLEAN, conn : Nat,
              parts : Q, todo : Q, at : Awaiting \cup {"done", "failed"}] /\ q \in Q
  BY DEF Call, Awaiting
<1> HIDE DEF Q, K
<1> QED
  BY <1>1 DEF Same, Knows

-----------------------------------------------------------------------------
(* Frames in a row.                                                        *)

Has(s, c) == \E i \in DOMAIN s : s[i].call = c
Distinct(s) == \A i, j \in DOMAIN s : i # j /\ s[i].call = s[j].call => s[i].call = 0

(* f comes before g; X are the calls whose ids must rise.                  *)
Before(f, g, X) == f.call # 0 /\ g.call # 0 => f.call < g.call /\ (g.call \in X => f.id < g.id)
InOrder(s, X) == \A i, j \in DOMAIN s : i < j => Before(s[i], s[j], X)
Ahead(s, t, X) == \A i \in DOMAIN s, j \in DOMAIN t : Before(s[i], t[j], X)

(* Each element of t is one of s.                                          *)
Of(t, s) == \A j \in DOMAIN t : \E i \in DOMAIN s : t[j] = s[i]

LEMMA OneMore ==
  ASSUME NEW s \in Seq(Frames), NEW f \in Frames
  PROVE  /\ Append(s, f) \in Seq(Frames)
         /\ \A c : Has(Append(s, f), c) <=> Has(s, c) \/ c = f.call
         /\ Distinct(s) /\ (f.call # 0 => ~Has(s, f.call)) => Distinct(Append(s, f))
         /\ \A X : InOrder(s, X) /\ (\A i \in DOMAIN s : Before(s[i], f, X)) => InOrder(Append(s, f), X)
         /\ \A i \in DOMAIN Append(s, f) : Append(s, f)[i] = f \/ \E j \in DOMAIN s : Append(s, f)[i] = s[j]
<1> DEFINE t == Append(s, f)
           l == Len(s)
<1>1. /\ t \in Seq(Frames) /\ l \in Nat /\ DOMAIN s = 1 .. l /\ DOMAIN t = 1 .. l + 1
      /\ t[l + 1] = f /\ \A i \in DOMAIN s : t[i] = s[i]
  BY Appended
<1> HIDE DEF t, l
<1>2. /\ \A i \in DOMAIN t : i \in DOMAIN s \/ i = l + 1
      /\ \A i \in DOMAIN s : i \in DOMAIN t /\ i # l + 1 /\ i < l + 1
      /\ l + 1 \in DOMAIN t
  BY <1>1
<1>3. \A c : Has(t, c) <=> Has(s, c) \/ c = f.call
  BY <1>1, <1>2 DEF Has
<1>4. ASSUME Distinct(s), f.call # 0 => ~Has(s, f.call) PROVE Distinct(t)
  <2> SUFFICES ASSUME NEW i \in DOMAIN t, NEW j \in DOMAIN t, i # j, t[i].call = t[j].call PROVE t[i].call = 0
    BY DEF Distinct
  <2>1. CASE i \in DOMAIN s /\ j \in DOMAIN s
    BY <1>1, <1>4, <2>1 DEF Distinct
  <2>2. CASE i = l + 1 \/ j = l + 1
    BY <1>1, <1>2, <1>4, <2>2 DEF Has
  <2> QED
    BY <1>2, <2>1, <2>2
<1>5. ASSUME NEW X, InOrder(s, X), \A i \in DOMAIN s : Before(s[i], f, X) PROVE InOrder(t, X)
  <2> SUFFICES ASSUME NEW i \in DOMAIN t, NEW j \in DOMAIN t, i < j PROVE Before(t[i], t[j], X)
    BY DEF InOrder
  <2>1. i \in DOMAIN s
    BY <1>1
  <2>2. CASE j \in DOMAIN s
    BY <1>1, <1>5, <2>1, <2>2 DEF InOrder
  <2>3. CASE j = l + 1
    BY <1>1, <1>5, <2>1, <2>3
  <2> QED
    BY <1>2, <2>2, <2>3
<1>6. \A i \in DOMAIN t : t[i] = f \/ \E j \in DOMAIN s : t[i] = s[j]
  BY <1>1, <1>2
<1> QED
  BY <1>1, <1>3, <1>4, <1>5, <1>6 DEF t

LEMMA AllMore ==
  ASSUME NEW s \in Seq(Frames), NEW t \in Seq(Frames)
  PROVE  /\ s \o t \in Seq(Frames)
         /\ \A c : Has(s \o t, c) <=> Has(s, c) \/ Has(t, c)
         /\ Distinct(s) /\ Distinct(t) /\ (\A c : Has(s, c) /\ Has(t, c) => c = 0) => Distinct(s \o t)
         /\ \A X : InOrder(s, X) /\ InOrder(t, X) /\ Ahead(s, t, X) => InOrder(s \o t, X)
         /\ \A i \in DOMAIN (s \o t) : \/ \E j \in DOMAIN s : (s \o t)[i] = s[j]
                                       \/ \E j \in DOMAIN t : (s \o t)[i] = t[j]
<1> DEFINE u == s \o t
           l == Len(s)
<1>1. /\ u \in Seq(Frames) /\ l \in Nat /\ DOMAIN s = 1 .. l /\ Len(t) \in Nat /\ DOMAIN t = 1 .. Len(t)
      /\ \A i \in DOMAIN s : i \in DOMAIN u /\ u[i] = s[i]
      /\ \A j \in DOMAIN t : l + j \in DOMAIN u /\ u[l + j] = t[j]
      /\ \A i \in DOMAIN u : i \in DOMAIN s \/ \E j \in DOMAIN t : i = l + j
  BY Joined
<1> HIDE DEF u, l
<1>2. \A c : Has(u, c) <=> Has(s, c) \/ Has(t, c)
  BY <1>1 DEF Has
<1>3. ASSUME Distinct(s), Distinct(t), \A c : Has(s, c) /\ Has(t, c) => c = 0 PROVE Distinct(u)
  <2> SUFFICES ASSUME NEW i \in DOMAIN u, NEW j \in DOMAIN u, i # j, u[i].call = u[j].call PROVE u[i].call = 0
    BY DEF Distinct
  <2>1. CASE i \in DOMAIN s /\ j \in DOMAIN s
    BY <1>1, <1>3, <2>1 DEF Distinct
  <2>2. ASSUME NEW a \in DOMAIN s, NEW b \in DOMAIN t, s[a].call = t[b].call PROVE s[a].call = 0
    BY <1>3, <2>2 DEF Has
  <2>3. ASSUME NEW a \in DOMAIN t, NEW b \in DOMAIN t, i = l + a, j = l + b PROVE u[i].call = 0
    <3>1. a # b /\ u[i] = t[a] /\ u[j] = t[b]
      BY <1>1, <2>3
    <3> QED
      BY <1>3, <3>1 DEF Distinct
  <2> QED
    BY <1>1, <2>1, <2>2, <2>3
<1>4. ASSUME NEW X, InOrder(s, X), InOrder(t, X), Ahead(s, t, X) PROVE InOrder(u, X)
  <2> SUFFICES ASSUME NEW i \in DOMAIN u, NEW j \in DOMAIN u, i < j PROVE Before(u[i], u[j], X)
    BY DEF InOrder
  <2>1. CASE i \in DOMAIN s /\ j \in DOMAIN s
    BY <1>1, <1>4, <2>1 DEF InOrder
  <2>2. ASSUME i \in DOMAIN s, NEW b \in DOMAIN t, j = l + b PROVE Before(u[i], u[j], X)
    BY <1>1, <1>4, <2>2 DEF Ahead
  <2>3. ASSUME NEW a \in DOMAIN t, NEW b \in DOMAIN t, i = l + a, j = l + b PROVE Before(u[i], u[j], X)
    <3>1. a < b /\ u[i] = t[a] /\ u[j] = t[b]
      BY <1>1, <2>3
    <3> QED
      BY <1>4, <3>1 DEF InOrder
  <2>4. ~(j \in DOMAIN s /\ \E a \in DOMAIN t : i = l + a)
    BY <1>1
  <2> QED
    BY <1>1, <2>1, <2>2, <2>3, <2>4
<1>5. \A i \in DOMAIN u : \/ \E j \in DOMAIN s : u[i] = s[j]
                          \/ \E j \in DOMAIN t : u[i] = t[j]
  BY <1>1
<1> QED
  BY <1>1, <1>2, <1>3, <1>4, <1>5 DEF u

LEMMA OneLess ==
  ASSUME NEW s \in Seq(Frames), s # <<>>
  PROVE  /\ Head(s) \in Frames /\ Tail(s) \in Seq(Frames)
         /\ \A c : Has(s, c) <=> c = Head(s).call \/ Has(Tail(s), c)
         /\ Distinct(s) => Distinct(Tail(s)) /\ (Head(s).call # 0 => ~Has(Tail(s), Head(s).call))
         /\ \A X : InOrder(s, X) => /\ InOrder(Tail(s), X)
                                    /\ \A j \in DOMAIN Tail(s) : Before(Head(s), Tail(s)[j], X)
         /\ Of(Tail(s), s) /\ 1 \in DOMAIN s /\ Head(s) = s[1]
<1> DEFINE t == Tail(s)
           h == Head(s)
           l == Len(s)
<1>1. /\ h = s[1] /\ 1 \in DOMAIN s /\ h \in Frames /\ t \in Seq(Frames) /\ l \in Nat \ {0}
      /\ DOMAIN s = 1 .. l /\ DOMAIN t = 1 .. l - 1
      /\ \A i \in DOMAIN t : i + 1 \in DOMAIN s /\ t[i] = s[i + 1]
  BY Beheaded
<1> HIDE DEF t, h, l
<1>2. \A i \in DOMAIN s : i = 1 \/ (i - 1 \in DOMAIN t /\ i = (i - 1) + 1)
  BY <1>1
<1>3. \A c : Has(s, c) <=> c = h.call \/ Has(t, c)
  BY <1>1, <1>2 DEF Has
<1>4. ASSUME Distinct(s) PROVE Distinct(t) /\ (h.call # 0 => ~Has(t, h.call))
  <2>1. \A i, j \in DOMAIN t : i # j => i + 1 # j + 1
    BY <1>1
  <2>2. \A i \in DOMAIN t : i + 1 # 1
    BY <1>1
  <2> QED
    BY <1>1, <1>4, <2>1, <2>2 DEF Distinct, Has
<1>5. ASSUME NEW X, InOrder(s, X) PROVE InOrder(t, X) /\ \A j \in DOMAIN t : Before(h, t[j], X)
  <2>1. \A i, j \in DOMAIN t : i < j => i + 1 < j + 1
    BY <1>1
  <2>2. \A i \in DOMAIN t : 1 < i + 1
    BY <1>1
  <2> QED
    BY <1>1, <1>5, <2>1, <2>2 DEF InOrder
<1>6. Of(t, s)
  BY <1>1 DEF Of
<1> QED
  BY <1>1, <1>3, <1>4, <1>5, <1>6 DEF t, h

LEMMA NoFrames ==
  /\ <<>> \in Seq(Frames) /\ Distinct(<<>>) /\ \A c : ~Has(<<>>, c)
  /\ \A X : InOrder(<<>>, X) /\ \A s : Ahead(s, <<>>, X) /\ Ahead(<<>>, s, X)
<1>1. DOMAIN <<>> = {} /\ <<>> \in Seq(Frames)
  OBVIOUS
<1> QED
  BY <1>1 DEF Distinct, Has, InOrder, Ahead

-----------------------------------------------------------------------------
(* What a step does: the messages a call hands over.                       *)

(* The publisher x takes a message of call c, or leaves it.                *)
Numbers(op, old, new, id) ==
  \/ op = "send" /\ new = old + 1 /\ id = new
  \/ op = "numbered" /\ old <= new /\ id <= new
  \/ op = "basic" /\ old = new
Takes(c, op, x, y) ==
  \E f \in Frames : /\ f.call = c /\ y.queue = Append(x.queue, f) /\ Numbers(op, x.id, y.id, f.id)
SamePlace(x, y) == x.part = y.part /\ x.conn = y.conn /\ x.state = y.state

(* The publishers all, of which those of the partitions in P, in the map   *)
(* pubs, get messages of call c.                                           *)
Handing(c, op, P, pubs, all) ==
  /\ P \subseteq Partitions
  /\ made' \in Seq(Publisher) /\ DOMAIN made' = DOMAIN all
  /\ conns' \in Seq(Connection) /\ DOMAIN conns' = DOMAIN conns /\ Len(conns') = Len(conns)
  /\ overtaken' \in BOOLEAN /\ (overtaken => overtaken')
  /\ \A m \in DOMAIN all : SamePlace(all[m], made'[m])
  /\ \A k \in DOMAIN conns : conns'[k].part = conns[k].part /\ (conns'[k].up <=> conns[k].up)
  /\ \/ /\ op = "batch" /\ made' = all
        /\ ~overtaken' => \A p \in P : all[pubs[p]].queue = <<>>
        /\ \A k \in DOMAIN conns :
             \/ conns'[k] = conns[k]
             \/ \E p \in P : /\ conns[k].up /\ all[pubs[p]].conn = k
                             /\ conns'[k].frames = Append(conns[k].frames, Frame(c, all[pubs[p]].id))
     \/ /\ op # "batch" /\ UNCHANGED <<conns, overtaken>>
        /\ \A m \in DOMAIN all :
             made'[m] = all[m] \/ \E p \in P : pubs[p] = m /\ Takes(c, op, all[m], made'[m])

LEMMA AcceptIs ==
  ASSUME NEW x \in Publisher, NEW call \in Call, NEW c \in Nat
  PROVE  /\ accept(x, c, call) \in Publisher /\ SamePlace(x, accept(x, c, call))
         /\ accept(x, c, call) = x \/ Takes(c, call.op, x, accept(x, c, call))
<1>1. x.queue \in Seq(Frames) /\ x.id \in Nat /\ call.n \in Nat
  BY PublisherFacts, CallFacts
<1>2. ASSUME NEW n \in Nat, NEW id \in Nat, NEW op, Numbers(op, x.id, n, id),
             NEW y, y = Renumbered(x, n, Append(x.queue, Frame(c, id)))
      PROVE  y \in Publisher /\ SamePlace(x, y) /\ Takes(c, op, x, y)
  <2> DEFINE q == Append(x.queue, Frame(c, id))
  <2>1. Frame(c, id) \in Frames /\ Frame(c, id).call = c /\ Frame(c, id).id = id
    BY FrameFacts
  <2>2. q \in Seq(Frames)
    BY <1>1, <2>1, OneMore
  <2>3. y = Renumbered(x, n, q)
    BY <1>2
  <2> HIDE DEF q
  <2>4. y \in Publisher /\ SamePlace(x, y) /\ y.queue = q /\ y.id = n
    BY <2>2, <2>3, PublisherNumbers DEF SamePlace
  <2>5. Takes(c, op, x, y)
    BY <1>2, <2>1, <2>4 DEF Takes, q
  <2> QED
    BY <2>4, <2>5
<1>3. CASE call.op = "send" /\ x.state # "closed"
  <2>1. accept(x, c, call) = Renumbered(x, x.id + 1, Append(x.queue, Frame(c, x.id + 1)))
    BY <1>3 DEF accept, Renumbered
  <2>2. Numbers(call.op, x.id, x.id + 1, x.id + 1) /\ x.id + 1 \in Nat
    BY <1>1, <1>3 DEF Numbers
  <2> QED
    BY <1>2, <2>1, <2>2
<1>4. CASE call.op = "numbered" /\ x.state # "closed"
  <2> DEFINE n == IF call.n > x.id THEN call.n ELSE x.id
  <2>1. accept(x, c, call) = Renumbered(x, n, Append(x.queue, Frame(c, call.n)))
    BY <1>4 DEF accept, Renumbered
  <2>2. Numbers(call.op, x.id, n, call.n) /\ n \in Nat
    BY <1>1, <1>4 DEF Numbers
  <2> HIDE DEF n
  <2> QED
    BY <1>1, <1>2, <2>1, <2>2
<1>5. CASE call.op = "basic"
  <2>1. accept(x, c, call) = [x EXCEPT !.queue = Append(@, Frame(c, call.n))]
    BY <1>5 DEF accept
  <2>2. [x EXCEPT !.queue = Append(@, Frame(c, call.n))]
          = Renumbered(x, x.id, Append(x.queue, Frame(c, call.n)))
    BY DEF Publisher, Renumbered
  <2>3. Numbers(call.op, x.id, x.id, call.n)
    BY <1>5 DEF Numbers
  <2> QED
    BY <1>1, <1>2, <2>1, <2>2, <2>3
<1>6. CASE accept(x, c, call) = x
  BY <1>6 DEF SamePlace
<1> QED
  BY <1>3, <1>4, <1>5, <1>6 DEF accept

LEMMA HandIs ==
  ASSUME NEW c \in Nat, NEW call \in Call, NEW all \in Seq(Publisher), NEW pubs, NEW P \in SUBSET Partitions,
         \A p \in P : pubs[p] \in DOMAIN all, conns \in Seq(Connection), overtaken \in BOOLEAN,
         Hand(c, call, {pubs[p] : p \in P}, all)
  PROVE  Handing(c, call.op, P, pubs, all)
<1> DEFINE ms == {pubs[p] : p \in P}
           n == Len(all)
           l == Len(conns)
<1>1. /\ n \in Nat /\ DOMAIN all = 1 .. n /\ \A m \in DOMAIN all : all[m] \in Publisher
      /\ l \in Nat /\ DOMAIN conns = 1 .. l /\ \A k \in DOMAIN conns : conns[k] \in Connection
  BY Points
<1>2. CASE call.op = "batch"
  <2> DEFINE who(k) == CHOOSE m \in ms : all[m].conn = k
             new(k) == Append(conns[k].frames, Frame(c, all[who(k)].id))
             gets(k) == conns[k].up /\ \E m \in ms : all[m].conn = k
             f == [k \in DOMAIN conns |->
                    IF gets(k) THEN [conns[k] EXCEPT !.frames = new(k)] ELSE conns[k]]
  <2>1. made' = all /\ conns' = f /\ overtaken' = (overtaken \/ \E m \in ms : all[m].queue # <<>>)
    <3>1. conns' = [k \in DOMAIN conns |->
            IF conns[k].up /\ \E m \in ms : all[m].conn = k
            THEN [conns[k] EXCEPT !.frames = Append(@, Frame(c, all[CHOOSE m \in ms : all[m].conn = k].id))]
            ELSE conns[k]]
      BY <1>2 DEF Hand
    <3>2. ASSUME NEW k \in DOMAIN conns
          PROVE  [conns[k] EXCEPT !.frames = Append(@, Frame(c, all[CHOOSE m \in ms : all[m].conn = k].id))]
                   = [conns[k] EXCEPT !.frames = new(k)]
      OBVIOUS
    <3> QED
      BY <1>2, <3>1, <3>2 DEF Hand
  <2>2. ASSUME NEW k \in DOMAIN conns, gets(k)
        PROVE  /\ f[k] \in Connection /\ f[k].part = conns[k].part /\ (f[k].up <=> conns[k].up)
               /\ \E p \in P : /\ conns[k].up /\ all[pubs[p]].conn = k
                               /\ f[k].frames = Append(conns[k].frames, Frame(c, all[pubs[p]].id))
    <3>1. PICK p \in P : who(k) = pubs[p] /\ all[pubs[p]].conn = k
      BY <2>2
    <3>2. all[pubs[p]].id \in Nat /\ conns[k].frames \in Seq(Frames)
      BY <1>1, PublisherFacts, ConnectionFacts
    <3>3. new(k) = Append(conns[k].frames, Frame(c, all[pubs[p]].id)) /\ new(k) \in Seq(Frames)
      BY <3>1, <3>2, FrameFacts, OneMore
    <3>4. f[k] = Writes(conns[k], new(k))
      BY <2>2 DEF Writes
    <3>5. conns[k].up
      BY <2>2
    <3> HIDE DEF who, new, gets, f
    <3>6. /\ f[k] \in Connection /\ f[k].part = conns[k].part /\ (f[k].up <=> conns[k].up)
          /\ f[k].frames = new(k)
      <4>1. conns[k] \in Connection
        BY <1>1
      <4> QED
        BY <3>3, <3>4, <4>1, ConnectionWrites, ZenonT(30)
    <3> QED
      BY <3>1, <3>3, <3>5, <3>6
  <2>3. \A k \in DOMAIN conns : ~gets(k) => f[k] = conns[k]
    OBVIOUS
  <2>4. DOMAIN f = DOMAIN conns /\ f = [k \in 1 .. l |-> f[k]]
    BY <1>1
  <2> HIDE DEF who, new, gets, f
  <2>5. \A k \in 1 .. l : f[k] \in Connection
    BY <1>1, <2>2, <2>3
  <2>6. f \in Seq(Connection) /\ Len(f) = l
    BY <1>1, <2>4, <2>5, ByPoints
  <2>7. /\ made' \in Seq(Publisher) /\ DOMAIN made' = DOMAIN all
        /\ \A m \in DOMAIN all : SamePlace(all[m], made'[m])
    BY <2>1 DEF SamePlace
  <2>8. /\ conns' \in Seq(Connection) /\ DOMAIN conns' = DOMAIN conns /\ Len(conns') = Len(conns)
        /\ \A k \in DOMAIN conns : conns'[k].part = conns[k].part /\ (conns'[k].up <=> conns[k].up)
    BY <2>1, <2>2, <2>3, <2>4, <2>6
  <2>9. /\ overtaken' \in BOOLEAN /\ (overtaken => overtaken')
        /\ ~overtaken' => \A p \in P : all[pubs[p]].queue = <<>>
    BY <2>1
  <2>10. \A k \in DOMAIN conns :
             \/ conns'[k] = conns[k]
             \/ \E p \in P : /\ conns[k].up /\ all[pubs[p]].conn = k
                             /\ conns'[k].frames = Append(conns[k].frames, Frame(c, all[pubs[p]].id))
    BY <2>1, <2>2, <2>3
  <2> QED
    BY <1>2, <2>1, <2>7, <2>8, <2>9, <2>10 DEF Handing
<1>3. CASE call.op # "batch"
  <2> DEFINE f == [m \in DOMAIN all |-> IF m \in ms THEN accept(all[m], c, call) ELSE all[m]]
  <2>1. made' = f /\ UNCHANGED <<conns, overtaken>>
    BY <1>3 DEF Hand
  <2>2. \A m \in DOMAIN all : f[m] = all[m] \/ (m \in ms /\ f[m] = accept(all[m], c, call))
    OBVIOUS
  <2>3. DOMAIN f = DOMAIN all /\ f = [m \in 1 .. n |-> f[m]]
    BY <1>1
  <2> HIDE DEF f
  <2>4. ASSUME NEW m \in DOMAIN all
        PROVE  /\ f[m] \in Publisher /\ SamePlace(all[m], f[m])
               /\ f[m] = all[m] \/ \E p \in P : pubs[p] = m /\ Takes(c, call.op, all[m], f[m])
    <3>1. CASE f[m] = all[m]
      BY <1>1, <3>1 DEF SamePlace
    <3>2. CASE m \in ms /\ f[m] = accept(all[m], c, call)
      BY <1>1, <3>2, AcceptIs
    <3> QED
      BY <2>2, <3>1, <3>2
  <2>5. f \in Seq(Publisher)
    BY <1>1, <2>3, <2>4, ByPoints
  <2>6. \A k \in DOMAIN conns : conns'[k].part = conns[k].part /\ (conns'[k].up <=> conns[k].up)
    BY <2>1
  <2> QED
    BY <1>3, <2>1, <2>3, <2>4, <2>5, <2>6 DEF Handing
<1> QED
  BY <1>2, <1>3

LEMMA HandNone ==
  ASSUME NEW c, NEW op, NEW all \in Seq(Publisher), NEW pubs, made' = all, UNCHANGED <<conns, overtaken>>,
         conns \in Seq(Connection), overtaken \in BOOLEAN
  PROVE  Handing(c, op, {}, pubs, all)
BY Points DEF Handing, SamePlace

-----------------------------------------------------------------------------
(* What a step does: the partitions whose publishers a call finds.         *)

Bound(pubs, mm) == \A p \in Partitions : pubs[p] # 0 => pubs[p] \in DOMAIN mm

(* Calls and the partitions left to them.                                  *)
Tidy(x) ==
  /\ IsInjective(x.parts) /\ IsInjective(x.todo) /\ ToSet(x.todo) \subseteq ToSet(x.parts)
  /\ ~x.ready => x.op = "batch"

(* What becomes of a call: the publishers of P, all it had to find, take   *)
(* its messages, and it goes on as x.                                      *)
Gets(c, call, P, pubs, all, x) ==
  /\ Same(x, call) /\ x.parts = call.parts /\ Tidy(x)
  /\ (x.at = "declaring" /\ x.todo # <<>>) \/ (x.at = "done" /\ x.todo = <<>>)
  /\ call.ready => x.ready
  /\ ~x.ready => P = {}
  /\ ToSet(x.todo) \subseteq ToSet(call.parts) \ P /\ P \subseteq ToSet(call.parts)
  /\ call.ready => ToSet(x.todo) \cup P \subseteq ToSet(call.todo)
  /\ \A p \in P : pubs[p] \in DOMAIN all
  /\ Handing(c, x.op, P, pubs, all)
  /\ calls' = Put(c, x) /\ publishers' = pubs

(* The partition a call is at has no publisher, nor have the rest it needs.*)
Missing(x, pubs) ==
  x.at \in {"declaring", "querying"} =>
    /\ pubs[x.todo[1]] = 0
    /\ x.ready => \A q \in ToSet(x.todo) : pubs[q] = 0

LEMMA AbsentIs ==
  ASSUME NEW s \in Seq(Partitions), NEW pubs
  PROVE  /\ Absent(s, pubs) \in Seq(Partitions)
         /\ ToSet(Absent(s, pubs)) = {p \in ToSet(s) : pubs[p] = 0}
         /\ IsInjective(s) => IsInjective(Absent(s, pubs))
<1> DEFINE gone == {p \in Partitions : pubs[p] # 0}
<1>1. \A p \in ToSet(s) : p \in Partitions
  BY Points DEF ToSet
<1>2. Absent(s, pubs) = Without(s, gone)
  BY DEF Absent
<1>3. ToSet(s) \ gone = {p \in ToSet(s) : pubs[p] = 0}
  BY <1>1
<1> HIDE DEF gone
<1> QED
  BY <1>2, <1>3, WithoutIn

LEMMA FromAbsentIs ==
  ASSUME NEW s \in Seq(Partitions), NEW pubs
  PROVE  /\ FromAbsent(s, pubs) \in Seq(Partitions)
         /\ ToSet(FromAbsent(s, pubs)) \subseteq ToSet(s)
         /\ IsInjective(s) => IsInjective(FromAbsent(s, pubs))
         /\ FromAbsent(s, pubs) # <<>> => pubs[FromAbsent(s, pubs)[1]] = 0
<1> DEFINE absent == {i \in DOMAIN s : pubs[s[i]] = 0}
           n == Min(absent)
           t == SubSeq(s, n, Len(s))
<1>1. CASE absent = {}
  <2>1. FromAbsent(s, pubs) = <<>>
    BY <1>1 DEF FromAbsent
  <2>2. DOMAIN <<>> = {} /\ <<>> \in Seq(Partitions)
    OBVIOUS
  <2> QED
    BY <2>1, <2>2 DEF ToSet, IsInjective
<1>2. CASE absent # {}
  <2>1. FromAbsent(s, pubs) = t
    BY <1>2 DEF FromAbsent
  <2>2. n \in absent
    <3>1. absent \subseteq Nat
      BY Points
    <3>2. PICK m \in absent : \A k \in absent : m <= k
      BY <1>2, <3>1, Least
    <3> QED
      BY <3>2 DEF Min
  <2>3. n \in DOMAIN s /\ pubs[s[n]] = 0 /\ n \in Nat
    BY <2>2, Points
  <2> HIDE DEF n, absent
  <2>4. /\ t \in Seq(Partitions) /\ t[1] = s[n]
        /\ \A i \in DOMAIN t : n + i - 1 \in DOMAIN s /\ i \in Nat /\ t[i] = s[n + i - 1]
    BY <2>3, FromOn
  <2> HIDE DEF t
  <2>5. ToSet(t) \subseteq ToSet(s)
    BY <2>4 DEF ToSet
  <2>6. ASSUME IsInjective(s) PROVE IsInjective(t)
    <3> SUFFICES ASSUME NEW a \in DOMAIN t, NEW b \in DOMAIN t, t[a] = t[b] PROVE a = b
      BY DEF IsInjective
    <3>1. n + a - 1 = n + b - 1
      BY <2>4, <2>6 DEF IsInjective
    <3> QED
      BY <2>3, <2>4, <3>1, SMTT(30)
  <2> QED
    BY <2>1, <2>3, <2>4, <2>5, <2>6
<1> QED
  BY <1>1, <1>2

LEMMA GetPublisherIs ==
  ASSUME NEW c \in Nat, NEW call \in Call, NEW all \in Seq(Publisher), NEW pubs, Bound(pubs, all),
         conns \in Seq(Connection), overtaken \in BOOLEAN, Tidy(call), getPublisher(c, call, pubs, all)
  PROVE  \E P \in SUBSET Partitions, x \in Call : Gets(c, call, P, pubs, all, x) /\ Missing(x, pubs)
<1> DEFINE rest == FromAbsent(call.todo, pubs)
           ready == call.ready \/ rest = <<>>
           todo == IF call.ready THEN call.todo ELSE call.parts
           absent == Absent(todo, pubs)
           P == {q \in ToSet(todo) : pubs[q] # 0}
<1>1. /\ call.todo \in Seq(Partitions) /\ call.parts \in Seq(Partitions) /\ call.ready \in BOOLEAN
      /\ call.op # "batch" => call.ready
  BY CallFacts DEF Tidy
<1>2. todo \in Seq(Partitions) /\ IsInjective(todo) /\ ToSet(todo) \subseteq ToSet(call.parts)
  BY <1>1 DEF Tidy
<1>3. \A p \in ToSet(todo) : p \in Partitions
  BY <1>2, Points DEF ToSet
<1>4. /\ absent \in Seq(Partitions) /\ ToSet(absent) = {p \in ToSet(todo) : pubs[p] = 0}
      /\ IsInjective(absent)
  BY <1>2, AbsentIs
<1>5. /\ rest \in Seq(Partitions) /\ ToSet(rest) \subseteq ToSet(call.todo) /\ IsInjective(rest)
      /\ rest # <<>> => pubs[rest[1]] = 0
  BY <1>1, FromAbsentIs DEF Tidy
<1>6. /\ publishers' = pubs
      /\ \/ /\ ~ready
            /\ calls' = Put(c, [call EXCEPT !.todo = rest, !.at = "declaring"])
            /\ made' = all
            /\ UNCHANGED <<conns, overtaken>>
         \/ /\ ready
            /\ Hand(c, call, {pubs[p] : p \in P}, all)
            /\ calls' = Put(c, [call EXCEPT !.ready = TRUE, !.todo = absent,
                                            !.at = IF absent = <<>> THEN "done" ELSE "declaring"])
  BY DEF getPublisher
<1>7. "done" \in Awaiting \cup {"done", "failed"} /\ "declaring" \in Awaiting \cup {"done", "failed"}
  BY DEF Awaiting
<1> HIDE DEF rest, absent
<1>8. CASE ~ready
  <2> DEFINE x == Looks(call, rest, "declaring")
  <2>1. ~call.ready /\ rest # <<>>
    BY <1>8
  <2>2. [call EXCEPT !.todo = rest, !.at = "declaring"] = x
    BY DEF Looks
  <2>3. calls' = Put(c, x) /\ publishers' = pubs /\ made' = all /\ UNCHANGED <<conns, overtaken>>
    BY <1>6, <1>8, <2>2
  <2>4. /\ x \in Call /\ Same(x, call) /\ ~x.ready /\ x.todo = rest /\ x.at = "declaring"
        /\ x.parts = call.parts
    BY <1>5, <1>7, <2>1, CallLooks
  <2> HIDE DEF x
  <2>5. Handing(c, x.op, {}, pubs, all)
    BY <2>3, HandNone
  <2>6. Tidy(x)
    BY <1>1, <1>5, <2>1, <2>4 DEF Tidy, Same
  <2>7. Gets(c, call, {}, pubs, all, x)
    BY <1>5, <2>1, <2>3, <2>4, <2>5, <2>6 DEF Gets, Tidy
  <2>8. Missing(x, pubs)
    BY <1>5, <2>1, <2>4 DEF Missing
  <2> QED
    BY <2>4, <2>7, <2>8
<1>9. CASE ready
  <2> DEFINE a == IF absent = <<>> THEN "done" ELSE "declaring"
             x == Found(call, absent, a)
  <2>1. calls' = Put(c, x) /\ publishers' = pubs /\ Hand(c, call, {pubs[p] : p \in P}, all)
    <3> DEFINE r == ready
               b == P
               y == [call EXCEPT !.ready = TRUE, !.todo = absent, !.at = a]
    <3>1. \/ ~r
          \/ Hand(c, call, {pubs[p] : p \in b}, all) /\ calls' = Put(c, y)
      BY <1>6
    <3>2. y = x
      BY DEF Found
    <3> HIDE DEF P, y, x, absent
    <3> QED
      BY <1>6, <1>9, <3>1, <3>2
  <2>2. /\ x \in Call /\ Same(x, call) /\ x.ready /\ x.todo = absent /\ x.at = a
        /\ x.parts = call.parts
    BY <1>4, <1>7, CallFinds
  <2> HIDE DEF x
  <2>3. P \in SUBSET Partitions /\ \A p \in P : pubs[p] \in DOMAIN all
    BY <1>3 DEF Bound
  <2>4. P \subseteq ToSet(call.parts) /\ ToSet(absent) \subseteq ToSet(call.parts) \ P
    BY <1>2, <1>4
  <2>5. call.ready => ToSet(absent) \cup P \subseteq ToSet(call.todo)
    BY <1>4
  <2>6. absent # <<>> => absent[1] \in ToSet(absent)
    BY <1>4, Beheaded DEF ToSet
  <2>7. \A q \in ToSet(absent) : pubs[q] = 0
    BY <1>4
  <2> HIDE DEF P
  <2>8. Handing(c, call.op, P, pubs, all)
    BY <2>1, <2>3, HandIs
  <2>9. Tidy(x)
    BY <1>4, <2>2, <2>4 DEF Tidy
  <2>10. Gets(c, call, P, pubs, all, x)
    BY <2>1, <2>2, <2>3, <2>4, <2>5, <2>8, <2>9 DEF Gets, Same
  <2>11. Missing(x, pubs)
    BY <2>2, <2>6, <2>7 DEF Missing
  <2> QED
    BY <2>2, <2>3, <2>10, <2>11
<1> QED
  BY <1>8, <1>9

-----------------------------------------------------------------------------
(* What a step does to the calls, and to the requests on the locator.      *)

(* Call c, the next one or one of those there are, becomes x.              *)
OneCall(c, x) ==
  /\ calls' \in Seq(Call) /\ c \in Nat \ {0} /\ DOMAIN calls' = DOMAIN calls \cup {c}
  /\ calls'[c] = x /\ \A d \in DOMAIN calls : d # c => calls'[d] = calls[d]
  /\ Len(calls') = IF c \in DOMAIN calls THEN Len(calls) ELSE c
  /\ c \notin DOMAIN calls => c = Len(calls) + 1

LEMMA NextCall ==
  ASSUME calls \in Seq(Call), NEW x \in Call, calls' = Append(calls, x)
  PROVE  OneCall(Len(calls) + 1, x) /\ Len(calls) + 1 \notin DOMAIN calls
<1>1. /\ calls' \in Seq(Call) /\ Len(calls) \in Nat
      /\ Len(calls') = Len(calls) + 1
      /\ DOMAIN calls = 1 .. Len(calls) /\ DOMAIN calls' = 1 .. Len(calls) + 1
      /\ calls'[Len(calls) + 1] = x
      /\ \A i \in DOMAIN calls : calls'[i] = calls[i]
  BY Appended
<1>2. Len(calls) + 1 \notin DOMAIN calls
  BY <1>1
<1> QED
  BY <1>1, <1>2 DEF OneCall

LEMMA SomeCall ==
  ASSUME calls \in Seq(Call), NEW c \in DOMAIN calls, NEW x \in Call, calls' = [calls EXCEPT ![c] = x]
  PROVE  OneCall(c, x)
<1>1. Len(calls) \in Nat /\ DOMAIN calls = 1 .. Len(calls) /\ \A i \in DOMAIN calls : calls[i] \in Call
  BY Points
<1>2. /\ DOMAIN calls' = 1 .. Len(calls) /\ calls' = [i \in 1 .. Len(calls) |-> calls'[i]]
      /\ calls'[c] = x /\ \A d \in DOMAIN calls : d # c => calls'[d] = calls[d]
  BY <1>1
<1>3. \A i \in 1 .. Len(calls) : calls'[i] \in Call
  BY <1>1, <1>2
<1>4. calls' \in Seq(Call) /\ Len(calls') = Len(calls)
  BY <1>1, <1>2, <1>3, ByPoints
<1> QED
  BY <1>1, <1>2, <1>4 DEF OneCall

LEMMA PutIs ==
  ASSUME calls \in Seq(Call), NEW c \in DOMAIN calls \cup {Len(calls) + 1}, NEW x \in Call, calls' = Put(c, x)
  PROVE  OneCall(c, x)
<1>1. Len(calls) + 1 \notin DOMAIN calls
  BY Points
<1> QED
  BY <1>1, NextCall, SomeCall DEF Put

LEMMA CallsAre ==
  ASSUME calls \in Seq(Call)
  PROVE  /\ Len(calls) \in Nat /\ DOMAIN calls = 1 .. Len(calls) /\ Len(calls) + 1 \in Nat
         /\ \A c \in DOMAIN calls : c \in Nat /\ c # 0 /\ calls[c] \in Call
BY Points

LEMMA QueryFacts ==
  /\ \A c \in Nat, k \in Keys : /\ RouteQuery(c, k) \in Query /\ RouteQuery(c, k).type = "route"
                                /\ RouteQuery(c, k).call = c /\ RouteQuery(c, k).key = k
  /\ \A c \in Nat, p \in Partitions :
       /\ SequenceQuery(c, p) \in Query /\ SequenceQuery(c, p).type = "sequence"
       /\ SequenceQuery(c, p).call = c /\ SequenceQuery(c, p).part = p
  /\ \A q \in Query : /\ q.type \in {"route", "sequence"} /\ q.call \in Nat
                      /\ q.type = "route" => q.key \in Keys
                      /\ q.type = "sequence" => q.part \in Partitions
BY DEF Query, RouteQuery, SequenceQuery

(* What the requests on the locator say of their calls.                    *)
Fits(q, x) ==
  /\ q.type = "route" => x.at \in {"routing", "failed"}
  /\ q.type = "sequence" => x.at = "querying" /\ x.todo[1] = q.part
Alone(loc) ==
  \A i, j \in DOMAIN loc :
    i # j /\ loc[i].type = "sequence" /\ loc[j].type = "sequence" => loc[i].call # loc[j].call
Asked(loc, cs) ==
  (\A i \in DOMAIN loc : loc[i].call \in DOMAIN cs /\ Fits(loc[i], cs[loc[i].call])) /\ Alone(loc)

LEMMA AskedTail ==
  ASSUME NEW loc \in Seq(Query), loc # <<>>, NEW cs, Asked(loc, cs)
  PROVE  /\ Asked(Tail(loc), cs) /\ Tail(loc) \in Seq(Query) /\ Head(loc) \in Query
         /\ Head(loc).call \in DOMAIN cs /\ Fits(Head(loc), cs[Head(loc).call])
         /\ \A i \in DOMAIN Tail(loc) : i + 1 \in DOMAIN loc /\ i + 1 > 1 /\ Tail(loc)[i] = loc[i + 1]
         /\ Head(loc).type = "sequence" => \A i \in DOMAIN Tail(loc) : Tail(loc)[i].call # Head(loc).call
<1> DEFINE t == Tail(loc)
           h == Head(loc)
<1>1. /\ h = loc[1] /\ 1 \in DOMAIN loc /\ h \in Query /\ t \in Seq(Query) /\ Len(loc) \in Nat
      /\ DOMAIN loc = 1 .. Len(loc) /\ DOMAIN t = 1 .. Len(loc) - 1
      /\ \A i \in DOMAIN t : i + 1 \in DOMAIN loc /\ t[i] = loc[i + 1]
  BY Beheaded
<1> HIDE DEF t, h
<1>2. \A i \in DOMAIN t : i + 1 > 1 /\ i + 1 # 1
  BY <1>1
<1>3. h.call \in DOMAIN cs /\ Fits(h, cs[h.call])
  BY <1>1 DEF Asked
<1>4. Asked(t, cs)
  <2>1. \A i, j \in DOMAIN t : i # j => i + 1 # j + 1
    BY <1>1
  <2>2. Alone(t)
    BY <1>1, <2>1 DEF Asked, Alone
  <2>3. \A i \in DOMAIN t : t[i].call \in DOMAIN cs /\ Fits(t[i], cs[t[i].call])
    BY <1>1 DEF Asked
  <2> QED
    BY <2>2, <2>3 DEF Asked
<1>5. ASSUME h.type = "sequence", NEW i \in DOMAIN t, t[i].call = h.call PROVE FALSE
  <2>1. cs[h.call].at = "querying"
    BY <1>3, <1>5 DEF Fits
  <2>2. t[i].type # "sequence"
    BY <1>1, <1>2, <1>5 DEF Asked, Alone
  <2>3. t[i].type = "route"
    <3>1. t[i] \in Query
      BY <1>1, Points
    <3> QED
      BY <2>2, <3>1, QueryFacts
  <2>4. cs[h.call].at \in {"routing", "failed"}
    BY <1>4, <1>5, <2>3 DEF Asked, Fits
  <2> QED
    BY <2>1, <2>4
<1> QED
  BY <1>1, <1>2, <1>3, <1>4, <1>5 DEF t, h

(* The calls the requests are of do not change otherwise than they may.    *)
LEMMA AskedStays ==
  ASSUME NEW loc, NEW cs, NEW ds, Asked(loc, cs), DOMAIN cs \subseteq DOMAIN ds,
         \A i \in DOMAIN loc : \/ ds[loc[i].call] = cs[loc[i].call]
                               \/ Fits(loc[i], ds[loc[i].call])
  PROVE  Asked(loc, ds)
BY DEF Asked

LEMMA AskedMore ==
  ASSUME NEW loc \in Seq(Query), NEW new \in Seq(Query), NEW cs, Asked(loc, cs), Alone(new),
         \A j \in DOMAIN new : new[j].call \in DOMAIN cs /\ Fits(new[j], cs[new[j].call]),
         \A i \in DOMAIN loc, j \in DOMAIN new : loc[i].call # new[j].call
  PROVE  Asked(loc \o new, cs) /\ loc \o new \in Seq(Query)
<1> DEFINE t == loc \o new
           l == Len(loc)
<1>1. /\ t \in Seq(Query) /\ l \in Nat /\ DOMAIN loc = 1 .. l /\ Len(new) \in Nat /\ DOMAIN new = 1 .. Len(new)
      /\ \A i \in DOMAIN loc : i \in DOMAIN t /\ t[i] = loc[i]
      /\ \A j \in DOMAIN new : l + j \in DOMAIN t /\ t[l + j] = new[j]
      /\ \A i \in DOMAIN t : i \in DOMAIN loc \/ \E j \in DOMAIN new : i = l + j
  BY Joined
<1> HIDE DEF t, l
<1>2. \A i \in DOMAIN t : t[i].call \in DOMAIN cs /\ Fits(t[i], cs[t[i].call])
  BY <1>1 DEF Asked
<1>3. Alone(t)
  <2> SUFFICES ASSUME NEW i \in DOMAIN t, NEW j \in DOMAIN t, i # j, t[i].type = "sequence", t[j].type = "sequence",
                      t[i].call = t[j].call
               PROVE  FALSE
    BY DEF Alone
  <2>1. CASE i \in DOMAIN loc /\ j \in DOMAIN loc
    BY <1>1, <2>1 DEF Asked, Alone
  <2>2. ASSUME NEW a \in DOMAIN new, NEW b \in DOMAIN new, i = l + a, j = l + b PROVE FALSE
    <3>1. a # b /\ t[i] = new[a] /\ t[j] = new[b]
      BY <1>1, <2>2
    <3> QED
      BY <3>1 DEF Alone
  <2>3. ASSUME i \in DOMAIN loc, NEW b \in DOMAIN new, j = l + b PROVE FALSE
    BY <1>1, <2>3
  <2>4. ASSUME j \in DOMAIN loc, NEW b \in DOMAIN new, i = l + b PROVE FALSE
    BY <1>1, <2>4
  <2> QED
    BY <1>1, <2>1, <2>2, <2>3, <2>4
<1> QED
  BY <1>1, <1>2, <1>3 DEF Asked, t

-----------------------------------------------------------------------------
(* What holds whatever the application does: the publishers of the map are *)
(* of their partitions and on connections of theirs, a call is at a        *)
(* partition when it declares or queries, and no request is of a call that *)
(* does not wait for it, but of one that has failed.                       *)

Placed(pubs, mm, cc) ==
  /\ \A p \in Partitions : pubs[p] # 0 => pubs[p] \in DOMAIN mm /\ mm[pubs[p]].part = p
  /\ \A m \in DOMAIN mm : mm[m].conn \in DOMAIN cc /\ cc[mm[m].conn].part = mm[m].part
  /\ \A k \in DOMAIN cc : ~cc[k].up => cc[k].frames = <<>>

CallOk(x, cc) ==
  /\ Tidy(x)
  /\ x.at \in {"declaring", "querying"} => x.todo # <<>>
  /\ x.at = "querying" => x.conn \in DOMAIN cc /\ cc[x.conn].part = x.todo[1]

Base ==
  /\ Placed(publishers, made, conns)
  /\ \A c \in DOMAIN calls : CallOk(calls[c], conns)
  /\ Asked(locator, calls)

LEMMA CallOkStays ==
  ASSUME NEW x, NEW cc, NEW dd, CallOk(x, cc), DOMAIN cc \subseteq DOMAIN dd,
         \A k \in DOMAIN cc : dd[k].part = cc[k].part
  PROVE  CallOk(x, dd)
BY DEF CallOk

(* The publishers found take the messages.                                 *)
LEMMA HandsKeeps ==
  ASSUME TypeOK, Base, NEW c \in DOMAIN calls \cup {Len(calls) + 1}, NEW call \in Call, NEW P \in SUBSET Partitions,
         NEW pubs \in [Partitions -> Nat], NEW all \in Seq(Publisher), NEW x \in Call,
         Gets(c, call, P, pubs, all, x), Placed(pubs, all, conns),
         locator' \in Seq(Query), Asked(locator', calls), \A i \in DOMAIN locator' : locator'[i].call # c
  PROVE  /\ OneCall(c, x) /\ Base' /\ publishers' \in [Partitions -> Nat] /\ overtaken' \in BOOLEAN
         /\ made' \in Seq(Publisher) /\ conns' \in Seq(Connection) /\ calls' \in Seq(Call)
<1>1. /\ publishers' = pubs /\ calls' = Put(c, x) /\ Handing(c, x.op, P, pubs, all)
      /\ Tidy(x) /\ ((x.at = "declaring" /\ x.todo # <<>>) \/ (x.at = "done" /\ x.todo = <<>>))
  BY DEF Gets
<1>2. OneCall(c, x)
  BY <1>1, PutIs DEF TypeOK
<1>3. /\ made' \in Seq(Publisher) /\ DOMAIN made' = DOMAIN all /\ overtaken' \in BOOLEAN
      /\ conns' \in Seq(Connection) /\ DOMAIN conns' = DOMAIN conns
      /\ \A m \in DOMAIN all : made'[m].part = all[m].part /\ made'[m].conn = all[m].conn
      /\ \A k \in DOMAIN conns : conns'[k].part = conns[k].part
      /\ \A k \in DOMAIN conns : ~conns'[k].up => conns'[k] = conns[k] /\ ~conns[k].up
  BY <1>1 DEF Handing, SamePlace
<1>4. Placed(publishers', made', conns')
  <2>1. \A p \in Partitions : pubs[p] # 0 => pubs[p] \in DOMAIN made' /\ made'[pubs[p]].part = p
    BY <1>3 DEF Placed
  <2>2. \A m \in DOMAIN made' : made'[m].conn \in DOMAIN conns' /\ conns'[made'[m].conn].part = made'[m].part
    <3> SUFFICES ASSUME NEW m \in DOMAIN all
                 PROVE  made'[m].conn \in DOMAIN conns /\ conns'[made'[m].conn].part = made'[m].part
      BY <1>3
    <3>1. all[m].conn \in DOMAIN conns /\ conns[all[m].conn].part = all[m].part
      BY DEF Placed
    <3>2. made'[m].part = all[m].part /\ made'[m].conn = all[m].conn
      BY <1>3
    <3>3. conns'[all[m].conn].part = conns[all[m].conn].part
      BY <1>3, <3>1
    <3> QED
      BY <3>1, <3>2, <3>3
  <2>3. \A k \in DOMAIN conns' : ~conns'[k].up => conns'[k].frames = <<>>
    BY <1>3 DEF Placed
  <2> QED
    BY <1>1, <2>1, <2>2, <2>3 DEF Placed
<1>5. CallOk(x, conns')
  BY <1>1 DEF CallOk
<1>6. \A d \in DOMAIN calls' : CallOk(calls'[d], conns')
  <2> SUFFICES ASSUME NEW d \in DOMAIN calls' PROVE CallOk(calls'[d], conns')
    OBVIOUS
  <2>1. CASE d = c
    BY <1>2, <1>5, <2>1 DEF OneCall
  <2>2. CASE d # c
    <3>1. d \in DOMAIN calls /\ calls'[d] = calls[d]
      BY <1>2, <2>2 DEF OneCall
    <3>2. CallOk(calls[d], conns)
      BY <3>1 DEF Base
    <3> QED
      BY <1>3, <3>1, <3>2, CallOkStays, SMTT(30)
  <2> QED
    BY <2>1, <2>2
<1>7. Asked(locator', calls')
  <2>1. DOMAIN calls \subseteq DOMAIN calls'
    BY <1>2 DEF OneCall
  <2>2. \A i \in DOMAIN locator' : calls'[locator'[i].call] = calls[locator'[i].call]
    BY <1>2 DEF OneCall, Asked
  <2> QED
    BY <2>1, <2>2, AskedStays
<1>8. Base'
  BY <1>4, <1>6, <1>7 DEF Base
<1>9. calls' \in Seq(Call)
  BY <1>2 DEF OneCall
<1> QED
  BY <1>1, <1>2, <1>3, <1>8, <1>9

-----------------------------------------------------------------------------
(* What a step does: a call is routed.                                     *)

Sticks(x, ca) ==
  Len(x.keys) = 1 /\ x.parts # <<>> => ca[x.keys[1]] # 0 /\ x.parts = <<ca[x.keys[1]]>>

(* The requests qs for keys of call c, named x, whose partition is unknown.*)
Unknown(c, x, qs) ==
  /\ \A i \in DOMAIN qs : /\ qs[i].type = "route" /\ qs[i].call = c
                          /\ qs[i].key \in ToSet(x.keys) /\ cache'[qs[i].key] = 0
  /\ IsInjective(x.keys) => \A i, j \in DOMAIN qs : i # j => qs[i].key # qs[j].key

(* The partitions of a call's keys as far as they are known.               *)
Learns(x) ==
  /\ cache' \in [Keys -> Partitions \cup {0}]
  /\ \A k \in Keys : cache[k] # 0 => cache'[k] = cache[k]
  /\ Sticks(x, cache')

NewCall(op, keys, n, parts) ==
  [op |-> op, keys |-> keys, n |-> n, ready |-> op # "batch", conn |-> 0,
   parts |-> parts, todo |-> parts, at |-> "routing"]

LEMMA NewCallIs ==
  ASSUME NEW op \in Sends \cup {"batch"}, NEW keys \in Seq(Keys), NEW n \in Nat, NEW parts \in Seq(Partitions),
         NEW x, x = NewCall(op, keys, n, parts)
  PROVE  /\ x \in Call /\ x.op = op /\ x.keys = keys /\ x.parts = parts /\ x.todo = parts /\ x.at = "routing"
         /\ (x.ready <=> op # "batch")
BY DEF Call, NewCall, Awaiting

LEMMA PartitionIs ==
  ASSUME TypeOK, NEW k \in Keys, Resolved(k)
  PROVE  PartitionOf(k) \in Partitions
BY DEF TypeOK, Resolved, PartitionOf

LEMMA KnownParts ==
  ASSUME TypeOK, NEW known \in Seq(Keys), \A k \in ToSet(known) : Resolved(k), NEW parts,
         parts = FirstOnes([i \in DOMAIN known |-> PartitionOf(known[i])])
  PROVE  parts \in Seq(Partitions) /\ IsInjective(parts) /\ ToSet(parts) = {PartitionOf(k) : k \in ToSet(known)}
<1> DEFINE l == Len(known)
           f == [i \in DOMAIN known |-> PartitionOf(known[i])]
<1>1. l \in Nat /\ DOMAIN known = 1 .. l /\ \A i \in 1 .. l : known[i] \in Keys /\ known[i] \in ToSet(known)
  BY Points DEF ToSet
<1>2. f = [i \in 1 .. l |-> f[i]] /\ \A i \in 1 .. l : f[i] = PartitionOf(known[i])
  BY <1>1
<1>3. \A i \in 1 .. l : f[i] \in Partitions
  BY <1>1, <1>2, PartitionIs
<1>4. parts = FirstOnes(f)
  OBVIOUS
<1> HIDE DEF f
<1>5. f \in Seq(Partitions) /\ DOMAIN f = 1 .. l
  BY <1>1, <1>2, <1>3, ByPoints
<1>6. ToSet(f) = {PartitionOf(k) : k \in ToSet(known)}
  BY <1>1, <1>2, <1>5 DEF ToSet
<1> QED
  BY <1>4, <1>5, <1>6, FirstOnesIn

LEMMA RouteIs ==
  ASSUME TypeOK, NEW op \in Sends \cup {"batch"}, NEW keys \in Seq(Keys), NEW n \in Nat,
         Route(Len(calls) + 1, op, keys, n)
  PROVE  \E x \in Call : 
           /\ x.op = op /\ x.keys = keys /\ x.at = "routing" /\ Tidy(x) /\ Learns(x)
           /\ \/ /\ calls' = Put(Len(calls) + 1, x)
                 /\ \E qs \in Seq(Query) : locator' = locator \o qs /\ Unknown(Len(calls) + 1, x, qs)
                 /\ UNCHANGED <<publishers, made, conns, overtaken>>
              \/ /\ getPublisher(Len(calls) + 1, x, publishers, made)
                 /\ UNCHANGED locator
<1> DEFINE c == Len(calls) + 1
           asked == Without(keys, {k \in Keys : Resolved(k)})
           known == Without(keys, {k \in Keys : ~Resolved(k)})
           parts == FirstOnes([i \in DOMAIN known |-> PartitionOf(known[i])])
           x == NewCall(op, keys, n, parts)
           qs == [i \in DOMAIN asked |-> RouteQuery(c, asked[i])]
<1>1. /\ cache' = [k \in Keys |-> IF k \in ToSet(keys) /\ Resolved(k) THEN PartitionOf(k) ELSE cache[k]]
      /\ \/ /\ asked # <<>>
            /\ calls' = Put(c, x)
            /\ locator' = locator \o qs
            /\ UNCHANGED <<publishers, made, conns, overtaken>>
         \/ /\ asked = <<>>
            /\ getPublisher(c, x, publishers, made)
            /\ UNCHANGED locator
  BY DEF Route, NewCall
<1>2. c \in Nat
  BY Points DEF TypeOK
<1>3. \A k \in ToSet(keys) : k \in Keys
  BY Points DEF ToSet
<1>4. /\ asked \in Seq(Keys) /\ ToSet(asked) = ToSet(keys) \ {k \in Keys : Resolved(k)}
      /\ IsInjective(keys) => IsInjective(asked)
  BY WithoutIn
<1>5. known \in Seq(Keys) /\ ToSet(known) = ToSet(keys) \ {k \in Keys : ~Resolved(k)}
  BY WithoutIn
<1> HIDE DEF asked, known
<1>6. \A k \in ToSet(known) : k \in Keys /\ Resolved(k) /\ k \in ToSet(keys)
  BY <1>3, <1>5
<1>7. parts \in Seq(Partitions) /\ IsInjective(parts) /\ ToSet(parts) = {PartitionOf(k) : k \in ToSet(known)}
  BY <1>5, <1>6, KnownParts
<1> HIDE DEF parts
<1>8. /\ x \in Call /\ x.op = op /\ x.keys = keys /\ x.parts = parts /\ x.todo = parts /\ x.at = "routing"
      /\ (x.ready <=> op # "batch")
  BY <1>7, NewCallIs
<1> HIDE DEF x
<1>9. Tidy(x)
  BY <1>7, <1>8 DEF Tidy
<1>10. /\ cache' \in [Keys -> Partitions \cup {0}]
       /\ \A k \in Keys : cache[k] # 0 => cache'[k] = cache[k]
       /\ \A k \in ToSet(known) : cache'[k] = PartitionOf(k)
       /\ \A k \in ToSet(asked) : cache'[k] = 0
  <2>1. \A k \in Keys : ~Resolved(k) => cache[k] = 0
    BY DEF Resolved
  <2>2. \A k \in Keys : cache[k] # 0 => PartitionOf(k) = cache[k]
    BY DEF PartitionOf
  <2>3. \A k \in Keys : cache[k] \in Partitions \cup {0}
    BY DEF TypeOK
  <2>4. \A k \in Keys : cache'[k] = IF k \in ToSet(keys) /\ Resolved(k) THEN PartitionOf(k) ELSE cache[k]
    BY <1>1
  <2>5. \A k \in Keys : cache'[k] \in Partitions \cup {0}
    BY <2>3, <2>4, PartitionIs
  <2>6. \A k \in ToSet(asked) : k \in Keys /\ ~Resolved(k)
    BY <1>3, <1>4
  <2> QED
    BY <1>1, <1>6, <2>1, <2>2, <2>4, <2>5, <2>6
<1>11. ASSUME Len(keys) = 1, parts # <<>> PROVE cache'[keys[1]] # 0 /\ parts = <<cache'[keys[1]]>>
  <2>1. DOMAIN keys = {1} /\ ToSet(keys) = {keys[1]} /\ keys[1] \in Keys
    BY <1>11, Points DEF ToSet
  <2>2. ToSet(known) # {}
    BY <1>7, <1>11, OnlyOne
  <2>3. ToSet(known) = {keys[1]}
    BY <1>6, <2>1, <2>2
  <2>4. ToSet(parts) = {PartitionOf(keys[1])} /\ cache'[keys[1]] = PartitionOf(keys[1])
    BY <1>7, <1>10, <2>3
  <2>5. parts = <<PartitionOf(keys[1])>>
    BY <1>7, <2>4, OnlyOne
  <2>6. PartitionOf(keys[1]) \in Partitions
    BY <1>6, <2>3, PartitionIs
  <2> QED
    BY <2>4, <2>5, <2>6, SuperStreamAssumption
<1>12. Learns(x)
  BY <1>8, <1>10, <1>11 DEF Learns, Sticks
<1>13. qs \in Seq(Query) /\ Unknown(c, x, qs)
  <2> DEFINE l == Len(asked)
  <2>1. l \in Nat /\ DOMAIN asked = 1 .. l /\ \A i \in 1 .. l : asked[i] \in Keys /\ asked[i] \in ToSet(asked)
    BY <1>4, Points DEF ToSet
  <2>2. qs = [i \in 1 .. l |-> qs[i]] /\ \A i \in 1 .. l : qs[i] = RouteQuery(c, asked[i])
    BY <2>1
  <2> HIDE DEF qs, c
  <2>3. \A i \in 1 .. l : /\ qs[i] \in Query /\ qs[i].type = "route" /\ qs[i].call = c /\ qs[i].key = asked[i]
    BY <1>2, <2>1, <2>2, QueryFacts
  <2>4. qs \in Seq(Query) /\ DOMAIN qs = 1 .. l
    BY <2>1, <2>2, <2>3, ByPoints
  <2>5. \A i \in DOMAIN qs : qs[i].key \in ToSet(x.keys) /\ cache'[qs[i].key] = 0
    BY <1>4, <1>8, <1>10, <2>1, <2>3, <2>4
  <2>6. IsInjective(x.keys) => \A i, j \in DOMAIN qs : i # j => qs[i].key # qs[j].key
    BY <1>4, <1>8, <2>1, <2>3, <2>4 DEF IsInjective
  <2> QED
    BY <2>3, <2>4, <2>5, <2>6 DEF Unknown
<1> QED
  BY <1>1, <1>8, <1>9, <1>12, <1>13

-----------------------------------------------------------------------------
(* What each step does, with the types and what holds in any case.         *)

(* Calls go on: what has been handed over stays so.                        *)
Further ==
  \A d \in DOMAIN calls :
    /\ d \in DOMAIN calls' /\ Same(calls'[d], calls[d]) /\ (calls[d].ready => calls'[d].ready)
    /\ calls[d].ready /\ calls[d].at # "routing" =>
         calls'[d].at # "routing" /\ ToSet(calls'[d].todo) \subseteq ToSet(calls[d].todo)

Good == TypeOK /\ Base

(* Call c becomes x, and its messages are not handed over yet.             *)
Silent(c, x) == OneCall(c, x) /\ UNCHANGED <<publishers, made, conns, overtaken>>

(* Call c becomes x, and publishers, of the partitions in P, take its      *)
(* messages.                                                               *)
Hands(c, call, P, pubs, all, x) ==
  /\ OneCall(c, x) /\ x \in Call /\ P \subseteq Partitions
  /\ Gets(c, call, P, pubs, all, x)
  /\ \A i \in DOMAIN locator' : locator'[i].call # c

LEMMA OneFurther ==
  ASSUME NEW c, NEW x, OneCall(c, x),
         c \in DOMAIN calls =>
           /\ Same(x, calls[c]) /\ (calls[c].ready => x.ready)
           /\ calls[c].ready /\ calls[c].at # "routing" =>
                x.at # "routing" /\ ToSet(x.todo) \subseteq ToSet(calls[c].todo)
  PROVE  Further
BY DEF OneCall, Further, Same

LEMMA SilentBase ==
  ASSUME TypeOK, Base, NEW c, NEW x \in Call, Silent(c, x), CallOk(x, conns),
         locator' \in Seq(Query), Asked(locator', calls')
  PROVE  Base' /\ calls' \in Seq(Call)
<1>1. \A d \in DOMAIN calls' : CallOk(calls'[d], conns)
  BY DEF Silent, OneCall, Base
<1>2. conns' = conns /\ made' = made /\ publishers' = publishers /\ calls' \in Seq(Call)
  BY DEF Silent, OneCall
<1>3. Placed(publishers', made', conns')
  BY <1>2 DEF Base
<1> QED
  BY <1>1, <1>2, <1>3 DEF Base

(* send, basicSend or sendSubEntries.                                      *)
Begins(op, keys) ==
  LET c == Len(calls) + 1 IN
  \E x \in Call :
    /\ x.op = op /\ x.keys = keys /\ x.at = "routing" /\ Learns(x) /\ Tidy(x)
    /\ \/ /\ Silent(c, x)
          /\ \E qs \in Seq(Query) : locator' = locator \o qs /\ Unknown(c, x, qs)
       \/ /\ UNCHANGED locator
          /\ \E P \in SUBSET Partitions, y \in Call :
               Hands(c, x, P, publishers, made, y) /\ Missing(y, publishers)

LEMMA RouteKeeps ==
  ASSUME TypeOK, Base, NEW op \in Sends \cup {"batch"}, NEW keys \in Seq(Keys), NEW n \in Nat,
         Route(Len(calls) + 1, op, keys, n), UNCHANGED <<chosen, binding, broker, used>>
  PROVE  Begins(op, keys) /\ Good' /\ Further
<1> DEFINE c == Len(calls) + 1
<1>1. PICK x \in Call :
           /\ x.op = op /\ x.keys = keys /\ x.at = "routing" /\ Tidy(x) /\ Learns(x)
           /\ \/ /\ calls' = Put(c, x)
                 /\ \E qs \in Seq(Query) : locator' = locator \o qs /\ Unknown(c, x, qs)
                 /\ UNCHANGED <<publishers, made, conns, overtaken>>
              \/ /\ getPublisher(c, x, publishers, made)
                 /\ UNCHANGED locator
  BY RouteIs
<1>2. /\ calls \in Seq(Call) /\ c \in Nat /\ c # 0 /\ c \notin DOMAIN calls /\ locator \in Seq(Query)
      /\ \A i \in DOMAIN locator : locator[i].call \in DOMAIN calls /\ locator[i].call # c
  BY CallsAre DEF TypeOK, Base, Asked
<1>3. cache' \in [Keys -> Partitions \cup {0}]
  BY <1>1 DEF Learns
<1>4. SUFFICES /\ Base' /\ Begins(op, keys) /\ Further
               /\ publishers' \in [Partitions -> Nat] /\ made' \in Seq(Publisher) /\ conns' \in Seq(Connection)
               /\ calls' \in Seq(Call) /\ locator' \in Seq(Query) /\ overtaken' \in BOOLEAN
  BY <1>1, <1>3 DEF TypeOK, Good, chosen, broker
<1>5. CASE \E qs \in Seq(Query) : /\ locator' = locator \o qs /\ Unknown(c, x, qs)
                                  /\ calls' = Put(c, x) /\ UNCHANGED <<publishers, made, conns, overtaken>>
  <2>1. PICK qs \in Seq(Query) : locator' = locator \o qs /\ Unknown(c, x, qs)
    BY <1>5
  <2>2. OneCall(c, x)
    BY <1>2, <1>5, PutIs
  <2>3. Silent(c, x)
    BY <1>5, <2>2 DEF Silent
  <2>4. Asked(locator, calls')
    <3>1. \A i \in DOMAIN locator : calls'[locator[i].call] = calls[locator[i].call]
      BY <1>2, <2>2 DEF OneCall
    <3>2. DOMAIN calls \subseteq DOMAIN calls'
      BY <2>2 DEF OneCall
    <3> QED
      BY <3>1, <3>2, AskedStays DEF Base
  <2>5. c \in DOMAIN calls' /\ calls'[c].at = "routing"
    BY <1>1, <2>2 DEF OneCall
  <2>6. \A j \in DOMAIN qs : qs[j].call = c /\ qs[j].type = "route" /\ Fits(qs[j], calls'[qs[j].call])
    BY <2>1, <2>5 DEF Unknown, Fits
  <2>7. Alone(qs)
    BY <2>6 DEF Alone
  <2>8. Asked(locator', calls') /\ locator' \in Seq(Query)
    BY <1>2, <2>1, <2>4, <2>5, <2>6, <2>7, AskedMore
  <2>9. CallOk(x, conns)
    BY <1>1 DEF CallOk
  <2>10. Base' /\ calls' \in Seq(Call)
    BY <2>3, <2>8, <2>9, SilentBase
  <2>11. Further
    BY <1>2, <2>2, OneFurther
  <2>12. Begins(op, keys)
    BY <1>1, <2>1, <2>3 DEF Begins
  <2>13. UNCHANGED <<publishers, made, conns, overtaken>>
    BY <1>5
  <2> QED
    BY <2>8, <2>10, <2>11, <2>12, <2>13 DEF TypeOK
<1>6. CASE getPublisher(c, x, publishers, made) /\ UNCHANGED locator
  <2>1. made \in Seq(Publisher) /\ conns \in Seq(Connection) /\ overtaken \in BOOLEAN /\ publishers \in [Partitions -> Nat]
    BY DEF TypeOK
  <2>2. Bound(publishers, made) /\ Placed(publishers, made, conns)
    BY DEF Base, Placed, Bound
  <2>3. PICK P \in SUBSET Partitions, y \in Call : Gets(c, x, P, publishers, made, y) /\ Missing(y, publishers)
    BY <1>1, <1>2, <1>6, <2>1, <2>2, GetPublisherIs
  <2>4. Asked(locator', calls) /\ locator' \in Seq(Query) /\ \A i \in DOMAIN locator' : locator'[i].call # c
    BY <1>2, <1>6 DEF Base
  <2>5. /\ OneCall(c, y) /\ Base' /\ publishers' \in [Partitions -> Nat] /\ overtaken' \in BOOLEAN
        /\ made' \in Seq(Publisher) /\ conns' \in Seq(Connection) /\ calls' \in Seq(Call)
    BY <2>1, <2>2, <2>3, <2>4, HandsKeeps
  <2>6. Hands(c, x, P, publishers, made, y)
    BY <2>3, <2>4, <2>5 DEF Hands
  <2>7. Begins(op, keys)
    BY <1>1, <1>6, <2>3, <2>6 DEF Begins
  <2>8. Further
    BY <1>2, <2>5, OneFurther
  <2> QED
    BY <2>4, <2>5, <2>7, <2>8
<1> QED
  BY <1>1, <1>5, <1>6

(* The answer to a request for the partition of key k of call c.           *)
Answers(c, k) ==
  /\ locator # <<>> /\ Head(locator).type = "route" /\ c = Head(locator).call /\ k = Head(locator).key
  /\ locator' = Tail(locator)
  /\ \/ /\ binding[k] = 0
        /\ Silent(c, Fails(calls[c])) /\ UNCHANGED cache
     \/ /\ binding[k] # 0 /\ cache' = [cache EXCEPT ![k] = binding[k]]
        /\ LET parts == AddPartition(calls[c].parts, binding[k]) IN
           \/ Silent(c, Knows(calls[c], parts))
           \/ /\ calls[c].at = "routing"
              /\ \E P \in SUBSET Partitions, y \in Call :
                   /\ Hands(c, Taught(calls[c], parts, parts), P, publishers, made, y)
                   /\ Missing(y, publishers)

LEMMA PartitionAdded ==
  ASSUME NEW s \in Seq(Partitions), NEW p \in Partitions, IsInjective(s)
  PROVE  /\ AddPartition(s, p) \in Seq(Partitions) /\ IsInjective(AddPartition(s, p))
         /\ ToSet(AddPartition(s, p)) = ToSet(s) \cup {p} /\ AddPartition(s, p) # <<>>
<1> DEFINE t == Append(s, p)
<1>1. CASE p \in ToSet(s)
  <2>1. s # <<>>
    <3>1. DOMAIN <<>> = {}
      OBVIOUS
    <3> QED
      BY <1>1, <3>1 DEF ToSet
  <2> QED
    BY <1>1, <2>1 DEF AddPartition
<1>2. CASE p \notin ToSet(s)
  <2>1. /\ t \in Seq(Partitions) /\ Len(s) \in Nat /\ DOMAIN s = 1 .. Len(s) /\ DOMAIN t = 1 .. Len(s) + 1
        /\ t[Len(s) + 1] = p /\ \A i \in DOMAIN s : t[i] = s[i]
    BY Appended
  <2> HIDE DEF t
  <2>2. /\ \A i \in DOMAIN t : i \in DOMAIN s \/ i = Len(s) + 1
        /\ \A i \in DOMAIN s : i \in DOMAIN t
        /\ Len(s) + 1 \in DOMAIN t
    BY <2>1
  <2>3. ToSet(t) = ToSet(s) \cup {p}
    BY <2>1, <2>2 DEF ToSet
  <2>4. \A i \in DOMAIN s : s[i] # p
    BY <1>2 DEF ToSet
  <2>5. IsInjective(t)
    BY <2>1, <2>2, <2>4 DEF IsInjective
  <2>6. t # <<>>
    <3>1. DOMAIN <<>> = {}
      OBVIOUS
    <3> QED
      BY <2>2, <3>1
  <2>7. AddPartition(s, p) = t
    BY <1>2 DEF AddPartition, t
  <2> QED
    BY <2>1, <2>3, <2>5, <2>6, <2>7
<1> QED
  BY <1>1, <1>2

LEMMA RouteAnsweredKeeps ==
  ASSUME TypeOK, Base, RouteAnswered
  PROVE  (\E c \in DOMAIN calls, k \in Keys : Answers(c, k)) /\ Good' /\ Further
<1> DEFINE c == Head(locator).call
           k == Head(locator).key
           parts == AddPartition(calls[c].parts, binding[k])
           call == Taught(calls[c], parts, parts)
<1>1. locator \in Seq(Query) /\ locator # <<>> /\ Asked(locator, calls) /\ Head(locator).type = "route" /\ locator' = Tail(locator)
  BY DEF TypeOK, Base, RouteAnswered
<1>2. /\ Asked(locator', calls) /\ locator' \in Seq(Query) /\ Head(locator) \in Query
      /\ c \in DOMAIN calls /\ calls[c].at \in {"routing", "failed"}
      /\ \A i \in DOMAIN locator' : i + 1 \in DOMAIN locator /\ i + 1 > 1 /\ locator'[i] = locator[i + 1]
  BY <1>1, AskedTail DEF Fits
<1>3. k \in Keys /\ binding[k] \in Partitions \cup {0} /\ calls[c] \in Call /\ CallOk(calls[c], conns) /\ Tidy(calls[c])
  <2>1. k \in Keys
    BY <1>1, <1>2, QueryFacts
  <2> HIDE DEF k, c
  <2> QED
    BY <1>2, <2>1, CallsAre DEF TypeOK, Base, CallOk
<1>4. /\ UNCHANGED <<chosen, binding, broker, used>>
      /\ \/ /\ binding[k] = 0
            /\ calls' = [calls EXCEPT ![c] = Fails(calls[c])]
            /\ UNCHANGED <<cache, publishers, made, conns, overtaken>>
         \/ /\ binding[k] # 0
            /\ cache' = [cache EXCEPT ![k] = binding[k]]
            /\ \/ /\ calls' = [calls EXCEPT ![c] = Knows(calls[c], parts)]
                  /\ UNCHANGED <<publishers, made, conns, overtaken>>
               \/ /\ \A i \in DOMAIN locator : i > 1 => locator[i].call # c
                  /\ calls[c].at # "failed"
                  /\ getPublisher(c, call, publishers, made)
  BY DEF RouteAnswered, Fails, Knows, Taught
<1>5. cache' \in [Keys -> Partitions \cup {0}]
  <2> HIDE DEF k
  <2> QED
    BY <1>3, <1>4 DEF TypeOK
<1> HIDE DEF c, k, parts, call
<1>6. SUFFICES /\ Base' /\ Answers(c, k) /\ Further
               /\ publishers' \in [Partitions -> Nat] /\ made' \in Seq(Publisher) /\ conns' \in Seq(Connection)
               /\ calls' \in Seq(Call) /\ overtaken' \in BOOLEAN
  BY <1>2, <1>3, <1>4, <1>5 DEF TypeOK, Good, chosen, broker
<1>7. ASSUME NEW x \in Call, calls' = [calls EXCEPT ![c] = x], UNCHANGED <<publishers, made, conns, overtaken>>,
             Same(x, calls[c]), x.ready <=> calls[c].ready, x.todo = calls[c].todo, CallOk(x, conns),
             x.at \in {calls[c].at, "failed"}
      PROVE  Silent(c, x) /\ Base' /\ Further /\ calls' \in Seq(Call)
  <2>1. OneCall(c, x)
    BY <1>2, <1>7, SomeCall DEF TypeOK
  <2>2. Silent(c, x)
    BY <1>7, <2>1 DEF Silent
  <2>3. Further
    BY <1>7, <2>1, OneFurther
  <2>4. Asked(locator', calls')
    <3>1. calls' [c] = x /\ DOMAIN calls \subseteq DOMAIN calls' /\ \A d \in DOMAIN calls : d # c => calls'[d] = calls[d]
      BY <2>1 DEF OneCall
    <3>2. x.at \in {"routing", "failed"}
      BY <1>2, <1>7
    <3>3. \A i \in DOMAIN locator' : locator'[i].call = c => locator'[i].type # "sequence"
      BY <1>2 DEF Asked, Fits
    <3>4. \A i \in DOMAIN locator' : locator'[i].call = c => Fits(locator'[i], calls'[c])
      BY <3>1, <3>2, <3>3 DEF Fits
    <3>5. \A i \in DOMAIN locator' : locator'[i].call \in DOMAIN calls
      BY <1>2 DEF Asked
    <3>6. \A i \in DOMAIN locator' : \/ calls'[locator'[i].call] = calls[locator'[i].call]
                                     \/ Fits(locator'[i], calls'[locator'[i].call])
      BY <3>1, <3>4, <3>5
    <3> QED
      BY <1>2, <3>1, <3>6, AskedStays
  <2> QED
    BY <1>2, <1>7, <2>2, <2>3, <2>4, SilentBase
<1>8. /\ publishers \in [Partitions -> Nat] /\ made \in Seq(Publisher) /\ conns \in Seq(Connection)
      /\ calls \in Seq(Call) /\ overtaken \in BOOLEAN
  BY DEF TypeOK
<1>9. CASE /\ binding[k] = 0 /\ calls' = [calls EXCEPT ![c] = Fails(calls[c])]
           /\ UNCHANGED <<cache, publishers, made, conns, overtaken>>
  <2> DEFINE x == Fails(calls[c])
  <2>1. /\ x \in Call /\ Same(x, calls[c]) /\ (x.ready <=> calls[c].ready) /\ x.todo = calls[c].todo /\ x.at = "failed"
        /\ x.parts = calls[c].parts
    BY <1>3, CallFails
  <2> HIDE DEF x
  <2>2. CallOk(x, conns)
    BY <1>3, <2>1 DEF CallOk, Tidy, Same
  <2>3. calls' = [calls EXCEPT ![c] = x]
    BY <1>9 DEF x
  <2>4. Silent(c, x) /\ Base' /\ Further /\ calls' \in Seq(Call)
    BY <1>7, <1>9, <2>1, <2>2, <2>3
  <2>5. Answers(c, k)
    BY <1>1, <1>9, <2>4 DEF Answers, x, c, k
  <2> QED
    BY <1>8, <1>9, <2>4, <2>5
<1>10. ASSUME binding[k] # 0
       PROVE  parts \in Seq(Partitions) /\ IsInjective(parts) /\ ToSet(calls[c].parts) \subseteq ToSet(parts)
  <2>1. calls[c].parts \in Seq(Partitions)
    BY <1>3, CallFacts
  <2> QED
    BY <1>3, <1>10, <2>1, PartitionAdded, ZenonT(30) DEF parts, Tidy
<1>11. CASE /\ binding[k] # 0 /\ cache' = [cache EXCEPT ![k] = binding[k]]
            /\ calls' = [calls EXCEPT ![c] = Knows(calls[c], parts)]
            /\ UNCHANGED <<publishers, made, conns, overtaken>>
  <2> DEFINE x == Knows(calls[c], parts)
  <2>1. /\ x \in Call /\ Same(x, calls[c]) /\ (x.ready <=> calls[c].ready) /\ x.todo = calls[c].todo /\ x.at = calls[c].at
        /\ x.parts = parts
    BY <1>3, <1>10, <1>11, CallKnows
  <2> HIDE DEF x
  <2>2. CallOk(x, conns)
    BY <1>2, <1>3, <1>10, <1>11, <2>1 DEF CallOk, Tidy, Same
  <2>3. calls' = [calls EXCEPT ![c] = x]
    BY <1>11 DEF x
  <2>4. Silent(c, x) /\ Base' /\ Further /\ calls' \in Seq(Call)
    BY <1>7, <1>11, <2>1, <2>2, <2>3
  <2>5. Answers(c, k)
    BY <1>1, <1>11, <2>4 DEF Answers, x, c, k, parts
  <2> QED
    BY <1>8, <1>11, <2>4, <2>5
<1>12. CASE /\ binding[k] # 0 /\ cache' = [cache EXCEPT ![k] = binding[k]]
            /\ \A i \in DOMAIN locator : i > 1 => locator[i].call # c
            /\ calls[c].at # "failed" /\ getPublisher(c, call, publishers, made)
  <2>1. /\ call \in Call /\ Same(call, calls[c]) /\ call.parts = parts /\ call.todo = parts
        /\ (call.ready <=> calls[c].ready) /\ call.at = calls[c].at
    BY <1>3, <1>10, <1>12, CallLearns DEF call
  <2>2. Tidy(call)
    BY <1>3, <1>10, <1>12, <2>1 DEF Tidy, Same
  <2>3. Bound(publishers, made) /\ Placed(publishers, made, conns)
    BY DEF Base, Placed, Bound
  <2>4. c \in Nat
    BY <1>2, CallsAre DEF TypeOK
  <2>5. PICK P \in SUBSET Partitions, y \in Call : Gets(c, call, P, publishers, made, y) /\ Missing(y, publishers)
    BY <1>8, <1>12, <2>1, <2>2, <2>3, <2>4, GetPublisherIs
  <2>6. \A i \in DOMAIN locator' : locator'[i].call # c
    BY <1>2, <1>12
  <2>7. /\ OneCall(c, y) /\ Base' /\ publishers' \in [Partitions -> Nat] /\ overtaken' \in BOOLEAN
        /\ made' \in Seq(Publisher) /\ conns' \in Seq(Connection) /\ calls' \in Seq(Call)
    BY <1>2, <1>8, <2>1, <2>3, <2>5, <2>6, HandsKeeps
  <2>8. Hands(c, call, P, publishers, made, y)
    BY <2>5, <2>6, <2>7 DEF Hands
  <2>9. calls[c].at = "routing"
    BY <1>2, <1>12
  <2>10. Answers(c, k)
    BY <1>1, <1>12, <2>5, <2>8, <2>9 DEF Answers, c, k, call, parts
  <2>11. Further
    <3>1. Same(y, call) /\ (call.ready => y.ready)
      BY <2>5 DEF Gets
    <3>2. Same(y, calls[c]) /\ (calls[c].ready => y.ready)
      BY <2>1, <3>1 DEF Same
    <3> QED
      BY <2>7, <2>9, <3>2, OneFurther
  <2> QED
    BY <2>7, <2>10, <2>11
<1> QED
  BY <1>4, <1>9, <1>11, <1>12

(* The number of partition p is there for call c: its publisher new is     *)
(* constructed and entered.                                                *)
Constructs(c, p) ==
  LET m == Len(made) + 1
      pubs == [publishers EXCEPT ![p] = m]
  IN
  /\ locator # <<>> /\ Head(locator).type = "sequence" /\ locator' = Tail(locator)
  /\ calls[c].at = "querying" /\ calls[c].todo # <<>> /\ calls[c].todo[1] = p
  /\ \E new \in Publisher, P \in SUBSET Partitions, y \in Call :
       /\ new.part = p /\ new.conn = calls[c].conn /\ new.queue = <<>> /\ new.state = "open" /\ last[p] <= new.id
       /\ Hands(c, calls[c], P, pubs, Append(made, new), y)
       /\ Missing(calls[c], publishers) => Missing(y, pubs)

LEMMA TailIs ==
  ASSUME NEW S, NEW s \in Seq(S), s # <<>>, IsInjective(s)
  PROVE  /\ Tail(s) \in Seq(S) /\ IsInjective(Tail(s)) /\ ToSet(Tail(s)) = ToSet(s) \ {s[1]}
         /\ s[1] \in ToSet(s) /\ Head(s) = s[1] /\ s[1] \in S
         /\ Tail(s) # <<>> => Tail(s)[1] \in ToSet(Tail(s))
<1> DEFINE t == Tail(s)
           l == Len(s)
<1>1. /\ Head(s) = s[1] /\ 1 \in DOMAIN s /\ s[1] \in S /\ t \in Seq(S) /\ l \in Nat \ {0}
      /\ DOMAIN s = 1 .. l /\ DOMAIN t = 1 .. l - 1
      /\ \A i \in DOMAIN t : i + 1 \in DOMAIN s /\ t[i] = s[i + 1]
  BY Beheaded
<1>2. t # <<>> => 1 \in DOMAIN t
  BY <1>1, Beheaded
<1> HIDE DEF t, l
<1>3. \A i \in DOMAIN s : i = 1 \/ (i - 1 \in DOMAIN t /\ t[i - 1] = s[i])
  <2> SUFFICES ASSUME NEW i \in DOMAIN s, i # 1 PROVE i - 1 \in DOMAIN t /\ t[i - 1] = s[i]
    OBVIOUS
  <2>1. i - 1 \in DOMAIN t /\ (i - 1) + 1 = i
    BY <1>1
  <2> QED
    BY <1>1, <2>1
<1>4. \A i \in DOMAIN t : i + 1 # 1
  BY <1>1
<1>5. IsInjective(t)
  <2> SUFFICES ASSUME NEW i \in DOMAIN t, NEW j \in DOMAIN t, t[i] = t[j] PROVE i = j
    BY DEF IsInjective
  <2>1. i + 1 = j + 1
    BY <1>1 DEF IsInjective
  <2> QED
    BY <1>1, <2>1
<1>6. \A i \in DOMAIN t : t[i] # s[1]
  BY <1>1, <1>4 DEF IsInjective
<1>7. ToSet(t) = ToSet(s) \ {s[1]}
  BY <1>1, <1>3, <1>6 DEF ToSet
<1> QED
  BY <1>1, <1>2, <1>5, <1>7 DEF ToSet, t

LEMMA SequenceAnsweredKeeps ==
  ASSUME TypeOK, Base, SequenceAnswered
  PROVE  (\E c \in DOMAIN calls, p \in Partitions : Constructs(c, p)) /\ UNCHANGED <<chosen, binding, cache, broker, used>>
         /\ Good' /\ Further
<1> DEFINE c == Head(locator).call
           p == Head(locator).part
           m == Len(made) + 1
           new == initPublisher(p, calls[c].conn)
           all == Append(made, new)
           pubs == [publishers EXCEPT ![p] = m]
           rest == Tail(calls[c].todo)
           call == [calls[c] EXCEPT !.todo = rest]
<1>1. /\ locator \in Seq(Query) /\ locator # <<>> /\ Asked(locator, calls) /\ Head(locator).type = "sequence"
      /\ locator' = Tail(locator) /\ UNCHANGED <<chosen, binding, cache, broker, used>>
  BY SMTT(30) DEF TypeOK, Base, SequenceAnswered
<1>2. \/ /\ call.ready
         /\ publishers' = pubs
         /\ Hand(c, call, {m}, all)
         /\ calls' = [calls EXCEPT ![c] = [call EXCEPT !.at = IF call.todo = <<>> THEN "done" ELSE "declaring"]]
      \/ /\ ~call.ready
         /\ getPublisher(c, call, pubs, all)
  BY DEF SequenceAnswered
<1>3. /\ Asked(locator', calls) /\ locator' \in Seq(Query) /\ Head(locator) \in Query
      /\ c \in DOMAIN calls /\ calls[c].at = "querying" /\ calls[c].todo[1] = p
      /\ \A i \in DOMAIN locator' : locator'[i].call # c
  BY <1>1, AskedTail DEF Fits
<1>4. p \in Partitions
  BY <1>1, <1>3, QueryFacts
<1> HIDE DEF c, p
<1>5. /\ calls[c] \in Call /\ c \in Nat /\ CallOk(calls[c], conns) /\ Tidy(calls[c])
      /\ calls[c].todo # <<>> /\ calls[c].conn \in DOMAIN conns /\ conns[calls[c].conn].part = p
  BY <1>3, CallsAre DEF TypeOK, Base, CallOk
<1>6. /\ publishers \in [Partitions -> Nat] /\ made \in Seq(Publisher) /\ conns \in Seq(Connection)
      /\ calls \in Seq(Call) /\ overtaken \in BOOLEAN /\ last \in [Partitions -> Int]
  BY DEF TypeOK
<1>7. calls[c].conn \in Nat /\ calls[c].todo \in Seq(Partitions) /\ calls[c].parts \in Seq(Partitions)
  BY <1>5, CallFacts
<1>8. /\ new \in Publisher /\ new.part = p /\ new.conn = calls[c].conn /\ new.queue = <<>> /\ new.state = "open"
      /\ last[p] <= new.id
  BY <1>4, <1>6, <1>7, NewPublisher
<1> HIDE DEF new
<1>9. /\ all \in Seq(Publisher) /\ Len(made) \in Nat /\ DOMAIN made = 1 .. Len(made) /\ DOMAIN all = 1 .. m
      /\ all[m] = new /\ \A x \in DOMAIN made : all[x] = made[x]
  BY <1>6, <1>8, Appended
<1> HIDE DEF all
<1>10. /\ m \in DOMAIN all /\ m \in Nat /\ m # 0 /\ \A x \in DOMAIN all : x \in DOMAIN made \/ x = m
       /\ \A x \in DOMAIN made : x \in DOMAIN all /\ x # m
  BY <1>9
<1> HIDE DEF m
<1>11. pubs \in [Partitions -> Nat] /\ pubs[p] = m /\ \A q \in Partitions : q # p => pubs[q] = publishers[q]
  BY <1>4, <1>6, <1>10
<1> HIDE DEF pubs
<1>12. Placed(pubs, all, conns)
  <2>1. Placed(publishers, made, conns)
    BY DEF Base
  <2>2. \A q \in Partitions : pubs[q] # 0 => pubs[q] \in DOMAIN all /\ all[pubs[q]].part = q
    BY <1>8, <1>9, <1>10, <1>11, <2>1 DEF Placed
  <2>3. \A x \in DOMAIN all : all[x].conn \in DOMAIN conns /\ conns[all[x].conn].part = all[x].part
    BY <1>5, <1>8, <1>9, <1>10, <2>1 DEF Placed
  <2> QED
    BY <2>1, <2>2, <2>3 DEF Placed
<1>13. /\ rest \in Seq(Partitions) /\ IsInjective(rest) /\ ToSet(rest) = ToSet(calls[c].todo) \ {p}
       /\ p \in ToSet(calls[c].todo) /\ (rest # <<>> => rest[1] \in ToSet(rest))
  BY <1>3, <1>5, <1>7, TailIs, SMTT(30) DEF Tidy
<1> HIDE DEF rest
<1>14. SUFFICES \E P \in SUBSET Partitions, y \in Call :
                  Gets(c, calls[c], P, pubs, all, y) /\ (Missing(calls[c], publishers) => Missing(y, pubs))
  <2>1. PICK P \in SUBSET Partitions, y \in Call :
                  Gets(c, calls[c], P, pubs, all, y) /\ (Missing(calls[c], publishers) => Missing(y, pubs))
    BY <1>14
  <2>2. /\ OneCall(c, y) /\ Base' /\ publishers' \in [Partitions -> Nat] /\ overtaken' \in BOOLEAN
        /\ made' \in Seq(Publisher) /\ conns' \in Seq(Connection) /\ calls' \in Seq(Call)
    BY <1>3, <1>5, <1>9, <1>11, <1>12, <2>1, HandsKeeps
  <2>3. Hands(c, calls[c], P, pubs, all, y)
    BY <1>3, <2>1, <2>2 DEF Hands
  <2>4. Constructs(c, p)
    BY <1>1, <1>3, <1>5, <1>8, <2>1, <2>3 DEF Constructs, m, pubs, all
  <2>5. Further
    <3>1. Same(y, calls[c]) /\ (calls[c].ready => y.ready) /\ y.at \in {"declaring", "done"}
          /\ (calls[c].ready => ToSet(y.todo) \subseteq ToSet(calls[c].todo))
      BY <2>1 DEF Gets
    <3> QED
      BY <2>2, <3>1, OneFurther
  <2>6. TypeOK'
    BY <1>1, <1>3, <2>2 DEF TypeOK, chosen, broker
  <2> QED
    BY <1>1, <1>3, <1>4, <2>2, <2>4, <2>5, <2>6 DEF Good
<1>15. call \in Call /\ Same(call, calls[c]) /\ (call.ready <=> calls[c].ready) /\ call.todo = rest
       /\ call.parts = calls[c].parts
  <2>1. calls[c].at \in Awaiting \cup {"done", "failed"}
    BY <1>5, CallFacts
  <2>2. call = Looks(calls[c], rest, calls[c].at)
    <3>1. [calls[c] EXCEPT !.at = calls[c].at] = calls[c]
      BY <1>5 DEF Call
    <3> QED
      BY <1>5, <3>1 DEF Looks, Call
  <2> HIDE DEF call
  <2> QED
    BY <1>5, <1>13, <2>1, <2>2, CallLooks
<1>16. \A a : [call EXCEPT !.at = a] = Looks(calls[c], rest, a)
  BY <1>5 DEF Looks, Call
<1>17. /\ publishers' = pubs
       /\ \/ /\ call.ready /\ Hand(c, call, {m}, all)
             /\ calls' = [calls EXCEPT ![c] = Looks(calls[c], rest, IF rest = <<>> THEN "done" ELSE "declaring")]
          \/ ~call.ready /\ getPublisher(c, call, pubs, all)
  <2>1. publishers' = pubs
    BY <1>2 DEF getPublisher
  <2> HIDE DEF call
  <2> QED
    BY <1>2, <1>15, <1>16, <2>1
<1>18. Tidy(call)
  <2> HIDE DEF call
  <2> QED
    BY <1>5, <1>13, <1>15 DEF Tidy, Same
<1> HIDE DEF call
<1>19. CASE ~call.ready
  <2>1. Bound(pubs, all)
    BY <1>12 DEF Placed, Bound
  <2>2. PICK P \in SUBSET Partitions, y \in Call : Gets(c, call, P, pubs, all, y) /\ Missing(y, pubs)
    BY <1>5, <1>6, <1>9, <1>15, <1>17, <1>18, <1>19, <2>1, GetPublisherIs
  <2>3. Gets(c, calls[c], P, pubs, all, y)
    BY <1>15, <1>19, <2>2 DEF Gets, Same
  <2> QED
    BY <2>2, <2>3
<1>20. CASE call.ready
  <2> DEFINE a == IF rest = <<>> THEN "done" ELSE "declaring"
             y == Looks(calls[c], rest, a)
             P == {p}
  <2>1. a \in Awaiting \cup {"done", "failed"}
    BY DEF Awaiting
  <2>2. calls' = [calls EXCEPT ![c] = y] /\ Hand(c, call, {m}, all)
    BY <1>17, <1>20
  <2>3. (a = "declaring" /\ rest # <<>>) \/ (a = "done" /\ rest = <<>>)
    OBVIOUS
  <2> HIDE DEF a
  <2>4. /\ y \in Call /\ Same(y, calls[c]) /\ (y.ready <=> calls[c].ready) /\ y.todo = rest /\ y.at = a
        /\ y.parts = calls[c].parts
    BY <1>5, <1>13, <2>1, CallLooks
  <2> HIDE DEF y
  <2>5. P \in SUBSET Partitions /\ {pubs[q] : q \in P} = {m} /\ \A q \in P : pubs[q] \in DOMAIN all
    BY <1>4, <1>10, <1>11
  <2>6. Handing(c, call.op, P, pubs, all)
    <3> HIDE DEF P
    <3> QED
      BY <1>5, <1>6, <1>9, <1>15, <2>2, <2>5, HandIs
  <2>7. call.op = y.op
    BY <1>15, <2>4 DEF Same
  <2>8. Tidy(y)
    BY <1>5, <1>13, <2>4 DEF Tidy, Same
  <2>9. calls' = Put(c, y)
    BY <1>3, <2>2 DEF Put
  <2>10. y.ready /\ calls[c].ready
    BY <1>15, <1>20, <2>4
  <2>11. /\ ToSet(y.todo) \subseteq ToSet(calls[c].parts) \ P /\ P \subseteq ToSet(calls[c].parts)
         /\ ToSet(y.todo) \cup P \subseteq ToSet(calls[c].todo)
    BY <1>5, <1>13, <2>4 DEF Tidy
  <2>12. Gets(c, calls[c], P, pubs, all, y)
    <3> HIDE DEF P
    <3> QED
      BY <1>17, <2>3, <2>4, <2>5, <2>6, <2>7, <2>8, <2>9, <2>10, <2>11 DEF Gets
  <2>13. Missing(calls[c], publishers) => Missing(y, pubs)
    <3>1. \A q \in ToSet(rest) : q \in Partitions /\ q # p
      BY <1>7, <1>13, Points DEF ToSet
    <3>2. \A q \in ToSet(rest) : pubs[q] = publishers[q] /\ q \in ToSet(calls[c].todo)
      BY <1>11, <1>13, <3>1
    <3> QED
      BY <1>3, <1>13, <2>3, <2>4, <2>10, <3>2 DEF Missing
  <2> QED
    BY <2>4, <2>5, <2>12, <2>13
<1> QED
  BY <1>19, <1>20

(* Call c has a connection for its partition p, and asks for its number.   *)
Declares(c, p, k) ==
  /\ calls[c].at = "declaring" /\ calls[c].todo # <<>> /\ p = calls[c].todo[1]
  /\ OneCall(c, Querying(calls[c], k)) /\ locator' = Append(locator, SequenceQuery(c, p))
  /\ UNCHANGED <<publishers, made, overtaken>>
  /\ k \in DOMAIN conns' /\ conns'[k].part = p /\ conns'[k].up
  /\ \A j \in DOMAIN conns : j \in DOMAIN conns' /\ conns'[j] = conns[j]
  /\ \A j \in DOMAIN conns' : j \in DOMAIN conns \/ (j = k /\ conns'[k].frames = <<>>)

LEMMA DeclaredKeeps ==
  ASSUME TypeOK, Base, NEW c \in DOMAIN calls, Declared(c)
  PROVE  (\E p \in Partitions, k \in Nat : Declares(c, p, k)) /\ UNCHANGED <<chosen, binding, cache, broker, used>>
         /\ Good' /\ Further
<1> DEFINE p == Head(calls[c].todo)
<1>1. /\ publishers \in [Partitions -> Nat] /\ made \in Seq(Publisher) /\ conns \in Seq(Connection)
      /\ calls \in Seq(Call) /\ overtaken \in BOOLEAN /\ locator \in Seq(Query) /\ Asked(locator, calls)
      /\ calls[c] \in Call /\ CallOk(calls[c], conns) /\ c \in Nat /\ calls[c].at = "declaring"
  BY CallsAre DEF TypeOK, Base, Declared
<1>2. calls[c].todo # <<>> /\ calls[c].todo \in Seq(Partitions) /\ Tidy(calls[c])
  BY <1>1, CallFacts DEF CallOk
<1>3. p = calls[c].todo[1] /\ p \in Partitions
  BY <1>2, Beheaded
<1>4. \E k \in Nat : /\ calls' = [calls EXCEPT ![c] = Querying(calls[c], k)]
                     /\ \/ conns' = Append(conns, [part |-> p, up |-> TRUE, frames |-> <<>>]) /\ k = Len(conns) + 1
                        \/ k \in DOMAIN conns /\ conns[k].part = p /\ conns[k].up /\ UNCHANGED conns
  <2>1. Len(conns) + 1 \in Nat /\ \A k \in DOMAIN conns : k \in Nat
    BY <1>1, Points
  <2> QED
    BY <2>1 DEF Declared, Querying
<1>5. locator' = Append(locator, SequenceQuery(c, p)) /\ UNCHANGED <<chosen, binding, cache, publishers, made, broker, overtaken, used>>
  BY DEF Declared
<1> HIDE DEF p
<1>6. PICK k \in Nat : /\ calls' = [calls EXCEPT ![c] = Querying(calls[c], k)]
                       /\ \/ conns' = Append(conns, [part |-> p, up |-> TRUE, frames |-> <<>>]) /\ k = Len(conns) + 1
                          \/ k \in DOMAIN conns /\ conns[k].part = p /\ conns[k].up /\ UNCHANGED conns
  BY <1>4
<1> DEFINE x == Querying(calls[c], k)
<1>7. /\ x \in Call /\ Same(x, calls[c]) /\ (x.ready <=> calls[c].ready) /\ x.todo = calls[c].todo /\ x.at = "querying"
      /\ x.conn = k /\ x.parts = calls[c].parts
  <2>1. calls[c] \in Call
    BY <1>1
  <2>2. x = Querying(calls[c], k)
    OBVIOUS
  <2> HIDE DEF x
  <2> QED
    BY <2>1, <2>2, CallDeclares
<1> HIDE DEF x
<1>8. OneCall(c, x)
  BY <1>1, <1>6, <1>7, SomeCall DEF x
<1>9. /\ conns' \in Seq(Connection) /\ k \in DOMAIN conns' /\ conns'[k].part = p /\ conns'[k].up
      /\ \A j \in DOMAIN conns : j \in DOMAIN conns' /\ conns'[j] = conns[j]
      /\ \A j \in DOMAIN conns' : j \in DOMAIN conns \/ (j = k /\ conns'[k].frames = <<>>)
  <2>1. CASE conns' = Append(conns, [part |-> p, up |-> TRUE, frames |-> <<>>]) /\ k = Len(conns) + 1
    <3> DEFINE new == [part |-> p, up |-> TRUE, frames |-> <<>>]
    <3>1. new \in Connection /\ new.part = p /\ new.up /\ new.frames = <<>>
      BY <1>3, NewConnection
    <3> HIDE DEF new
    <3>2. conns' = Append(conns, new)
      BY <2>1 DEF new
    <3>3. /\ conns' \in Seq(Connection) /\ Len(conns) \in Nat /\ DOMAIN conns = 1 .. Len(conns)
          /\ DOMAIN conns' = 1 .. Len(conns) + 1 /\ conns'[Len(conns) + 1] = new
          /\ \A j \in DOMAIN conns : conns'[j] = conns[j]
      BY <1>1, <3>1, <3>2, Appended
    <3> QED
      BY <2>1, <3>1, <3>3
  <2>2. CASE k \in DOMAIN conns /\ conns[k].part = p /\ conns[k].up /\ UNCHANGED conns
    BY <1>1, <2>2
  <2> QED
    BY <1>6, <2>1, <2>2
<1>10. Declares(c, p, k)
  BY <1>1, <1>2, <1>3, <1>5, <1>8, <1>9 DEF Declares, x
<1>11. Further
  BY <1>1, <1>7, <1>8, OneFurther
<1>12. Placed(publishers', made', conns')
  <2>1. Placed(publishers, made, conns) /\ publishers' = publishers /\ made' = made
    BY <1>5 DEF Base
  <2>2. \A m \in DOMAIN made : made[m].conn \in DOMAIN conns' /\ conns'[made[m].conn].part = made[m].part
    BY <1>9, <2>1 DEF Placed
  <2>3. \A j \in DOMAIN conns' : ~conns'[j].up => conns'[j].frames = <<>>
    BY <1>9, <2>1 DEF Placed
  <2> QED
    BY <2>1, <2>2, <2>3 DEF Placed
<1>13. \A d \in DOMAIN calls' : CallOk(calls'[d], conns')
  <2>1. CallOk(x, conns')
    BY <1>2, <1>3, <1>7, <1>9 DEF CallOk, Tidy, Same
  <2>2. \A d \in DOMAIN calls : CallOk(calls[d], conns')
    <3>1. \A d \in DOMAIN calls : CallOk(calls[d], conns)
      BY DEF Base
    <3>2. DOMAIN conns \subseteq DOMAIN conns' /\ \A j \in DOMAIN conns : conns'[j].part = conns[j].part
      BY <1>9
    <3> QED
      BY <3>1, <3>2, CallOkStays
  <2> QED
    BY <1>8, <2>1, <2>2 DEF OneCall
<1>14. Asked(locator', calls') /\ locator' \in Seq(Query)
  <2> DEFINE q == SequenceQuery(c, p)
             one == <<q>>
  <2>1. q \in Query /\ q.type = "sequence" /\ q.call = c /\ q.part = p
    BY <1>1, <1>3, QueryFacts
  <2> HIDE DEF q
  <2>2. one \in Seq(Query) /\ DOMAIN one = {1} /\ one[1] = q
    BY <2>1
  <2>3. locator' = locator \o one
    BY <1>1, <1>5, <2>1, AppendIsConcat DEF q
  <2> HIDE DEF one
  <2>4. \A i \in DOMAIN locator : locator[i].call # c
    <3> SUFFICES ASSUME NEW i \in DOMAIN locator, locator[i].call = c PROVE FALSE
      OBVIOUS
    <3>1. Fits(locator[i], calls[c])
      BY <1>1 DEF Asked
    <3>2. locator[i].type \in {"route", "sequence"}
      BY <1>1, Points, QueryFacts
    <3> QED
      BY <1>1, <3>1, <3>2 DEF Fits
  <2>5. Asked(locator, calls')
    <3>1. DOMAIN calls \subseteq DOMAIN calls' /\ \A i \in DOMAIN locator : calls'[locator[i].call] = calls[locator[i].call]
      BY <1>1, <1>8, <2>4 DEF OneCall, Asked
    <3> QED
      BY <1>1, <3>1, AskedStays
  <2>6. c \in DOMAIN calls' /\ calls'[c] = x
    BY <1>8 DEF OneCall
  <2>7. Alone(one) /\ \A j \in DOMAIN one : one[j].call = c /\ Fits(one[j], calls'[c])
    BY <1>3, <1>7, <2>1, <2>2, <2>6 DEF Alone, Fits
  <2> QED
    BY <1>1, <2>2, <2>3, <2>4, <2>5, <2>6, <2>7, AskedMore
<1>15. Base' /\ calls' \in Seq(Call)
  BY <1>8, <1>12, <1>13, <1>14 DEF Base, OneCall
<1>16. TypeOK'
  BY <1>5, <1>9, <1>14, <1>15 DEF TypeOK, chosen, broker
<1> QED
  BY <1>3, <1>5, <1>10, <1>11, <1>15, <1>16 DEF Good

Refuses(c) ==
  calls[c].at = "declaring" /\ Silent(c, Fails(calls[c])) /\ UNCHANGED <<chosen, binding, cache, locator, broker>>

LEMMA RefusedKeeps ==
  ASSUME TypeOK, Base, NEW c \in DOMAIN calls, Refused(c)
  PROVE  Refuses(c) /\ Good' /\ Further
<1>1. /\ calls \in Seq(Call) /\ locator \in Seq(Query) /\ Asked(locator, calls) /\ calls[c] \in Call
      /\ CallOk(calls[c], conns) /\ calls[c].at = "declaring"
  BY CallsAre DEF TypeOK, Base, Refused
<1>2. /\ calls' = [calls EXCEPT ![c] = Fails(calls[c])] /\ Spend("refuse")
      /\ UNCHANGED <<chosen, binding, cache, publishers, made, conns, locator, broker, overtaken>>
  BY DEF Refused, Fails
<1> DEFINE x == Fails(calls[c])
<1>3. /\ x \in Call /\ Same(x, calls[c]) /\ (x.ready <=> calls[c].ready) /\ x.todo = calls[c].todo /\ x.at = "failed"
      /\ x.parts = calls[c].parts
  BY <1>1, CallFails
<1> HIDE DEF x
<1>4. OneCall(c, x)
  BY <1>1, <1>2, <1>3, SomeCall DEF x
<1>5. Silent(c, x)
  BY <1>2, <1>4 DEF Silent
<1>6. Further
  BY <1>1, <1>3, <1>4, OneFurther
<1>7. CallOk(x, conns)
  BY <1>1, <1>3 DEF CallOk, Tidy, Same
<1>8. Asked(locator', calls')
  <2>1. \A i \in DOMAIN locator : locator[i].call # c
    <3> SUFFICES ASSUME NEW i \in DOMAIN locator, locator[i].call = c PROVE FALSE
      OBVIOUS
    <3>1. Fits(locator[i], calls[c])
      BY <1>1 DEF Asked
    <3>2. locator[i].type \in {"route", "sequence"}
      BY <1>1, Points, QueryFacts
    <3> QED
      BY <1>1, <3>1, <3>2 DEF Fits
  <2>2. DOMAIN calls \subseteq DOMAIN calls' /\ \A i \in DOMAIN locator : calls'[locator[i].call] = calls[locator[i].call]
    BY <1>1, <1>4, <2>1 DEF OneCall, Asked
  <2> QED
    BY <1>1, <1>2, <2>2, AskedStays
<1>9. Base' /\ calls' \in Seq(Call)
  BY <1>1, <1>2, <1>3, <1>5, <1>7, <1>8, SilentBase
<1>10. used' \in [Events -> Nat]
  <2>1. "refuse" \in Events /\ used \in [Events -> Nat]
    BY DEF Events, TypeOK
  <2> QED
    BY <1>2, <2>1 DEF Spend
<1>11. TypeOK'
  BY <1>2, <1>9, <1>10 DEF TypeOK, chosen, broker
<1> QED
  BY <1>1, <1>2, <1>5, <1>6, <1>9, <1>11 DEF Refuses, x, Good

LEMMA RebindKeeps ==
  ASSUME TypeOK, Base, NEW k \in Keys, NEW p \in Partitions \cup {0}, Rebind(k, p)
  PROVE  /\ UNCHANGED <<chosen, cache, publishers, made, conns, locator, calls, broker, overtaken>>
         /\ strategy = "key" /\ Good' /\ Further
<1>1. /\ UNCHANGED <<chosen, cache, publishers, made, conns, locator, calls, broker, overtaken>>
      /\ binding' = [binding EXCEPT ![k] = p] /\ strategy = "key" /\ Spend("rebind")
  BY DEF Rebind
<1>2. binding' \in [Keys -> Partitions \cup {0}]
  BY <1>1 DEF TypeOK
<1>3. used' \in [Events -> Nat]
  <2>1. "rebind" \in Events /\ used \in [Events -> Nat]
    BY DEF Events, TypeOK
  <2> QED
    BY <1>1, <2>1 DEF Spend
<1>4. TypeOK'
  BY <1>1, <1>2, <1>3 DEF TypeOK, chosen, broker
<1>5. Base'
  BY <1>1 DEF Base, Placed, CallOk, Asked, Alone, Fits, Tidy
<1>6. Further
  BY <1>1 DEF Further, Same
<1> QED
  BY <1>1, <1>4, <1>5, <1>6 DEF Good

(* The queue of publisher m is written.                                    *)
Flushes(m) ==
  LET k == made[m].conn IN
  /\ m \in DOMAIN made /\ k \in DOMAIN conns /\ conns[k].up /\ made[m].queue # <<>>
  /\ DOMAIN made' = DOMAIN made /\ DOMAIN conns' = DOMAIN conns
  /\ SamePlace(made[m], made'[m]) /\ made'[m].queue = <<>> /\ made'[m].id = made[m].id
  /\ \A x \in DOMAIN made : x # m => made'[x] = made[x]
  /\ conns'[k].part = conns[k].part /\ (conns'[k].up <=> conns[k].up)
  /\ conns'[k].frames = conns[k].frames \o made[m].queue
  /\ \A j \in DOMAIN conns : j # k => conns'[j] = conns[j]
  /\ UNCHANGED <<chosen, binding, cache, publishers, locator, calls, broker, overtaken, used>>

LEMMA OneOf ==
  ASSUME NEW S, NEW s \in Seq(S), NEW n \in DOMAIN s, NEW y \in S, NEW t, t = [s EXCEPT ![n] = y]
  PROVE  /\ t \in Seq(S) /\ DOMAIN t = DOMAIN s /\ Len(t) = Len(s) /\ t[n] = y
         /\ \A i \in DOMAIN s : i # n => t[i] = s[i]
<1>1. Len(s) \in Nat /\ DOMAIN s = 1 .. Len(s) /\ \A i \in DOMAIN s : s[i] \in S
  BY Points
<1>2. DOMAIN t = 1 .. Len(s) /\ t = [i \in 1 .. Len(s) |-> t[i]] /\ t[n] = y /\ \A i \in DOMAIN s : i # n => t[i] = s[i]
  BY <1>1
<1>3. \A i \in 1 .. Len(s) : t[i] \in S
  BY <1>1, <1>2
<1> QED
  BY <1>1, <1>2, <1>3, ByPoints

LEMMA FlushKeeps ==
  ASSUME TypeOK, Base, NEW m \in DOMAIN made, Flush(m)
  PROVE  Flushes(m) /\ Good' /\ Further
<1> DEFINE k == made[m].conn
           x == Stopped(made[m], <<>>, made[m].state)
           fs == conns[k].frames \o made[m].queue
           y == Writes(conns[k], fs)
<1>1. /\ made \in Seq(Publisher) /\ conns \in Seq(Connection) /\ Placed(publishers, made, conns)
      /\ made[m] \in Publisher /\ k \in DOMAIN conns
  BY Points DEF TypeOK, Base, Placed
<1>2. conns[k] \in Connection
  BY <1>1, Points
<1>3. made[m].queue \in Seq(Frames) /\ conns[k].frames \in Seq(Frames) /\ made[m].state \in States /\ <<>> \in Seq(Frames)
  BY <1>1, <1>2, PublisherFacts, ConnectionFacts
<1>4. /\ made[m].queue # <<>> /\ conns[k].up
      /\ conns' = [conns EXCEPT ![k] = y] /\ made' = [made EXCEPT ![m].queue = <<>>]
      /\ UNCHANGED <<chosen, binding, cache, publishers, locator, calls, broker, overtaken, used>>
  BY DEF Flush, Writes
<1>5. [made[m] EXCEPT !.queue = <<>>] = x
  <2>1. [made[m] EXCEPT !.state = made[m].state] = made[m]
    BY <1>1 DEF Publisher
  <2> QED
    BY <1>1, <2>1 DEF Stopped, Publisher
<1>6. made' = [made EXCEPT ![m] = x]
  BY <1>4, <1>5
<1>7. fs \in Seq(Frames)
  BY <1>3, AllMore
<1>8. /\ x \in Publisher /\ x.part = made[m].part /\ x.conn = made[m].conn /\ x.state = made[m].state
      /\ x.queue = <<>> /\ x.id = made[m].id
  <2>1. PICK q : q = <<>>
    OBVIOUS
  <2>2. x = Stopped(made[m], q, made[m].state) /\ made[m] \in Publisher
    BY <1>1, <2>1
  <2>3. q \in Seq(Frames) /\ made[m].state \in States
    BY <1>3, <2>1
  <2> HIDE DEF x
  <2>4. x \in Publisher
    BY <2>2, <2>3, PublisherStops
  <2>5. x.part = made[m].part
    BY <2>2, <2>3, PublisherStops
  <2>6. x.conn = made[m].conn /\ x.state = made[m].state /\ x.id = made[m].id
    BY <2>2, <2>3, PublisherStops
  <2>7. x.queue = q
    BY <2>2, <2>3, PublisherStops
  <2> QED
    BY <2>1, <2>4, <2>5, <2>6, <2>7
<1> HIDE DEF x, fs
<1>9. y \in Connection /\ y.part = conns[k].part /\ (y.up <=> conns[k].up) /\ y.frames = fs
  BY <1>2, <1>7, ConnectionWrites
<1> HIDE DEF y
<1>10. /\ made' \in Seq(Publisher) /\ DOMAIN made' = DOMAIN made /\ made'[m] = x
       /\ \A i \in DOMAIN made : i # m => made'[i] = made[i]
  BY <1>1, <1>6, <1>8, OneOf
<1>11. /\ conns' \in Seq(Connection) /\ DOMAIN conns' = DOMAIN conns /\ conns'[k] = y
       /\ \A i \in DOMAIN conns : i # k => conns'[i] = conns[i]
  BY <1>1, <1>4, <1>9, OneOf
<1>12. Flushes(m)
  BY <1>1, <1>4, <1>8, <1>9, <1>10, <1>11 DEF Flushes, SamePlace, fs
<1>13. /\ \A i \in DOMAIN made : made'[i].part = made[i].part /\ made'[i].conn = made[i].conn
       /\ \A i \in DOMAIN conns : conns'[i].part = conns[i].part
       /\ \A i \in DOMAIN conns : ~conns'[i].up => conns'[i] = conns[i] /\ ~conns[i].up
  BY <1>4, <1>8, <1>9, <1>10, <1>11
<1>14. Placed(publishers', made', conns')
  <2>1. \A p \in Partitions : publishers[p] # 0 => publishers[p] \in DOMAIN made' /\ made'[publishers[p]].part = p
    BY <1>1, <1>10, <1>13 DEF Placed
  <2>2. \A i \in DOMAIN made' : made'[i].conn \in DOMAIN conns' /\ conns'[made'[i].conn].part = made'[i].part
    <3>1. \A i \in DOMAIN made : made[i].conn \in DOMAIN conns /\ conns[made[i].conn].part = made[i].part
      BY <1>1 DEF Placed
    <3> QED
      BY <1>10, <1>11, <1>13, <3>1
  <2>3. \A i \in DOMAIN conns' : ~conns'[i].up => conns'[i].frames = <<>>
    BY <1>1, <1>11, <1>13 DEF Placed
  <2> QED
    BY <1>4, <2>1, <2>2, <2>3 DEF Placed
<1>15. \A d \in DOMAIN calls' : CallOk(calls'[d], conns')
  <2>1. \A d \in DOMAIN calls : CallOk(calls[d], conns)
    BY DEF Base
  <2>2. DOMAIN conns \subseteq DOMAIN conns' /\ \A i \in DOMAIN conns : conns'[i].part = conns[i].part
    BY <1>11, <1>13
  <2>3. calls' = calls
    BY <1>4
  <2> QED
    BY <2>1, <2>2, <2>3, CallOkStays
<1>16. Asked(locator', calls')
  BY <1>4 DEF Base
<1>17. Base'
  BY <1>14, <1>15, <1>16 DEF Base
<1>18. TypeOK'
  BY <1>4, <1>10, <1>11 DEF TypeOK, chosen, broker
<1>19. Further
  BY <1>4 DEF Further, Same
<1> QED
  BY <1>12, <1>17, <1>18, <1>19 DEF Good

(* The broker takes the first message on connection k.                     *)
Stores(k) ==
  LET f == Head(conns[k].frames)
      p == conns[k].part
  IN
  /\ k \in DOMAIN conns /\ conns[k].up /\ conns[k].frames # <<>> /\ f.call # 0
  /\ DOMAIN conns' = DOMAIN conns
  /\ conns'[k].part = p /\ (conns'[k].up <=> conns[k].up) /\ conns'[k].frames = Tail(conns[k].frames)
  /\ \A j \in DOMAIN conns : j # k => conns'[j] = conns[j]
  /\ \A q \in Partitions : q # p => last'[q] = last[q] /\ log'[q] = log[q]
  /\ \/ /\ f.id > last[p] /\ last'[p] = f.id /\ log'[p] = Append(log[p], f.call)
        /\ UNCHANGED discarded
     \/ /\ f.id <= last[p] /\ discarded' = discarded \cup {<<p, f.call>>}
        /\ UNCHANGED <<last, log>>
  /\ UNCHANGED <<chosen, binding, cache, publishers, made, locator, calls, overtaken, used>>

LEMMA BrokerStoresKeeps ==
  ASSUME TypeOK, Base, NEW k \in DOMAIN conns, BrokerStores(k)
  PROVE  Stores(k) /\ Good' /\ Further
<1> DEFINE f == Head(conns[k].frames)
           p == conns[k].part
           rest == Tail(conns[k].frames)
           y == Writes(conns[k], rest)
<1>1. conns \in Seq(Connection) /\ Placed(publishers, made, conns) /\ conns[k] \in Connection
      /\ last \in [Partitions -> Int] /\ log \in [Partitions -> Seq(Nat)] /\ discarded \subseteq Partitions \X Nat
  BY Points DEF TypeOK, Base
<1>2. conns[k].frames \in Seq(Frames) /\ p \in Partitions /\ conns[k].frames # <<>> /\ conns[k].up /\ f.call # 0
  BY <1>1, ConnectionFacts DEF BrokerStores
<1>3. f \in Frames /\ rest \in Seq(Frames)
  BY <1>2, OneLess
<1>4. f.call \in Nat /\ f.id \in Nat
  BY <1>3 DEF Frames
<1>5. /\ conns' = [conns EXCEPT ![k] = y]
      /\ \/ /\ f.id > last[p] /\ last' = [last EXCEPT ![p] = f.id]
            /\ log' = [log EXCEPT ![p] = Append(@, f.call)]
            /\ UNCHANGED discarded
         \/ /\ f.id <= last[p] /\ discarded' = discarded \cup {<<p, f.call>>}
            /\ UNCHANGED <<last, log>>
      /\ UNCHANGED <<chosen, binding, cache, publishers, made, locator, calls, overtaken, used>>
  BY DEF BrokerStores, Writes
<1> HIDE DEF f, p, rest
<1>6. y \in Connection /\ y.part = conns[k].part /\ (y.up <=> conns[k].up) /\ y.frames = rest
  BY <1>1, <1>3, ConnectionWrites
<1> HIDE DEF y
<1>7. /\ conns' \in Seq(Connection) /\ DOMAIN conns' = DOMAIN conns /\ conns'[k] = y
      /\ \A i \in DOMAIN conns : i # k => conns'[i] = conns[i]
  BY <1>1, <1>5, <1>6, OneOf
<1>8. /\ last' \in [Partitions -> Int] /\ log' \in [Partitions -> Seq(Nat)] /\ discarded' \subseteq Partitions \X Nat
      /\ \A q \in Partitions : q # p => last'[q] = last[q] /\ log'[q] = log[q]
      /\ \/ /\ f.id > last[p] /\ last'[p] = f.id /\ log'[p] = Append(log[p], f.call)
            /\ UNCHANGED discarded
         \/ /\ f.id <= last[p] /\ discarded' = discarded \cup {<<p, f.call>>}
            /\ UNCHANGED <<last, log>>
  <2>1. CASE /\ f.id > last[p] /\ last' = [last EXCEPT ![p] = f.id]
             /\ log' = [log EXCEPT ![p] = Append(@, f.call)] /\ UNCHANGED discarded
    <3> DEFINE s == Append(log[p], f.call)
    <3>1. s \in Seq(Nat)
      BY <1>1, <1>2, <1>4, Appended
    <3>2. log' = [log EXCEPT ![p] = s]
      BY <2>1
    <3> HIDE DEF s
    <3>3. log' \in [Partitions -> Seq(Nat)] /\ log'[p] = s /\ \A q \in Partitions : q # p => log'[q] = log[q]
      BY <1>1, <1>2, <3>1, <3>2
    <3>4. last' \in [Partitions -> Int] /\ last'[p] = f.id /\ \A q \in Partitions : q # p => last'[q] = last[q]
      BY <1>1, <1>2, <1>4, <2>1
    <3> QED
      BY <1>1, <2>1, <3>3, <3>4 DEF s
  <2>2. CASE f.id <= last[p] /\ discarded' = discarded \cup {<<p, f.call>>} /\ UNCHANGED <<last, log>>
    BY <1>1, <1>2, <1>4, <2>2
  <2> QED
    BY <1>5, <2>1, <2>2
<1>9. Stores(k)
  <2>1. UNCHANGED <<chosen, binding, cache, publishers, made, locator, calls, overtaken, used>>
    BY <1>5
  <2> QED
    BY <1>2, <1>6, <1>7, <1>8, <2>1 DEF Stores, f, p, rest
<1>10. Placed(publishers', made', conns')
  <2>1. publishers' = publishers /\ made' = made
    BY <1>5
  <2>2. \A i \in DOMAIN made : made[i].conn \in DOMAIN conns' /\ conns'[made[i].conn].part = made[i].part
    BY <1>1, <1>6, <1>7, ZenonT(30) DEF Placed
  <2>3. \A i \in DOMAIN conns' : ~conns'[i].up => conns'[i].frames = <<>>
    BY <1>1, <1>2, <1>6, <1>7 DEF Placed
  <2> QED
    BY <1>1, <2>1, <2>2, <2>3 DEF Placed
<1>11. \A d \in DOMAIN calls' : CallOk(calls'[d], conns')
  <2>1. \A d \in DOMAIN calls : CallOk(calls[d], conns)
    BY DEF Base
  <2>2. DOMAIN conns \subseteq DOMAIN conns' /\ \A i \in DOMAIN conns : conns'[i].part = conns[i].part
    BY <1>6, <1>7
  <2>3. calls' = calls
    BY <1>5
  <2> QED
    BY <2>1, <2>2, <2>3, CallOkStays
<1>12. Asked(locator', calls')
  BY <1>5 DEF Base
<1>13. Base'
  BY <1>10, <1>11, <1>12 DEF Base
<1>14. TypeOK'
  BY <1>5, <1>7, <1>8 DEF TypeOK, chosen
<1>15. Further
  BY <1>5 DEF Further, Same
<1> QED
  BY <1>9, <1>13, <1>14, <1>15 DEF Good

(* The broker ends connection k.                                           *)
Finishes(k) ==
  LET f == Head(conns[k].frames)
      over == \A m \in DOMAIN made' : made'[m].state # "closing"
  IN
  /\ k \in DOMAIN conns /\ conns[k].up /\ conns[k].frames # <<>> /\ f.call = 0 /\ f.id \in Nat
  /\ DOMAIN conns' = DOMAIN conns
  /\ conns'[k].part = conns[k].part /\ ~conns'[k].up /\ conns'[k].frames = <<>>
  /\ \A j \in DOMAIN conns : j # k => conns'[j] = conns[j]
  /\ DOMAIN made' = DOMAIN made
  /\ \A m \in DOMAIN made : /\ made'[m].part = made[m].part /\ made'[m].conn = made[m].conn
                            /\ made'[m].id = made[m].id /\ made'[m].queue = made[m].queue
                            /\ made'[m].state = IF m = f.id THEN "closed" ELSE made[m].state
  /\ DOMAIN calls' = DOMAIN calls /\ Len(calls') = Len(calls)
  /\ \A c \in DOMAIN calls :
       \/ calls'[c] = calls[c] /\ ~(over /\ calls[c].at = "closing")
       \/ /\ over /\ calls[c].at = "closing" /\ calls'[c].at = "done"
          /\ Same(calls'[c], calls[c]) /\ calls'[c].parts = calls[c].parts
  /\ publishers' = IF over THEN ClosedMap ELSE publishers
  /\ UNCHANGED <<chosen, binding, cache, locator, broker, overtaken, used>>

Returns(x) == [x EXCEPT !.at = "done"]
LEMMA CallReturns ==
  ASSUME NEW x \in Call, NEW y, y = Returns(x)
  PROVE  /\ y \in Call /\ Same(y, x) /\ (y.ready <=> x.ready) /\ y.todo = x.todo /\ y.at = "done"
         /\ y.conn = x.conn /\ y.parts = x.parts
<1> DEFINE Q == Seq(Partitions)
           K == Seq(Keys)
<1>1. Call = [op : Sends \cup {"batch", "close"}, keys : K, n : Nat, ready : BOOLEAN, conn : Nat,
              parts : Q, todo : Q, at : Awaiting \cup {"done", "failed"}]
  BY DEF Call
<1> HIDE DEF Q, K
<1> QED
  BY <1>1 DEF Same, Returns

LEMMA BrokerClosesKeeps ==
  ASSUME TypeOK, Base, NEW k \in DOMAIN conns, BrokerCloses(k)
  PROVE  Finishes(k) /\ Good' /\ Further
<1> DEFINE f == Head(conns[k].frames)
           over == \A m \in DOMAIN made' : made'[m].state # "closing"
           y == Ends(conns[k])
           n == Len(made)
           l == Len(calls)
<1>1. /\ conns \in Seq(Connection) /\ Placed(publishers, made, conns) /\ conns[k] \in Connection
      /\ made \in Seq(Publisher) /\ n \in Nat /\ DOMAIN made = 1 .. n /\ \A m \in 1 .. n : made[m] \in Publisher
      /\ calls \in Seq(Call) /\ l \in Nat /\ DOMAIN calls = 1 .. l /\ \A c \in 1 .. l : calls[c] \in Call
      /\ publishers \in [Partitions -> Nat]
  BY Points DEF TypeOK, Base
<1>2. conns[k].frames \in Seq(Frames) /\ conns[k].frames # <<>> /\ conns[k].up /\ f.call = 0
  BY <1>1, ConnectionFacts DEF BrokerCloses
<1>3. f.id \in Nat
  BY <1>2, OneLess DEF Frames
<1>4. /\ conns' = [conns EXCEPT ![k] = y]
      /\ made' = [made EXCEPT ![f.id].state = "closed"]
      /\ calls' = [c \in DOMAIN calls |-> IF over /\ calls[c].at = "closing" THEN Returns(calls[c]) ELSE calls[c]]
      /\ publishers' = IF over THEN ClosedMap ELSE publishers
      /\ UNCHANGED <<chosen, binding, cache, locator, broker, overtaken, used>>
  BY DEF BrokerCloses, Ends, Returns
<1> HIDE DEF f, over
<1>5. y \in Connection /\ y.part = conns[k].part /\ ~y.up /\ y.frames = <<>>
  BY <1>1, ConnectionEnds
<1> HIDE DEF y
<1>6. /\ conns' \in Seq(Connection) /\ DOMAIN conns' = DOMAIN conns /\ conns'[k] = y
      /\ \A i \in DOMAIN conns : i # k => conns'[i] = conns[i]
  BY <1>1, <1>4, <1>5, OneOf
<1>7. /\ made' \in Seq(Publisher) /\ DOMAIN made' = DOMAIN made
      /\ \A m \in DOMAIN made : /\ made'[m].part = made[m].part /\ made'[m].conn = made[m].conn
                                /\ made'[m].id = made[m].id /\ made'[m].queue = made[m].queue
                                /\ made'[m].state = IF m = f.id THEN "closed" ELSE made[m].state
  <2>1. made' = [m \in 1 .. n |-> made'[m]]
        /\ \A m \in 1 .. n : made'[m] = IF m = f.id THEN [made[m] EXCEPT !.state = "closed"] ELSE made[m]
    BY <1>1, <1>4
  <2>2. ASSUME NEW m \in 1 .. n
        PROVE  /\ made'[m] \in Publisher /\ made'[m].part = made[m].part /\ made'[m].conn = made[m].conn
               /\ made'[m].id = made[m].id /\ made'[m].queue = made[m].queue
               /\ made'[m].state = IF m = f.id THEN "closed" ELSE made[m].state
    <3>1. CASE m # f.id
      BY <1>1, <2>1, <3>1
    <3>2. CASE m = f.id
      <4>1. made[m] \in Publisher /\ made'[m] = [made[m] EXCEPT !.state = "closed"]
        BY <1>1, <2>1, <3>2
      <4>2. PICK x : x = made[m]
        OBVIOUS
      <4>3. x \in Publisher /\ made'[m] = [x EXCEPT !.state = "closed"]
        BY <4>1, <4>2
      <4>4. [x EXCEPT !.queue = x.queue] = x
        BY <4>3 DEF Publisher
      <4>5. [x EXCEPT !.state = "closed"] = Stopped(x, x.queue, "closed")
        BY <4>3, <4>4 DEF Stopped, Publisher
      <4>6. x.queue \in Seq(Frames) /\ "closed" \in States
        BY <4>3, PublisherFacts DEF States
      <4>7. PICK s : s = "closed"
        OBVIOUS
      <4>8. made'[m] = Stopped(x, x.queue, s) /\ s \in States
        BY <4>3, <4>5, <4>6, <4>7
      <4>9. PICK z : z = made'[m]
        OBVIOUS
      <4>10. z = Stopped(x, x.queue, s) /\ x \in Publisher /\ x.queue \in Seq(Frames) /\ s \in States
        BY <4>3, <4>6, <4>8, <4>9
      <4>11. z \in Publisher
        BY <4>10, PublisherStops
      <4>12. z.part = x.part /\ z.conn = x.conn /\ z.id = x.id
        BY <4>10, PublisherStops
      <4>13. z.queue = x.queue /\ z.state = s
        BY <4>10, PublisherStops
      <4> QED
        BY <3>2, <4>2, <4>7, <4>9, <4>11, <4>12, <4>13
    <3> QED
      BY <3>1, <3>2
  <2>3. made' \in Seq(Publisher) /\ DOMAIN made' = 1 .. n
    BY <1>1, <2>1, <2>2, ByPoints
  <2> QED
    BY <1>1, <2>2, <2>3
<1>8. /\ calls' \in Seq(Call) /\ DOMAIN calls' = DOMAIN calls /\ Len(calls') = Len(calls)
      /\ \A c \in DOMAIN calls :
           \/ calls'[c] = calls[c] /\ ~(over /\ calls[c].at = "closing")
           \/ /\ over /\ calls[c].at = "closing" /\ calls'[c].at = "done"
              /\ Same(calls'[c], calls[c]) /\ calls'[c].parts = calls[c].parts
              /\ calls'[c].todo = calls[c].todo /\ (calls'[c].ready <=> calls[c].ready)
  <2>1. calls' = [c \in 1 .. l |-> calls'[c]]
        /\ \A c \in 1 .. l : calls'[c] = IF over /\ calls[c].at = "closing" THEN Returns(calls[c]) ELSE calls[c]
    BY <1>1, <1>4
  <2>2. ASSUME NEW c \in 1 .. l
        PROVE  /\ calls'[c] \in Call
               /\ \/ calls'[c] = calls[c] /\ ~(over /\ calls[c].at = "closing")
                  \/ /\ over /\ calls[c].at = "closing" /\ calls'[c].at = "done"
                     /\ Same(calls'[c], calls[c]) /\ calls'[c].parts = calls[c].parts
                     /\ calls'[c].todo = calls[c].todo /\ (calls'[c].ready <=> calls[c].ready)
    <3>1. CASE over /\ calls[c].at = "closing"
      <4>1. calls'[c] = Returns(calls[c]) /\ calls[c] \in Call
        BY <1>1, <2>1, <3>1
      <4> QED
        BY <3>1, <4>1, CallReturns
    <3>2. CASE ~(over /\ calls[c].at = "closing")
      BY <1>1, <2>1, <3>2
    <3> QED
      BY <3>1, <3>2
  <2>3. calls' \in Seq(Call) /\ Len(calls') = l /\ DOMAIN calls' = 1 .. l
    BY <1>1, <2>1, <2>2, ByPoints
  <2> QED
    BY <1>1, <2>2, <2>3
<1>9. Finishes(k)
  <2>1. UNCHANGED <<chosen, binding, cache, locator, broker, overtaken, used>>
    BY <1>4
  <2>2. publishers' = IF over THEN ClosedMap ELSE publishers
    BY <1>4
  <2> QED
    BY <1>2, <1>3, <1>5, <1>6, <1>7, <1>8, <2>1, <2>2 DEF Finishes, f, over
<1>10. publishers' \in [Partitions -> Nat] /\ (publishers' = publishers \/ \A p \in Partitions : publishers'[p] = 0)
  BY <1>1, <1>4 DEF ClosedMap
<1>11. Placed(publishers', made', conns')
  <2>1. \A p \in Partitions : publishers'[p] # 0 => publishers'[p] \in DOMAIN made' /\ made'[publishers'[p]].part = p
    BY <1>1, <1>7, <1>10 DEF Placed
  <2>2. \A i \in DOMAIN conns : conns'[i].part = conns[i].part
    BY <1>5, <1>6
  <2>3. \A i \in DOMAIN made' : made'[i].conn \in DOMAIN conns' /\ conns'[made'[i].conn].part = made'[i].part
    <3>1. \A i \in DOMAIN made : made[i].conn \in DOMAIN conns /\ conns[made[i].conn].part = made[i].part
      BY <1>1 DEF Placed
    <3> QED
      BY <1>6, <1>7, <2>2, <3>1
  <2>4. \A i \in DOMAIN conns' : ~conns'[i].up => conns'[i].frames = <<>>
    BY <1>1, <1>5, <1>6 DEF Placed
  <2> QED
    BY <2>1, <2>3, <2>4 DEF Placed
<1>12. \A d \in DOMAIN calls' : CallOk(calls'[d], conns')
  <2>1. DOMAIN conns \subseteq DOMAIN conns' /\ \A i \in DOMAIN conns : conns'[i].part = conns[i].part
    BY <1>5, <1>6
  <2>2. \A d \in DOMAIN calls : CallOk(calls[d], conns')
    BY <2>1, CallOkStays DEF Base
  <2>3. \A d \in DOMAIN calls : CallOk(calls'[d], conns')
    <3> SUFFICES ASSUME NEW d \in DOMAIN calls PROVE CallOk(calls'[d], conns')
      OBVIOUS
    <3>1. CASE calls'[d] = calls[d]
      BY <2>2, <3>1
    <3>2. CASE calls'[d] # calls[d]
      <4>1. /\ calls'[d].at = "done" /\ calls'[d].op = calls[d].op /\ calls'[d].parts = calls[d].parts
            /\ calls'[d].todo = calls[d].todo /\ (calls'[d].ready <=> calls[d].ready)
        BY <1>8, <3>2 DEF Same
      <4>2. Tidy(calls[d])
        BY <2>2 DEF CallOk
      <4> QED
        BY <4>1, <4>2 DEF CallOk, Tidy
    <3> QED
      BY <3>1, <3>2
  <2> QED
    BY <1>8, <2>3
<1>13. Asked(locator', calls')
  <2>1. Asked(locator, calls) /\ locator \in Seq(Query) /\ locator' = locator
    BY <1>4 DEF Base, TypeOK
  <2>2. ASSUME NEW i \in DOMAIN locator
        PROVE  calls'[locator[i].call] = calls[locator[i].call]
    <3>1. locator[i].call \in DOMAIN calls /\ Fits(locator[i], calls[locator[i].call])
      BY <2>1 DEF Asked
    <3>2. locator[i].type \in {"route", "sequence"}
      BY <2>1, Points, QueryFacts
    <3>3. calls[locator[i].call].at # "closing"
      BY <3>1, <3>2 DEF Fits
    <3> QED
      BY <1>8, <3>1, <3>3
  <2> QED
    BY <1>8, <2>1, <2>2, AskedStays
<1>14. Base'
  BY <1>11, <1>12, <1>13 DEF Base
<1>15. TypeOK'
  BY <1>4, <1>6, <1>7, <1>8, <1>10 DEF TypeOK, chosen, broker
<1>16. Further
  BY <1>8 DEF Further, Same
<1> QED
  BY <1>9, <1>14, <1>15, <1>16 DEF Good

(* The application closes the publishers of the map that are open.         *)
Open == {m \in InMap : made[m].state = "open"}
Goodbye(m) == IF Waits(m) THEN <<CloseFrame(m)>> ELSE <<>>
Shuts ==
  /\ MayStart("close") /\ \A d \in DOMAIN calls : calls[d].at # "closing"
  /\ \E x \in Call :
       /\ OneCall(Len(calls) + 1, x) /\ Len(calls) + 1 \notin DOMAIN calls
       /\ x.op = "close" /\ x.keys = <<>> /\ x.parts = <<>> /\ x.todo = <<>> /\ x.ready
       /\ \/ x.at = "closing" /\ UNCHANGED publishers
          \/ x.at = "done" /\ (\A m \in Open : ~Waits(m)) /\ publishers' = ClosedMap
  /\ DOMAIN made' = DOMAIN made /\ DOMAIN conns' = DOMAIN conns /\ Open \subseteq DOMAIN made
  /\ \A m \in DOMAIN made :
       /\ made'[m].part = made[m].part /\ made'[m].conn = made[m].conn /\ made'[m].id = made[m].id
       /\ made'[m].queue = IF m \in Open /\ conns[made[m].conn].up THEN <<>> ELSE made[m].queue
       /\ made'[m].state = IF m \notin Open THEN made[m].state ELSE IF Waits(m) THEN "closing" ELSE "closed"
  /\ \A k \in DOMAIN conns :
       /\ conns'[k].part = conns[k].part /\ (conns'[k].up <=> conns[k].up)
       /\ \/ conns'[k] = conns[k] /\ (~conns[k].up \/ \A m \in Open : made[m].conn # k)
          \/ \E m \in Open : /\ made[m].conn = k /\ conns[k].up
                             /\ conns'[k].frames = conns[k].frames \o made[m].queue \o Goodbye(m)
  /\ UNCHANGED <<chosen, binding, cache, locator, broker, overtaken, used>>

LEMMA StartCloseKeeps ==
  ASSUME TypeOK, Base, StartClose
  PROVE  Shuts /\ Good' /\ Further
<1> DEFINE n == Len(made)
           l == Len(conns)
           ms == Open
           first(k) == CHOOSE x \in ms : made[x].conn = k
           q(m) == IF conns[made[m].conn].up THEN <<>> ELSE made[m].queue
           s(m) == IF Waits(m) THEN "closing" ELSE "closed"
           fs(k) == conns[k].frames \o made[first(k)].queue \o Goodbye(first(k))
           closing == [op |-> "close", keys |-> <<>>, n |-> 0, ready |-> TRUE, conn |-> 0,
                       parts |-> <<>>, todo |-> <<>>, at |-> "closing"]
<1>1. /\ conns \in Seq(Connection) /\ Placed(publishers, made, conns)
      /\ l \in Nat /\ DOMAIN conns = 1 .. l /\ \A k \in 1 .. l : conns[k] \in Connection
      /\ made \in Seq(Publisher) /\ n \in Nat /\ DOMAIN made = 1 .. n /\ \A m \in 1 .. n : made[m] \in Publisher
      /\ calls \in Seq(Call) /\ publishers \in [Partitions -> Nat]
  BY Points DEF TypeOK, Base
<1>2. ms \subseteq DOMAIN made
  BY <1>1 DEF Placed, InMap, Open
<1>3. /\ made' = [m \in DOMAIN made |-> IF m \notin ms THEN made[m] ELSE Stopped(made[m], q(m), s(m))]
      /\ conns' = [k \in DOMAIN conns |->
           IF ~conns[k].up \/ \A m \in ms : made[m].conn # k THEN conns[k] ELSE Writes(conns[k], fs(k))]
  <2>1. made' = [m \in DOMAIN made |->
       IF m \notin ms THEN made[m]
       ELSE [made[m] EXCEPT !.queue = IF conns[made[m].conn].up THEN <<>> ELSE @,
                            !.state = IF Waits(m) THEN "closing" ELSE "closed"]]
    BY DEF StartClose, Open
  <2>2. \A m \in DOMAIN made :
          [made[m] EXCEPT !.queue = IF conns[made[m].conn].up THEN <<>> ELSE @,
                          !.state = IF Waits(m) THEN "closing" ELSE "closed"] = Stopped(made[m], q(m), s(m))
    BY SMTT(30) DEF Stopped
  <2>3. conns' = [k \in DOMAIN conns |->
           IF ~conns[k].up \/ \A m \in ms : made[m].conn # k THEN conns[k]
           ELSE [conns[k] EXCEPT !.frames = fs(k)]]
    BY DEF StartClose, Open, Goodbye
  <2>4. \A k \in DOMAIN conns : [conns[k] EXCEPT !.frames = fs(k)] = Writes(conns[k], fs(k))
    BY SMTT(30) DEF Writes
  <2> HIDE DEF ms, q, s, fs
  <2> QED
    BY <2>1, <2>2, <2>3, <2>4, ZenonT(30)
<1>4. /\ MayStart("close") /\ \A d \in DOMAIN calls : calls[d].at # "closing"
      /\ \/ /\ calls' = Append(calls, closing) /\ UNCHANGED publishers
         \/ /\ calls' = Append(calls, [closing EXCEPT !.at = "done"]) /\ publishers' = ClosedMap
            /\ \A m \in ms : ~Waits(m)
      /\ UNCHANGED <<chosen, binding, cache, locator, broker, overtaken, used>>
  BY DEF StartClose, Open
<1>5. PICK x \in Call :
         /\ calls' = Append(calls, x)
         /\ x.op = "close" /\ x.keys = <<>> /\ x.parts = <<>> /\ x.todo = <<>> /\ x.ready
         /\ \/ x.at = "closing" /\ UNCHANGED publishers
            \/ x.at = "done" /\ (\A m \in ms : ~Waits(m)) /\ publishers' = ClosedMap
  <2>1. closing \in Call /\ [closing EXCEPT !.at = "done"] \in Call
    <3> DEFINE Q == Seq(Partitions)
               K == Seq(Keys)
    <3>1. /\ Call = [op : Sends \cup {"batch", "close"}, keys : K, n : Nat, ready : BOOLEAN, conn : Nat,
                     parts : Q, todo : Q, at : Awaiting \cup {"done", "failed"}]
          /\ <<>> \in Q /\ <<>> \in K /\ "closing" \in Awaiting
      BY DEF Call, Awaiting
    <3> HIDE DEF Q, K
    <3>2. closing \in Call
      BY <3>1
    <3>3. [closing EXCEPT !.at = "done"] \in Call
      BY <3>1
    <3> QED
      BY <3>2, <3>3
  <2> HIDE DEF ms
  <2>2. CASE calls' = Append(calls, closing) /\ UNCHANGED publishers
    BY <2>1, <2>2
  <2>3. CASE calls' = Append(calls, [closing EXCEPT !.at = "done"]) /\ publishers' = ClosedMap /\ \A m \in ms : ~Waits(m)
    BY <2>1, <2>3
  <2> QED
    BY <1>4, <2>2, <2>3
<1>6. OneCall(Len(calls) + 1, x) /\ Len(calls) + 1 \notin DOMAIN calls
  BY <1>1, <1>5, NextCall
<1>7. /\ made' \in Seq(Publisher) /\ DOMAIN made' = DOMAIN made
      /\ \A m \in DOMAIN made :
           /\ made'[m].part = made[m].part /\ made'[m].conn = made[m].conn /\ made'[m].id = made[m].id
           /\ made'[m].queue = IF m \in Open /\ conns[made[m].conn].up THEN <<>> ELSE made[m].queue
           /\ made'[m].state = IF m \notin Open THEN made[m].state ELSE IF Waits(m) THEN "closing" ELSE "closed"
  <2>1. made' = [m \in 1 .. n |-> made'[m]]
        /\ \A m \in 1 .. n : made'[m] = IF m \notin ms THEN made[m] ELSE Stopped(made[m], q(m), s(m))
    <3> HIDE DEF ms, q, s
    <3> QED
      BY <1>1, <1>3
  <2>2. ASSUME NEW m \in 1 .. n
        PROVE  /\ made'[m] \in Publisher
               /\ made'[m].part = made[m].part /\ made'[m].conn = made[m].conn /\ made'[m].id = made[m].id
               /\ made'[m].queue = IF m \in Open /\ conns[made[m].conn].up THEN <<>> ELSE made[m].queue
               /\ made'[m].state = IF m \notin Open THEN made[m].state ELSE IF Waits(m) THEN "closing" ELSE "closed"
    <3>1. CASE m \notin ms
      BY <1>1, <2>1, <3>1
    <3>2. CASE m \in ms
      <4>1. made'[m] = Stopped(made[m], q(m), s(m)) /\ made[m] \in Publisher
        BY <1>1, <2>1, <3>2
      <4>2. made[m].queue \in Seq(Frames)
        BY <4>1, PublisherFacts
      <4>3. q(m) \in Seq(Frames) /\ s(m) \in States
        BY <4>2 DEF States
      <4>4. PICK z, a, b : z = made'[m] /\ a = q(m) /\ b = s(m)
        OBVIOUS
      <4>5. z = Stopped(made[m], a, b) /\ a \in Seq(Frames) /\ b \in States
        BY <4>1, <4>3, <4>4
      <4>6. z \in Publisher
        BY <4>1, <4>5, PublisherStops
      <4>7. z.part = made[m].part /\ z.conn = made[m].conn /\ z.id = made[m].id
        BY <4>1, <4>5, PublisherStops
      <4>8. z.queue = a /\ z.state = b
        BY <4>1, <4>5, PublisherStops
      <4> QED
        BY <3>2, <4>4, <4>6, <4>7, <4>8
    <3> QED
      BY <3>1, <3>2
  <2>3. made' \in Seq(Publisher) /\ DOMAIN made' = 1 .. n
    BY <1>1, <2>1, <2>2, ByPoints
  <2> QED
    BY <1>1, <2>2, <2>3
<1>8. /\ conns' \in Seq(Connection) /\ DOMAIN conns' = DOMAIN conns
      /\ \A k \in DOMAIN conns :
           /\ conns'[k].part = conns[k].part /\ (conns'[k].up <=> conns[k].up)
           /\ \/ conns'[k] = conns[k] /\ (~conns[k].up \/ \A m \in Open : made[m].conn # k)
              \/ \E m \in Open : /\ made[m].conn = k /\ conns[k].up
                                 /\ conns'[k].frames = conns[k].frames \o made[m].queue \o Goodbye(m)
  <2>1. conns' = [k \in 1 .. l |-> conns'[k]]
        /\ \A k \in 1 .. l : conns'[k] = IF ~conns[k].up \/ \A m \in ms : made[m].conn # k THEN conns[k]
                                         ELSE Writes(conns[k], fs(k))
    <3> HIDE DEF ms, fs
    <3> QED
      BY <1>1, <1>3
  <2>2. ASSUME NEW k \in 1 .. l
        PROVE  /\ conns'[k] \in Connection
               /\ conns'[k].part = conns[k].part /\ (conns'[k].up <=> conns[k].up)
               /\ \/ conns'[k] = conns[k] /\ (~conns[k].up \/ \A m \in Open : made[m].conn # k)
                  \/ \E m \in Open : /\ made[m].conn = k /\ conns[k].up
                                     /\ conns'[k].frames = conns[k].frames \o made[m].queue \o Goodbye(m)
    <3>1. CASE ~conns[k].up \/ \A m \in ms : made[m].conn # k
      <4>1. conns'[k] = conns[k]
        BY <2>1, <3>1
      <4> QED
        BY <1>1, <3>1, <4>1
    <3>2. CASE conns[k].up /\ \E m \in ms : made[m].conn = k
      <4>1. first(k) \in ms /\ made[first(k)].conn = k
        BY <3>2
      <4>2. conns'[k] = Writes(conns[k], fs(k)) /\ conns[k] \in Connection
        <5> HIDE DEF ms, fs
        <5> QED
          BY <1>1, <2>1, <3>2
      <4>3. PICK m : m = first(k)
        OBVIOUS
      <4>4. m \in ms /\ made[m].conn = k /\ m \in DOMAIN made /\ fs(k) = conns[k].frames \o made[m].queue \o Goodbye(m)
        BY <1>2, <4>1, <4>3, SMTT(30)
      <4>5. fs(k) \in Seq(Frames)
        <5>1. made[m].queue \in Seq(Frames) /\ conns[k].frames \in Seq(Frames) /\ m \in Nat
          <6>1. m \in 1 .. n /\ made[m] \in Publisher
            BY <1>1, <4>4, ZenonT(30)
          <6>2. m \in Nat
            BY <1>1, <6>1
          <6> QED
            BY <4>2, <6>1, <6>2, PublisherFacts, ConnectionFacts
        <5>2. conns[k].frames \o made[m].queue \in Seq(Frames)
          BY <5>1, AllMore
        <5>3. CloseFrame(m) \in Frames
          BY <5>1, FrameFacts
        <5>4. Goodbye(m) \in Seq(Frames)
          <6> DEFINE g == CloseFrame(m)
          <6>1. <<g>> \in Seq(Frames) /\ <<>> \in Seq(Frames)
            <7> HIDE DEF g
            <7> QED
              BY <5>3 DEF g
          <6> QED
            BY <6>1 DEF Goodbye
        <5> QED
          BY <4>4, <5>2, <5>4, AllMore
      <4> HIDE DEF fs
      <4>6. conns'[k] \in Connection /\ conns'[k].part = conns[k].part /\ (conns'[k].up <=> conns[k].up)
            /\ conns'[k].frames = fs(k)
        BY <4>2, <4>5, ConnectionWrites
      <4> QED
        BY <3>2, <4>4, <4>6
    <3> QED
      BY <3>1, <3>2
  <2>3. conns' \in Seq(Connection) /\ DOMAIN conns' = 1 .. l
    BY <1>1, <2>1, <2>2, ByPoints
  <2> QED
    BY <1>1, <2>2, <2>3
<1>9. Shuts
  <2> HIDE DEF closing
  <2> QED
    BY <1>2, <1>4, <1>5, <1>6, <1>7, <1>8 DEF Shuts
<1> HIDE DEF ms, q, s, fs, closing
<1>10. publishers' \in [Partitions -> Nat] /\ (publishers' = publishers \/ \A p \in Partitions : publishers'[p] = 0)
  BY <1>1, <1>5 DEF ClosedMap
<1>11. Placed(publishers', made', conns')
  <2>1. \A p \in Partitions : publishers'[p] # 0 => publishers'[p] \in DOMAIN made' /\ made'[publishers'[p]].part = p
    BY <1>1, <1>7, <1>10, SMTT(30) DEF Placed
  <2>2. \A i \in DOMAIN made' : made'[i].conn \in DOMAIN conns' /\ conns'[made'[i].conn].part = made'[i].part
    <3>1. \A i \in DOMAIN made : made[i].conn \in DOMAIN conns /\ conns[made[i].conn].part = made[i].part
      BY <1>1 DEF Placed
    <3> SUFFICES ASSUME NEW i \in DOMAIN made
                 PROVE  made'[i].conn \in DOMAIN conns' /\ conns'[made'[i].conn].part = made'[i].part
      BY <1>7
    <3>2. made'[i].part = made[i].part /\ made'[i].conn = made[i].conn
      BY <1>7
    <3>3. made[i].conn \in DOMAIN conns' /\ conns'[made[i].conn].part = conns[made[i].conn].part
      BY <1>8, <3>1
    <3> QED
      BY <3>1, <3>2, <3>3
  <2>3. \A i \in DOMAIN conns' : ~conns'[i].up => conns'[i].frames = <<>>
    <3>1. \A i \in DOMAIN conns : ~conns[i].up => conns[i].frames = <<>>
      BY <1>1 DEF Placed
    <3>2. \A i \in DOMAIN conns : ~conns'[i].up => conns'[i] = conns[i] /\ ~conns[i].up
      BY <1>8
    <3> QED
      BY <1>8, <3>1, <3>2
  <2> QED
    BY <2>1, <2>2, <2>3 DEF Placed
<1>12. \A d \in DOMAIN calls' : CallOk(calls'[d], conns')
  <2>1. DOMAIN conns \subseteq DOMAIN conns' /\ \A i \in DOMAIN conns : conns'[i].part = conns[i].part
    BY <1>8
  <2>2. \A d \in DOMAIN calls : CallOk(calls[d], conns')
    BY <2>1, CallOkStays DEF Base
  <2>3. CallOk(x, conns')
    BY <1>5 DEF CallOk, Tidy, IsInjective, ToSet
  <2> QED
    BY <1>6, <2>2, <2>3 DEF OneCall
<1>13. Asked(locator', calls')
  <2>1. Asked(locator, calls) /\ locator' = locator
    BY <1>4 DEF Base
  <2>2. DOMAIN calls \subseteq DOMAIN calls' /\ \A d \in DOMAIN calls : calls'[d] = calls[d]
    BY <1>6 DEF OneCall
  <2>3. \A i \in DOMAIN locator : calls'[locator[i].call] = calls[locator[i].call]
    BY <2>1, <2>2 DEF Asked
  <2> QED
    BY <2>1, <2>2, <2>3, AskedStays
<1>14. Base' /\ calls' \in Seq(Call)
  BY <1>6, <1>11, <1>12, <1>13 DEF Base, OneCall
<1>15. TypeOK'
  BY <1>4, <1>7, <1>8, <1>10, <1>14 DEF TypeOK, chosen, broker
<1>16. Further
  BY <1>6, OneFurther
<1> QED
  BY <1>9, <1>14, <1>15, <1>16 DEF Good

-----------------------------------------------------------------------------
(* Every step is one of these.                                             *)

Idle ==
  /\ UNCHANGED <<chosen, cache, publishers, made, conns, locator, calls, broker, overtaken>>
  /\ strategy = "key" \/ UNCHANGED binding
Event ==
  \/ \E op \in Sends \cup {"batch"}, keys \in Seq(Keys) :
       /\ IsInjective(keys) /\ MayStart(op) /\ Begins(op, keys) /\ UNCHANGED <<chosen, binding, broker, used>>
  \/ Shuts
  \/ \E m \in DOMAIN made : Flushes(m)
  \/ \E c \in DOMAIN calls : (\E p \in Partitions, k \in Nat : Declares(c, p, k))
                             /\ UNCHANGED <<chosen, binding, cache, broker, used>>
  \/ \E c \in DOMAIN calls : Refuses(c)
  \/ (\E c \in DOMAIN calls, k \in Keys : Answers(c, k)) /\ UNCHANGED <<chosen, binding, broker, used>>
  \/ (\E c \in DOMAIN calls, p \in Partitions : Constructs(c, p)) /\ UNCHANGED <<chosen, binding, cache, broker, used>>
  \/ \E k \in DOMAIN conns : Stores(k) \/ Finishes(k)
  \/ Idle

LEMMA FirstIsGood == Init => Good
<1> SUFFICES ASSUME Init PROVE TypeOK /\ Base
  BY DEF Good
<1>1. DOMAIN <<>> = {}
  OBVIOUS
<1>2. /\ <<>> \in Seq(Publisher) /\ <<>> \in Seq(Connection) /\ <<>> \in Seq(Query) /\ <<>> \in Seq(Call)
      /\ <<>> \in Seq(Nat) /\ -1 \in Int
  OBVIOUS
<1>3. TypeOK
  <2>1. strategy \in {"hash", "key"} /\ plan \in Plan
    BY SuperStreamAssumption DEF Init
  <2>2. /\ binding \in [Keys -> Partitions] /\ cache \in [Keys -> Partitions \cup {0}]
        /\ publishers \in [Partitions -> Nat] /\ used \in [Events -> Nat]
    BY DEF Init
  <2>3. last \in [Partitions -> Int] /\ log \in [Partitions -> Seq(Nat)]
    BY <1>2 DEF Init
  <2>4. binding \in [Keys -> Partitions \cup {0}]
    BY <2>2
  <2> QED
    BY <1>2, <2>1, <2>2, <2>3, <2>4 DEF Init, TypeOK
<1>4. Base
  <2>1. /\ made = <<>> /\ conns = <<>> /\ calls = <<>> /\ locator = <<>>
        /\ \A p \in Partitions : publishers[p] = 0
    BY DEF Init
  <2> QED
    BY <1>1, <2>1 DEF Base, Placed, Asked, Alone
<1> QED
  BY <1>3, <1>4

LEMMA SendStep ==
  ASSUME Good, NEW op \in Sends, NEW k \in Keys, NEW n \in IF op = "send" THEN {0} ELSE 1 .. MaxId, Send(op, k, n)
  PROVE  Good' /\ Further /\ Event
<1>1. <<k>> \in Seq(Keys) /\ IsInjective(<<k>>)
  BY DEF IsInjective
<1>2. n \in Nat
  BY SuperStreamAssumption
<1>3. MayStart(op) /\ Route(Len(calls) + 1, op, <<k>>, n) /\ UNCHANGED <<chosen, binding, broker, used>>
  BY DEF Send
<1>4. Begins(op, <<k>>) /\ Good' /\ Further
  BY <1>1, <1>2, <1>3, RouteKeeps DEF Good
<1> QED
  BY <1>1, <1>3, <1>4 DEF Event

LEMMA BatchStep ==
  ASSUME Good, NEW keys \in SetToSeqs(Keys), SendSubEntries(keys)
  PROVE  Good' /\ Further /\ Event
<1>1. keys \in Seq(Keys) /\ IsInjective(keys)
  <2> DEFINE n == Cardinality(Keys)
  <2>1. n \in Nat
    BY SuperStreamAssumption, FS_CardinalityType
  <2> HIDE DEF n
  <2>2. keys \in [1 .. n -> Keys] /\ \A i, j \in 1 .. n : i # j => keys[i] # keys[j]
    BY DEF SetToSeqs, n
  <2>3. keys = [i \in 1 .. n |-> keys[i]] /\ \A i \in 1 .. n : keys[i] \in Keys
    BY <2>2
  <2>4. keys \in Seq(Keys) /\ DOMAIN keys = 1 .. n
    BY <2>1, <2>3, ByPoints
  <2> QED
    BY <2>2, <2>4 DEF IsInjective
<1>2. MayStart("batch") /\ Route(Len(calls) + 1, "batch", keys, 0) /\ UNCHANGED <<chosen, binding, broker, used>>
  BY DEF SendSubEntries
<1>3. Begins("batch", keys) /\ Good' /\ Further
  BY <1>1, <1>2, RouteKeeps DEF Good
<1> QED
  BY <1>1, <1>2, <1>3 DEF Event

LEMMA StepIs ==
  ASSUME Good, [Next]_vars
  PROVE  Good' /\ Further /\ Event
<1>1. ASSUME NEW k \in Keys, NEW op \in Sends, NEW n \in IF op = "send" THEN {0} ELSE 1 .. MaxId, Send(op, k, n)
      PROVE  Good' /\ Further /\ Event
  BY <1>1, SendStep
<1>2. ASSUME NEW keys \in SetToSeqs(Keys), SendSubEntries(keys) PROVE Good' /\ Further /\ Event
  BY <1>2, BatchStep
<1>3. CASE StartClose
  BY <1>3, StartCloseKeeps DEF Good, Event
<1>4. ASSUME NEW m \in DOMAIN made, Flush(m) PROVE Good' /\ Further /\ Event
  BY <1>4, FlushKeeps DEF Good, Event
<1>5. ASSUME NEW c \in DOMAIN calls, Declared(c) PROVE Good' /\ Further /\ Event
  BY <1>5, DeclaredKeeps DEF Good, Event
<1>6. ASSUME NEW c \in DOMAIN calls, Refused(c) PROVE Good' /\ Further /\ Event
  BY <1>6, RefusedKeeps DEF Good, Event
<1>7. CASE RouteAnswered
  <2>1. UNCHANGED <<chosen, binding, broker, used>>
    BY <1>7 DEF RouteAnswered
  <2> QED
    BY <1>7, <2>1, RouteAnsweredKeeps DEF Good, Event
<1>8. CASE SequenceAnswered
  BY <1>8, SequenceAnsweredKeeps DEF Good, Event
<1>9. ASSUME NEW k \in DOMAIN conns, BrokerStores(k) PROVE Good' /\ Further /\ Event
  BY <1>9, BrokerStoresKeeps DEF Good, Event
<1>10. ASSUME NEW k \in DOMAIN conns, BrokerCloses(k) PROVE Good' /\ Further /\ Event
  BY <1>10, BrokerClosesKeeps DEF Good, Event
<1>11. ASSUME NEW k \in Keys, NEW p \in Partitions \cup {0}, Rebind(k, p) PROVE Good' /\ Further /\ Event
  BY <1>11, RebindKeeps DEF Good, Event, Idle
<1>12. CASE UNCHANGED vars
  <2>1. /\ UNCHANGED <<chosen, cache, publishers, made, conns, locator, calls, broker, overtaken>>
        /\ UNCHANGED <<binding, used, strategy, plan, last, log, discarded>>
    BY <1>12 DEF vars, chosen, broker
  <2>2. Good'
    BY <2>1 DEF Good, TypeOK, Base
  <2>3. Further
    BY <2>1 DEF Further, Same
  <2> QED
    BY <2>1, <2>2, <2>3 DEF Event, Idle
<1> QED
  BY <1>1, <1>2, <1>3, <1>4, <1>5, <1>6, <1>7, <1>8, <1>9, <1>10, <1>11, <1>12 DEF Next

-----------------------------------------------------------------------------
(* Where the messages of a call are, and that they are in one place only.  *)

InLog == <<"log", 0>>
InDiscarded == <<"discarded", 0>>
OnConn(k) == <<"connection", k>>
InQueue(m) == <<"publisher", m>>
Holds(lg, dd, mm, cc, x, p, c) ==
  \/ x = InLog /\ \E i \in DOMAIN lg[p] : lg[p][i] = c
  \/ x = InDiscarded /\ <<p, c>> \in dd
  \/ \E k \in DOMAIN cc : x = OnConn(k) /\ cc[k].part = p /\ Has(cc[k].frames, c)
  \/ \E m \in DOMAIN mm : x = InQueue(m) /\ mm[m].part = p /\ Has(mm[m].queue, c)

(* Call c is past partition p: it has handed its messages over.            *)
Settled(cs, p, c) ==
  c \in DOMAIN cs /\ cs[c].ready /\ cs[c].at # "routing" /\ p \notin ToSet(cs[c].todo)

OnceIn(lg, dd, mm, cc, cs) ==
  /\ \A p \in Partitions, c \in Nat \ {0} : \A x, y :
       Holds(lg, dd, mm, cc, x, p, c) /\ Holds(lg, dd, mm, cc, y, p, c) => x = y
  /\ \A p \in Partitions, c \in Nat \ {0} : \A x : Holds(lg, dd, mm, cc, x, p, c) => Settled(cs, p, c)
  /\ \A k \in DOMAIN cc : Distinct(cc[k].frames)
  /\ \A m \in DOMAIN mm : Distinct(mm[m].queue) /\ ~Has(mm[m].queue, 0)
  /\ \A p \in Partitions : IsInjective(lg[p])
OnceOnly == OnceIn(log, discarded, made, conns, calls)

LEMMA Places4 ==
  /\ \A k, m : OnConn(k) # InQueue(m) /\ OnConn(k) # InLog /\ OnConn(k) # InDiscarded
  /\ \A m : InQueue(m) # InLog /\ InQueue(m) # InDiscarded
  /\ InLog # InDiscarded
  /\ \A k, m : (OnConn(k) = OnConn(m) => k = m) /\ (InQueue(k) = InQueue(m) => k = m)
BY DEF OnConn, InQueue, InLog, InDiscarded

LEMMA HoldsAt ==
  ASSUME NEW lg, NEW dd, NEW mm, NEW cc, NEW p, NEW c
  PROVE  /\ Holds(lg, dd, mm, cc, InLog, p, c) <=> \E i \in DOMAIN lg[p] : lg[p][i] = c
         /\ Holds(lg, dd, mm, cc, InDiscarded, p, c) <=> <<p, c>> \in dd
         /\ \A k : Holds(lg, dd, mm, cc, OnConn(k), p, c) <=> k \in DOMAIN cc /\ cc[k].part = p /\ Has(cc[k].frames, c)
         /\ \A m : Holds(lg, dd, mm, cc, InQueue(m), p, c) <=> m \in DOMAIN mm /\ mm[m].part = p /\ Has(mm[m].queue, c)
         /\ \A x : Holds(lg, dd, mm, cc, x, p, c) =>
              \/ x = InLog \/ x = InDiscarded
              \/ \E k \in DOMAIN cc : x = OnConn(k)
              \/ \E m \in DOMAIN mm : x = InQueue(m)
BY Places4 DEF Holds

(* Before a step, and after it.                                            *)
Now(x, p, c) == Holds(log, discarded, made, conns, x, p, c)
Then(x, p, c) == Holds(log', discarded', made', conns', x, p, c)

LEMMA NowAt ==
  ASSUME NEW p, NEW c
  PROVE  /\ Now(InLog, p, c) <=> \E i \in DOMAIN log[p] : log[p][i] = c
         /\ Now(InDiscarded, p, c) <=> <<p, c>> \in discarded
         /\ \A k : Now(OnConn(k), p, c) <=> k \in DOMAIN conns /\ conns[k].part = p /\ Has(conns[k].frames, c)
         /\ \A m : Now(InQueue(m), p, c) <=> m \in DOMAIN made /\ made[m].part = p /\ Has(made[m].queue, c)
BY HoldsAt DEF Now

LEMMA ThenAt ==
  ASSUME NEW p, NEW c
  PROVE  /\ Then(InLog, p, c) <=> \E i \in DOMAIN log'[p] : log'[p][i] = c
         /\ Then(InDiscarded, p, c) <=> <<p, c>> \in discarded'
         /\ \A k : Then(OnConn(k), p, c) <=> k \in DOMAIN conns' /\ conns'[k].part = p /\ Has(conns'[k].frames, c)
         /\ \A m : Then(InQueue(m), p, c) <=> m \in DOMAIN made' /\ made'[m].part = p /\ Has(made'[m].queue, c)
BY HoldsAt DEF Then

LEMMA ThenIn ==
  ASSUME NEW p, NEW c, NEW x, Then(x, p, c)
  PROVE  \/ x = InLog \/ x = InDiscarded
         \/ \E k \in DOMAIN conns' : x = OnConn(k)
         \/ \E m \in DOMAIN made' : x = InQueue(m)
<1>1. PICK lg, dd, mm, cc : lg = log' /\ dd = discarded' /\ mm = made' /\ cc = conns'
  OBVIOUS
<1>2. Holds(lg, dd, mm, cc, x, p, c)
  BY <1>1 DEF Then
<1>3. \/ x = InLog \/ x = InDiscarded
      \/ \E k \in DOMAIN cc : x = OnConn(k)
      \/ \E m \in DOMAIN mm : x = InQueue(m)
  BY <1>2 DEF Holds
<1> QED
  BY <1>1, <1>3

LEMMA OnceNow ==
  ASSUME OnceOnly, NEW p \in Partitions, NEW c \in Nat \ {0}, NEW x, NEW y, Now(x, p, c), Now(y, p, c)
  PROVE  x = y
BY DEF OnceOnly, OnceIn, Now

(* What has been handed over stays so.                                     *)
LEMMA SettledStays ==
  ASSUME Further, NEW p, NEW c, Settled(calls, p, c)
  PROVE  Settled(calls', p, c)
BY DEF Further, Settled

(* No message is in a new place unless it has left another.                *)
LEMMA OnceStays ==
  ASSUME OnceOnly, Further,
         \A p \in Partitions, c \in Nat \ {0} : \A x : Holds(log', discarded', made', conns', x, p, c) =>
            \E y : Holds(log, discarded, made, conns, y, p, c),
         \A p \in Partitions, c \in Nat \ {0} : \A x, y :
           Holds(log', discarded', made', conns', x, p, c) /\ Holds(log', discarded', made', conns', y, p, c) => x = y,
         \A k \in DOMAIN conns' : Distinct(conns'[k].frames),
         \A m \in DOMAIN made' : Distinct(made'[m].queue) /\ ~Has(made'[m].queue, 0),
         \A p \in Partitions : IsInjective(log'[p])
  PROVE  OnceOnly'
<1>1. \A p \in Partitions, c \in Nat \ {0} : \A x : Holds(log', discarded', made', conns', x, p, c) => Settled(calls', p, c)
  BY SettledStays DEF OnceOnly, OnceIn
<1> QED
  BY <1>1 DEF OnceOnly, OnceIn

LEMMA FirstIsOnce == Init => OnceOnly
<1>1. DOMAIN <<>> = {}
  OBVIOUS
<1> SUFFICES ASSUME Init PROVE OnceOnly
  OBVIOUS
<1>2. /\ made = <<>> /\ conns = <<>> /\ discarded = {} /\ \A p \in Partitions : log[p] = <<>>
  BY DEF Init
<1>3. \A p \in Partitions, c \in Nat \ {0} : \A x : ~Holds(log, discarded, made, conns, x, p, c)
  BY <1>1, <1>2 DEF Holds
<1> QED
  BY <1>1, <1>2, <1>3 DEF OnceOnly, OnceIn, IsInjective

(* Publishers take the messages of a call that has not come to them yet.   *)
LEMMA HandsOnce ==
  ASSUME Good, Further, NEW c \in Nat \ {0}, NEW call, NEW P, NEW pubs, NEW all, NEW x,
         Hands(c, call, P, pubs, all, x), Placed(pubs, all, conns), all \in Seq(Publisher),
         OnceIn(log, discarded, all, conns, calls), \A p \in P : ~Settled(calls, p, c), UNCHANGED broker
  PROVE  OnceOnly'
<1>1. /\ OneCall(c, x) /\ P \subseteq Partitions /\ Handing(c, x.op, P, pubs, all)
      /\ ToSet(x.todo) \cap P = {} /\ (P # {} => x.ready) /\ x.at # "routing"
      /\ \A p \in P : pubs[p] \in DOMAIN all
  BY DEF Hands, Gets
<1>2. \A p \in P : Settled(calls', p, c)
  BY <1>1 DEF OneCall, Settled
<1>3. \A p \in P : \A y : ~Holds(log, discarded, all, conns, y, p, c)
  BY <1>1 DEF OnceIn
<1>4. /\ \A p \in P : all[pubs[p]].part = p /\ all[pubs[p]].conn \in DOMAIN conns /\ conns[all[pubs[p]].conn].part = p
      /\ \A m \in DOMAIN all : all[m] \in Publisher
      /\ \A k \in DOMAIN conns : conns[k] \in Connection
  <2>1. \A p \in P : pubs[p] # 0
    BY <1>1, Points
  <2> QED
    BY <1>1, <2>1, Points DEF Placed, Good, TypeOK
<1>5. log' = log /\ discarded' = discarded
  BY DEF broker
<1>6. /\ DOMAIN made' = DOMAIN all /\ DOMAIN conns' = DOMAIN conns
      /\ \A m \in DOMAIN all : made'[m].part = all[m].part
      /\ \A k \in DOMAIN conns : conns'[k].part = conns[k].part
  BY <1>1 DEF Handing, SamePlace
<1> DEFINE Old(y, q, d) == Holds(log, discarded, all, conns, y, q, d)
           New(y, q, d) == Holds(log', discarded', made', conns', y, q, d)
<1>7. SUFFICES /\ \A k \in DOMAIN conns' : Distinct(conns'[k].frames)
               /\ \A m \in DOMAIN made' : Distinct(made'[m].queue) /\ ~Has(made'[m].queue, 0)
               /\ \E h \in [P -> {OnConn(k) : k \in DOMAIN conns} \cup {InQueue(m) : m \in DOMAIN all}] :
                    \A q \in Partitions, d \in Nat \ {0} : \A y : New(y, q, d) => Old(y, q, d) \/ (d = c /\ q \in P /\ y = h[q])
  <2>1. PICK h : \A q \in Partitions, d \in Nat \ {0} : \A y : New(y, q, d) => Old(y, q, d) \/ (d = c /\ q \in P /\ y = h[q])
    BY <1>7
  <2>2. \A q \in Partitions, d \in Nat \ {0} : \A y, z : New(y, q, d) /\ New(z, q, d) => y = z
    <3>1. \A q \in Partitions, d \in Nat \ {0} : \A y, z : Old(y, q, d) /\ Old(z, q, d) => y = z
      BY DEF OnceIn
    <3>2. \A q \in P : \A y : ~Old(y, q, c)
      BY <1>3
    <3> SUFFICES ASSUME NEW q \in Partitions, NEW d \in Nat \ {0}, NEW y, NEW z, New(y, q, d), New(z, q, d) PROVE y = z
      OBVIOUS
    <3> HIDE DEF Old, New
    <3>3. Old(y, q, d) \/ (d = c /\ q \in P /\ y = h[q])
      BY <2>1
    <3>4. Old(z, q, d) \/ (d = c /\ q \in P /\ z = h[q])
      BY <2>1
    <3>5. d = c /\ q \in P => ~Old(y, q, d) /\ ~Old(z, q, d)
      BY <3>2
    <3> QED
      BY <3>1, <3>3, <3>4, <3>5
  <2>3. \A q \in Partitions, d \in Nat \ {0} : \A y : New(y, q, d) => Settled(calls', q, d)
    <3>1. \A q \in Partitions, d \in Nat \ {0} : \A y : Old(y, q, d) => Settled(calls', q, d)
      BY SettledStays DEF OnceIn
    <3> HIDE DEF Old, New
    <3> QED
      BY <1>2, <2>1, <3>1
  <2>4. \A q \in Partitions : IsInjective(log'[q])
    BY <1>5 DEF OnceIn
  <2> QED
    BY <1>7, <2>2, <2>3, <2>4 DEF OnceOnly, OnceIn
<1>8. CASE x.op = "batch"
  <2>1. /\ made' = all
        /\ \A k \in DOMAIN conns :
             \/ conns'[k] = conns[k]
             \/ \E p \in P : /\ conns[k].up /\ all[pubs[p]].conn = k
                             /\ conns'[k].frames = Append(conns[k].frames, Frame(c, all[pubs[p]].id))
    BY <1>1, <1>8 DEF Handing
  <2> DEFINE h == [p \in P |-> OnConn(all[pubs[p]].conn)]
  <2>2. ASSUME NEW k \in DOMAIN conns, NEW p \in P, all[pubs[p]].conn = k,
               conns'[k].frames = Append(conns[k].frames, Frame(c, all[pubs[p]].id))
        PROVE  /\ Distinct(conns'[k].frames) /\ conns[k].part = p
               /\ \A d : Has(conns'[k].frames, d) => Has(conns[k].frames, d) \/ d = c
    <3> DEFINE f == Frame(c, all[pubs[p]].id)
    <3>1. f \in Frames /\ f.call = c
      <4>1. all[pubs[p]].id \in Nat
        BY <1>1, <1>4, PublisherFacts
      <4> QED
        BY <4>1, FrameFacts
    <3>2. conns[k].frames \in Seq(Frames) /\ conns[k].part = p
      BY <1>4, <2>2, ConnectionFacts
    <3>3. ~Has(conns[k].frames, c)
      <4>1. ~Holds(log, discarded, all, conns, OnConn(k), p, c)
        BY <1>3
      <4> QED
        BY <3>2, <4>1, HoldsAt
    <3>4. Distinct(conns[k].frames)
      BY DEF OnceIn
    <3>5. conns'[k].frames = Append(conns[k].frames, f)
      BY <2>2
    <3> HIDE DEF f
    <3> QED
      BY <3>1, <3>2, <3>3, <3>4, <3>5, OneMore
  <2>3. \A k \in DOMAIN conns' : Distinct(conns'[k].frames)
    BY <1>6, <2>1, <2>2 DEF OnceIn
  <2>4. \A m \in DOMAIN made' : Distinct(made'[m].queue) /\ ~Has(made'[m].queue, 0)
    BY <2>1 DEF OnceIn
  <2>5. ASSUME NEW q \in Partitions, NEW d \in Nat \ {0}, NEW y, New(y, q, d), ~Old(y, q, d)
        PROVE  d = c /\ q \in P /\ y = h[q]
    <3>1. PICK k \in DOMAIN conns : y = OnConn(k) /\ conns[k].part = q /\ Has(conns'[k].frames, d) /\ ~Has(conns[k].frames, d)
      BY <1>5, <1>6, <2>1, <2>5 DEF Holds
    <3>2. PICK p \in P : /\ all[pubs[p]].conn = k
                         /\ conns'[k].frames = Append(conns[k].frames, Frame(c, all[pubs[p]].id))
      BY <2>1, <3>1
    <3>3. d = c /\ p = q
      BY <2>2, <3>1, <3>2
    <3> QED
      BY <3>1, <3>2, <3>3
  <2>6. h \in [P -> {OnConn(k) : k \in DOMAIN conns} \cup {InQueue(m) : m \in DOMAIN all}]
    BY <1>4
  <2> HIDE DEF h, Old, New
  <2> QED
    BY <1>7, <2>3, <2>4, <2>5, <2>6
<1>9. CASE x.op # "batch"
  <2>1. /\ conns' = conns
        /\ \A m \in DOMAIN all : made'[m] = all[m] \/ \E p \in P : pubs[p] = m /\ Takes(c, x.op, all[m], made'[m])
    BY <1>1, <1>9 DEF Handing
  <2> DEFINE h == [p \in P |-> InQueue(pubs[p])]
  <2>2. ASSUME NEW m \in DOMAIN all, NEW p \in P, pubs[p] = m, Takes(c, x.op, all[m], made'[m])
        PROVE  /\ Distinct(made'[m].queue) /\ ~Has(made'[m].queue, 0) /\ all[m].part = p
               /\ \A d : Has(made'[m].queue, d) => Has(all[m].queue, d) \/ d = c
    <3>1. PICK f \in Frames : f.call = c /\ made'[m].queue = Append(all[m].queue, f)
      BY <2>2 DEF Takes
    <3>2. all[m].queue \in Seq(Frames) /\ all[m].part = p
      BY <1>4, <2>2, PublisherFacts
    <3>3. ~Has(all[m].queue, c)
      <4>1. ~Holds(log, discarded, all, conns, InQueue(m), p, c)
        BY <1>3
      <4> QED
        BY <3>2, <4>1, HoldsAt
    <3>4. Distinct(all[m].queue) /\ ~Has(all[m].queue, 0)
      BY DEF OnceIn
    <3> QED
      BY <3>1, <3>2, <3>3, <3>4, OneMore
  <2>3. \A k \in DOMAIN conns' : Distinct(conns'[k].frames)
    BY <2>1 DEF OnceIn
  <2>4. \A m \in DOMAIN made' : Distinct(made'[m].queue) /\ ~Has(made'[m].queue, 0)
    BY <1>6, <2>1, <2>2 DEF OnceIn
  <2>5. ASSUME NEW q \in Partitions, NEW d \in Nat \ {0}, NEW y, New(y, q, d), ~Old(y, q, d)
        PROVE  d = c /\ q \in P /\ y = h[q]
    <3>1. PICK m \in DOMAIN all : y = InQueue(m) /\ all[m].part = q /\ Has(made'[m].queue, d) /\ ~Has(all[m].queue, d)
      BY <1>5, <1>6, <2>1, <2>5 DEF Holds
    <3>2. PICK p \in P : pubs[p] = m /\ Takes(c, x.op, all[m], made'[m])
      BY <2>1, <3>1
    <3>3. d = c /\ p = q
      BY <2>2, <3>1, <3>2
    <3> QED
      BY <3>1, <3>2, <3>3
  <2>6. h \in [P -> {OnConn(k) : k \in DOMAIN conns} \cup {InQueue(m) : m \in DOMAIN all}]
    BY <1>1
  <2> HIDE DEF h, Old, New
  <2> QED
    BY <1>7, <2>3, <2>4, <2>5, <2>6
<1> QED
  BY <1>8, <1>9

(* The publisher m of partition p has been constructed, and has nothing.   *)
Enters(c, p, new, m, all, pubs) ==
  /\ c \in DOMAIN calls /\ p \in Partitions /\ new \in Publisher
  /\ new.part = p /\ new.conn = calls[c].conn /\ new.queue = <<>>
  /\ calls[c].at = "querying" /\ calls[c].todo[1] = p
  /\ m = Len(made) + 1 /\ all = Append(made, new) /\ pubs = [publishers EXCEPT ![p] = m]

Entered(p, new, m, all, pubs) ==
  /\ all \in Seq(Publisher) /\ DOMAIN all = DOMAIN made \cup {m} /\ m \in Nat /\ m # 0 /\ m \notin DOMAIN made
  /\ all[m] = new /\ \A x \in DOMAIN made : all[x] = made[x]
  /\ pubs \in [Partitions -> Nat] /\ pubs[p] = m /\ \A q \in Partitions : q # p => pubs[q] = publishers[q]
  /\ new.conn \in DOMAIN conns /\ conns[new.conn].part = p
  /\ Placed(pubs, all, conns)

LEMMA EnteredIs ==
  ASSUME Good, NEW c, NEW p, NEW new, NEW m, NEW all, NEW pubs, Enters(c, p, new, m, all, pubs)
  PROVE  Entered(p, new, m, all, pubs)
<1> /\ c \in DOMAIN calls /\ p \in Partitions /\ new \in Publisher
    /\ new.part = p /\ new.conn = calls[c].conn /\ new.queue = <<>>
    /\ calls[c].at = "querying" /\ calls[c].todo[1] = p
    /\ m = Len(made) + 1 /\ all = Append(made, new) /\ pubs = [publishers EXCEPT ![p] = m]
  BY DEF Enters
<1>1. /\ publishers \in [Partitions -> Nat] /\ made \in Seq(Publisher) /\ Placed(publishers, made, conns)
      /\ CallOk(calls[c], conns)
  BY DEF Good, TypeOK, Base
<1>2. /\ all \in Seq(Publisher) /\ Len(made) \in Nat /\ DOMAIN made = 1 .. Len(made) /\ DOMAIN all = 1 .. m
      /\ all[m] = new /\ \A x \in DOMAIN made : all[x] = made[x]
  BY <1>1, Appended
<1>3. /\ m \in DOMAIN all /\ m \in Nat /\ m # 0 /\ \A x \in DOMAIN all : x \in DOMAIN made \/ x = m
      /\ \A x \in DOMAIN made : x \in DOMAIN all /\ x # m
  BY <1>2
<1>4. pubs \in [Partitions -> Nat] /\ pubs[p] = m /\ \A q \in Partitions : q # p => pubs[q] = publishers[q]
  BY <1>1, <1>3
<1>5. new.conn \in DOMAIN conns /\ conns[new.conn].part = p
  BY <1>1 DEF CallOk
<1>6. \A q \in Partitions : pubs[q] # 0 => pubs[q] \in DOMAIN all /\ all[pubs[q]].part = q
  BY <1>1, <1>2, <1>3, <1>4 DEF Placed
<1>7. \A x \in DOMAIN all : all[x].conn \in DOMAIN conns /\ conns[all[x].conn].part = all[x].part
  BY <1>1, <1>2, <1>3, <1>5 DEF Placed
<1>8. Placed(pubs, all, conns)
  BY <1>1, <1>6, <1>7 DEF Placed
<1> QED
  BY <1>2, <1>3, <1>4, <1>5, <1>8 DEF Entered

LEMMA SameOnce ==
  ASSUME OnceOnly, Further, UNCHANGED <<made, broker>>,
         \A k \in DOMAIN conns' : (k \in DOMAIN conns /\ conns'[k] = conns[k]) \/ conns'[k].frames = <<>>
  PROVE  OnceOnly'
<1>1. log' = log /\ discarded' = discarded /\ made' = made
  BY DEF broker
<1>2. \A p, c : \A x : Holds(log', discarded', made', conns', x, p, c) => Holds(log, discarded, made, conns, x, p, c)
  BY <1>1, NoFrames DEF Holds
<1>3. \A k \in DOMAIN conns' : Distinct(conns'[k].frames)
  BY NoFrames DEF OnceOnly, OnceIn
<1>4. \A p \in Partitions, c \in Nat \ {0} : \A x, y :
           Holds(log', discarded', made', conns', x, p, c) /\ Holds(log', discarded', made', conns', y, p, c) => x = y
  BY <1>2 DEF OnceOnly, OnceIn
<1>5. /\ \A m \in DOMAIN made' : Distinct(made'[m].queue) /\ ~Has(made'[m].queue, 0)
      /\ \A p \in Partitions : IsInjective(log'[p])
  BY <1>1 DEF OnceOnly, OnceIn
<1> QED
  BY <1>2, <1>3, <1>4, <1>5, OnceStays

LEMMA ConstructsOnce ==
  ASSUME Good, OnceOnly, Further, NEW c \in DOMAIN calls, NEW p \in Partitions, Constructs(c, p),
         UNCHANGED <<chosen, binding, cache, broker, used>>
  PROVE  OnceOnly'
<1> DEFINE m == Len(made) + 1
           pubs == [publishers EXCEPT ![p] = m]
<1>1. PICK new \in Publisher, P \in SUBSET Partitions, y \in Call :
           /\ new.part = p /\ new.conn = calls[c].conn /\ new.queue = <<>>
           /\ Hands(c, calls[c], P, pubs, Append(made, new), y)
  BY DEF Constructs
<1>2. calls[c].at = "querying" /\ calls[c].todo[1] = p
  BY DEF Constructs
<1> DEFINE all == Append(made, new)
<1>3. PICK n, a, b : n = m /\ a = all /\ b = pubs
  OBVIOUS
<1> HIDE DEF m, all, pubs
<1>4. c \in Nat \ {0} /\ n = Len(made) + 1 /\ a = Append(made, new) /\ b = [publishers EXCEPT ![p] = n]
  BY <1>3, CallsAre DEF Good, TypeOK, m, all, pubs
<1>5. /\ a \in Seq(Publisher) /\ Placed(b, a, conns) /\ DOMAIN a = DOMAIN made \cup {n}
      /\ a[n] = new /\ \A x \in DOMAIN made : a[x] = made[x]
  <2>1. new \in Publisher /\ new.part = p /\ new.conn = calls[c].conn /\ new.queue = <<>>
    BY <1>1
  <2>2. /\ a \in Seq(Publisher) /\ Placed(b, a, conns) /\ DOMAIN a = DOMAIN made \cup {n}
        /\ a[n] = new /\ \A x \in DOMAIN made : a[x] = made[x]
    <3>1. Enters(c, p, new, n, a, b)
      BY <1>2, <1>4, <2>1 DEF Enters
    <3>2. Entered(p, new, n, a, b)
      BY <3>1, EnteredIs
    <3> QED
      BY <3>2 DEF Entered
  <2> QED
    BY <2>2
<1>6. \A y1, q, d : Holds(log, discarded, a, conns, y1, q, d) => Holds(log, discarded, made, conns, y1, q, d)
  BY <1>1, <1>5, NoFrames DEF Holds
<1>7. OnceIn(log, discarded, a, conns, calls)
  <2>1. \A x \in DOMAIN a : Distinct(a[x].queue) /\ ~Has(a[x].queue, 0)
    BY <1>1, <1>5, NoFrames DEF OnceOnly, OnceIn
  <2>2. \A q \in Partitions, d \in Nat \ {0} : \A x, z :
          Holds(log, discarded, a, conns, x, q, d) /\ Holds(log, discarded, a, conns, z, q, d) => x = z
    BY <1>6 DEF OnceOnly, OnceIn
  <2>3. \A q \in Partitions, d \in Nat \ {0} : \A x : Holds(log, discarded, a, conns, x, q, d) => Settled(calls, q, d)
    BY <1>6 DEF OnceOnly, OnceIn
  <2> QED
    BY <2>1, <2>2, <2>3 DEF OnceOnly, OnceIn
<1>8. Hands(c, calls[c], P, b, a, y)
  BY <1>1, <1>3 DEF all
<1>9. \A q \in P : ~Settled(calls, q, c)
  BY <1>8 DEF Settled, Hands, Gets
<1> QED
  BY <1>5, <1>7, <1>8, <1>9, <1>4, HandsOnce

LEMMA BeginsOnce ==
  ASSUME Good, OnceOnly, Further, NEW op, NEW keys, Begins(op, keys), UNCHANGED <<chosen, binding, broker, used>>
  PROVE  OnceOnly'
<1> DEFINE c == Len(calls) + 1
<1>1. c \in Nat \ {0} /\ c \notin DOMAIN calls
  BY CallsAre DEF Good, TypeOK
<1>2. CASE \E x : Silent(c, x)
  BY <1>2, SameOnce DEF Silent
<1>3. ASSUME NEW x \in Call, NEW P, NEW y \in Call, Hands(c, x, P, publishers, made, y) PROVE OnceOnly'
  <2>1. \A p \in P : ~Settled(calls, p, c)
    BY <1>1 DEF Settled
  <2>2. Placed(publishers, made, conns) /\ made \in Seq(Publisher)
    BY DEF Good, TypeOK, Base
  <2>3. OnceIn(log, discarded, made, conns, calls)
    BY DEF OnceOnly
  <2> HIDE DEF c
  <2> QED
    BY <1>1, <1>3, <2>1, <2>2, <2>3, HandsOnce
<1> QED
  BY <1>2, <1>3 DEF Begins

LEMMA AnswersOnce ==
  ASSUME Good, OnceOnly, Further, NEW c \in DOMAIN calls, NEW k, Answers(c, k), UNCHANGED <<chosen, binding, broker, used>>
  PROVE  OnceOnly'
<1>1. c \in Nat \ {0}
  BY CallsAre DEF Good, TypeOK
<1>2. CASE \E x : Silent(c, x)
  BY <1>2, SameOnce DEF Silent
<1>3. ASSUME calls[c].at = "routing", NEW x, NEW P, NEW y \in Call, Hands(c, x, P, publishers, made, y) PROVE OnceOnly'
  <2>1. \A p \in P : ~Settled(calls, p, c)
    BY <1>3 DEF Settled
  <2>2. Placed(publishers, made, conns) /\ made \in Seq(Publisher)
    BY DEF Good, TypeOK, Base
  <2>3. OnceIn(log, discarded, made, conns, calls)
    BY DEF OnceOnly
  <2> QED
    BY <1>1, <1>3, <2>1, <2>2, <2>3, HandsOnce
<1> QED
  BY <1>2, <1>3 DEF Answers

(* A queue is written: what was queued is on the connection.               *)
LEMMA FlushesOnce ==
  ASSUME Good, OnceOnly, Further, NEW m \in DOMAIN made, Flushes(m)
  PROVE  OnceOnly'
<1> DEFINE k == made[m].conn
<1>1. /\ k \in DOMAIN conns /\ made[m] \in Publisher /\ conns[k] \in Connection /\ conns[k].part = made[m].part
  BY Points DEF Good, TypeOK, Base, Placed
<1>2. /\ DOMAIN made' = DOMAIN made /\ DOMAIN conns' = DOMAIN conns
      /\ made'[m].part = made[m].part /\ made'[m].queue = <<>>
      /\ \A x \in DOMAIN made : x # m => made'[x] = made[x]
      /\ conns'[k].part = conns[k].part /\ conns'[k].frames = conns[k].frames \o made[m].queue
      /\ \A j \in DOMAIN conns : j # k => conns'[j] = conns[j]
      /\ log' = log /\ discarded' = discarded
  BY DEF Flushes, SamePlace, broker
<1> HIDE DEF k
<1>3. /\ \A d : Has(conns'[k].frames, d) <=> Has(conns[k].frames, d) \/ Has(made[m].queue, d)
      /\ Distinct(conns'[k].frames) /\ Distinct(made'[m].queue)
  <2>1. made[m].queue \in Seq(Frames) /\ conns[k].frames \in Seq(Frames)
    BY <1>1, PublisherFacts, ConnectionFacts
  <2>2. Distinct(conns[k].frames) /\ Distinct(made[m].queue) /\ ~Has(made[m].queue, 0)
    BY <1>1 DEF OnceOnly, OnceIn
  <2>3. ASSUME NEW d, Has(conns[k].frames, d), Has(made[m].queue, d) PROVE d = 0
    <3> SUFFICES ASSUME d # 0 PROVE FALSE
      OBVIOUS
    <3>1. d \in Nat
      <4>1. PICK i \in DOMAIN made[m].queue : made[m].queue[i].call = d
        BY <2>3 DEF Has
      <4>2. made[m].queue[i] \in Frames
        BY <2>1, Points
      <4> QED
        BY <4>1, <4>2 DEF Frames
    <3>2. made[m].part \in Partitions
      BY <1>1, PublisherFacts
    <3>3. Now(OnConn(k), made[m].part, d) /\ Now(InQueue(m), made[m].part, d)
      BY <1>1, <2>3, NowAt
    <3>4. OnConn(k) = InQueue(m)
      BY <3>1, <3>2, <3>3, OnceNow
    <3> QED
      BY <3>4, Places4
  <2> QED
    BY <1>2, <2>1, <2>2, <2>3, AllMore, NoFrames
<1>4. ASSUME NEW x, NEW p, NEW c, Then(x, p, c)
      PROVE  x # InQueue(m) /\ (Now(x, p, c) \/ (x = OnConn(k) /\ Now(InQueue(m), p, c)))
  <2>1. ASSUME x = InQueue(m) PROVE FALSE
    <3>1. Then(InQueue(m), p, c)
      BY <1>4, <2>1
    <3>2. Has(made'[m].queue, c)
      BY <3>1, ThenAt
    <3> QED
      BY <1>2, <3>2, NoFrames
  <2>2. CASE x = InLog
    <3>1. Then(InLog, p, c)
      BY <1>4, <2>2
    <3>2. \E i \in DOMAIN log'[p] : log'[p][i] = c
      BY <3>1, ThenAt
    <3>3. log' = log
      BY <1>2
    <3>4. \E i \in DOMAIN log[p] : log[p][i] = c
      BY <3>2, <3>3
    <3>5. Now(InLog, p, c)
      BY <3>4, NowAt
    <3> QED
      BY <2>2, <3>5, Places4
  <2>3. CASE x = InDiscarded
    <3>1. Then(InDiscarded, p, c)
      BY <1>4, <2>3
    <3> QED
      BY <1>2, <2>3, <3>1, NowAt, ThenAt, Places4
  <2>4. ASSUME NEW j \in DOMAIN conns', x = OnConn(j)
        PROVE  Now(x, p, c) \/ (x = OnConn(k) /\ Now(InQueue(m), p, c))
    <3>1. Then(OnConn(j), p, c) /\ j \in DOMAIN conns
      BY <1>2, <1>4, <2>4
    <3>2. conns'[j].part = p /\ Has(conns'[j].frames, c)
      BY <3>1, ThenAt
    <3>3. conns[j].part = p /\ (Has(conns[j].frames, c) \/ (j = k /\ Has(made[m].queue, c)))
      BY <1>2, <1>3, <3>1, <3>2
    <3>4. Has(conns[j].frames, c) => Now(OnConn(j), p, c)
      BY <3>1, <3>3, NowAt
    <3>5. j = k /\ Has(made[m].queue, c) => Now(InQueue(m), p, c)
      BY <1>1, <3>3, NowAt
    <3> QED
      BY <2>4, <3>3, <3>4, <3>5
  <2>5. ASSUME NEW j \in DOMAIN made', x = InQueue(j) PROVE Now(x, p, c)
    <3>1. j # m /\ made'[j] = made[j] /\ j \in DOMAIN made
      BY <1>2, <2>1, <2>5
    <3>2. Then(InQueue(j), p, c)
      BY <1>4, <2>5
    <3>3. made'[j].part = p /\ Has(made'[j].queue, c)
      BY <3>2, ThenAt, ZenonT(30)
    <3>4. Now(InQueue(j), p, c)
      BY <3>1, <3>3, NowAt
    <3> QED
      BY <2>5, <3>4
  <2>6. \/ x = InLog \/ x = InDiscarded
        \/ \E j \in DOMAIN conns' : x = OnConn(j)
        \/ \E j \in DOMAIN made' : x = InQueue(j)
    BY <1>4, ThenIn
  <2> QED
    BY <2>1, <2>2, <2>3, <2>4, <2>5, <2>6
<1>5. \A p \in Partitions, c \in Nat \ {0} : \A x, y : Now(x, p, c) /\ Now(y, p, c) => x = y
  BY OnceNow
<1>6. /\ \A j \in DOMAIN conns' : Distinct(conns'[j].frames)
      /\ \A j \in DOMAIN made' : Distinct(made'[j].queue) /\ ~Has(made'[j].queue, 0)
      /\ \A p \in Partitions : IsInjective(log'[p])
  BY <1>2, <1>3, NoFrames DEF OnceOnly, OnceIn
<1>7. \A p \in Partitions, c \in Nat \ {0} : \A x : Then(x, p, c) => \E y : Now(y, p, c)
  BY <1>4
<1>8. \A p \in Partitions, c \in Nat \ {0} : \A x, y : Then(x, p, c) /\ Then(y, p, c) => x = y
  BY <1>4, <1>5
<1> QED
  BY <1>6, <1>7, <1>8, OnceStays DEF Now, Then

(* The broker stores a message, or takes it for a duplicate.               *)
LEMMA StoresOnce ==
  ASSUME Good, OnceOnly, Further, NEW k \in DOMAIN conns, Stores(k)
  PROVE  OnceOnly'
<1> DEFINE f == Head(conns[k].frames)
           p == conns[k].part
           dest == IF f.id > last[p] THEN InLog ELSE InDiscarded
<1>1. /\ conns[k] \in Connection /\ log \in [Partitions -> Seq(Nat)] /\ last \in [Partitions -> Int]
  BY Points DEF Good, TypeOK
<1>2. conns[k].frames \in Seq(Frames) /\ p \in Partitions
  BY <1>1, ConnectionFacts
<1>3. /\ DOMAIN conns' = DOMAIN conns /\ made' = made /\ conns[k].frames # <<>> /\ f.call # 0
      /\ conns'[k].part = p /\ conns'[k].frames = Tail(conns[k].frames)
      /\ \A j \in DOMAIN conns : j # k => conns'[j] = conns[j]
      /\ \A q \in Partitions : q # p => log'[q] = log[q]
  BY DEF Stores
<1>4. \/ dest = InLog /\ log'[p] = Append(log[p], f.call) /\ discarded' = discarded
      \/ dest = InDiscarded /\ discarded' = discarded \cup {<<p, f.call>>} /\ log' = log
  <2>1. \/ f.id > last[p] /\ log'[p] = Append(log[p], f.call) /\ discarded' = discarded
        \/ f.id <= last[p] /\ discarded' = discarded \cup {<<p, f.call>>} /\ log' = log
    BY DEF Stores
  <2>2. f.id \in Nat /\ last[p] \in Int
    <3> HIDE DEF p
    <3> QED
      BY <1>1, <1>2, <1>3, OneLess DEF Frames
  <2> HIDE DEF f, p
  <2>3. (f.id <= last[p]) <=> ~(f.id > last[p])
    BY <2>2
  <2> QED
    BY <2>1, <2>3
<1> HIDE DEF dest
<1>5. /\ f \in Frames /\ \A d : Has(conns[k].frames, d) <=> d = f.call \/ Has(conns'[k].frames, d)
      /\ Distinct(conns'[k].frames) /\ ~Has(conns'[k].frames, f.call)
  <2>1. Distinct(conns[k].frames)
    BY DEF OnceOnly, OnceIn
  <2> HIDE DEF p
  <2> QED
    BY <1>2, <1>3, <2>1, OneLess
<1>6. f.call \in Nat \ {0}
  BY <1>3, <1>5 DEF Frames
<1> HIDE DEF f, p
<1>7. Now(OnConn(k), p, f.call) /\ ~Now(InLog, p, f.call) /\ ~Then(OnConn(k), p, f.call)
  <2>1. Now(OnConn(k), p, f.call)
    BY <1>5, NowAt DEF p
  <2>2. ~Now(InLog, p, f.call)
    BY <1>2, <1>6, <2>1, OnceNow, Places4
  <2>3. ~Then(OnConn(k), p, f.call)
    BY <1>5, ThenAt
  <2> QED
    BY <2>1, <2>2, <2>3
<1>8. /\ \A q \in Partitions : (q # p \/ dest # InLog) => log'[q] = log[q]
      /\ dest = InLog => IsInjective(log'[p]) /\ \A d : (\E i \in DOMAIN log'[p] : log'[p][i] = d) <=> d = f.call \/ \E i \in DOMAIN log[p] : log[p][i] = d
  <2>1. CASE dest = InLog
    <3> DEFINE s == log[p]
               t == log'[p]
               l == Len(s)
    <3>1. t = Append(s, f.call) /\ s \in Seq(Nat)
      BY <1>1, <1>2, <1>4, <2>1, Places4
    <3>2. /\ l \in Nat /\ DOMAIN s = 1 .. l /\ DOMAIN t = 1 .. l + 1 /\ t[l + 1] = f.call
          /\ \A i \in DOMAIN s : t[i] = s[i]
      <4> HIDE DEF s, t
      <4> QED
        BY <1>6, <3>1, Appended DEF l
    <3>3. \A i \in DOMAIN s : s[i] # f.call
      BY <1>7, NowAt
    <3>4. IsInjective(s)
      BY <1>2 DEF OnceOnly, OnceIn
    <3> HIDE DEF s, t, l
    <3>5. /\ \A i \in DOMAIN t : i \in DOMAIN s \/ i = l + 1
          /\ \A i \in DOMAIN s : i \in DOMAIN t
          /\ l + 1 \in DOMAIN t
      BY <3>2
    <3>6. \A d : (\E i \in DOMAIN t : t[i] = d) <=> d = f.call \/ \E i \in DOMAIN s : s[i] = d
      BY <3>2, <3>5
    <3>7. IsInjective(t)
      <4> SUFFICES ASSUME NEW i \in DOMAIN t, NEW j \in DOMAIN t, t[i] = t[j] PROVE i = j
        BY DEF IsInjective
      <4>1. CASE i \in DOMAIN s /\ j \in DOMAIN s
        BY <3>2, <3>4, <4>1 DEF IsInjective
      <4> QED
        BY <3>2, <3>3, <3>5, <4>1
    <3> QED
      BY <1>3, <2>1, <3>6, <3>7 DEF s, t
  <2>2. CASE dest # InLog
    BY <1>4, <2>2
  <2> QED
    BY <1>3, <2>1, <2>2
<1>9. ASSUME NEW x, NEW q \in Partitions, NEW d \in Nat \ {0}, Then(x, q, d)
      PROVE  Now(x, q, d) \/ (q = p /\ d = f.call /\ x = dest)
  <2>1. CASE x = InLog
    <3>1. \E i \in DOMAIN log'[q] : log'[q][i] = d
      BY <1>9, <2>1, ThenAt, ZenonT(30)
    <3>2. CASE q # p \/ dest # InLog
      <4>1. \E i \in DOMAIN log[q] : log[q][i] = d
        BY <1>8, <3>1, <3>2
      <4> QED
        BY <2>1, <4>1, NowAt
    <3>3. CASE q = p /\ dest = InLog
      <4>1. d = f.call \/ \E i \in DOMAIN log[q] : log[q][i] = d
        BY <1>8, <3>1, <3>3
      <4>2. (\E i \in DOMAIN log[q] : log[q][i] = d) => Now(x, q, d)
        BY <2>1, NowAt
      <4> QED
        BY <2>1, <3>3, <4>1, <4>2
    <3> QED
      BY <3>2, <3>3
  <2>2. CASE x = InDiscarded
    <3>1. <<q, d>> \in discarded'
      BY <1>9, <2>2, ThenAt
    <3>2. <<q, d>> \in discarded \/ (dest = InDiscarded /\ <<q, d>> = <<p, f.call>>)
      BY <1>4, <3>1
    <3>3. <<q, d>> \in discarded => Now(x, q, d)
      BY <2>2, NowAt
    <3> QED
      BY <2>2, <3>2, <3>3
  <2>3. ASSUME NEW j \in DOMAIN conns', x = OnConn(j) PROVE Now(x, q, d)
    <3>1. Then(OnConn(j), q, d)
      BY <1>9, <2>3
    <3>2. j \in DOMAIN conns /\ conns'[j].part = q /\ Has(conns'[j].frames, d)
      <4>1. conns'[j].part = q /\ Has(conns'[j].frames, d)
        BY <3>1, ThenAt
      <4> QED
        BY <1>3, <2>3, <4>1
    <3>3. conns[j].part = q /\ Has(conns[j].frames, d)
      BY <1>3, <1>5, <3>2 DEF p
    <3> QED
      BY <2>3, <3>2, <3>3, NowAt
  <2>4. ASSUME NEW j \in DOMAIN made', x = InQueue(j) PROVE Now(x, q, d)
    <3>1. Then(InQueue(j), q, d) /\ made' = made
      BY <1>3, <1>9, <2>4
    <3>2. j \in DOMAIN made /\ made'[j].part = q /\ Has(made'[j].queue, d) /\ made' = made
      BY <2>4, <3>1, ThenAt, ZenonT(30)
    <3>3. j \in DOMAIN made /\ made[j].part = q /\ Has(made[j].queue, d)
      BY <3>2
    <3> QED
      BY <2>4, <3>3, NowAt
  <2>5. \/ x = InLog \/ x = InDiscarded
        \/ \E j \in DOMAIN conns' : x = OnConn(j)
        \/ \E j \in DOMAIN made' : x = InQueue(j)
    BY <1>9, ThenIn
  <2> QED
    BY <2>1, <2>2, <2>3, <2>4, <2>5
<1>10. \A q \in Partitions, d \in Nat \ {0} : \A x, y : Then(x, q, d) /\ Then(y, q, d) => x = y
  <2> SUFFICES ASSUME NEW q \in Partitions, NEW d \in Nat \ {0}, NEW x, NEW y, Then(x, q, d), Then(y, q, d)
               PROVE  x = y
    OBVIOUS
  <2>1. CASE q = p /\ d = f.call
    <3>1. \A z : Now(z, q, d) => z = OnConn(k)
      BY <1>7, <2>1, OnceNow
    <3>2. x # OnConn(k) /\ y # OnConn(k)
      BY <1>7, <2>1
    <3> QED
      BY <1>9, <3>1, <3>2
  <2>2. CASE ~(q = p /\ d = f.call)
    BY <1>9, <2>2, OnceNow
  <2> QED
    BY <2>1, <2>2
<1>11. \A q \in Partitions, d \in Nat \ {0} : \A x : Then(x, q, d) => \E y : Now(y, q, d)
  BY <1>7, <1>9
<1>12. \A q \in Partitions : IsInjective(log'[q])
  BY <1>8 DEF OnceOnly, OnceIn
<1>13. \A j \in DOMAIN conns' : Distinct(conns'[j].frames)
  BY <1>3, <1>5 DEF OnceOnly, OnceIn
<1>14. \A j \in DOMAIN made' : Distinct(made'[j].queue) /\ ~Has(made'[j].queue, 0)
  BY <1>3 DEF OnceOnly, OnceIn
<1> QED
  BY <1>10, <1>11, <1>12, <1>13, <1>14, OnceStays DEF Now, Then

(* A connection ends with what is still on it.                             *)
LEMMA FinishesOnce ==
  ASSUME Good, OnceOnly, Further, NEW k \in DOMAIN conns, Finishes(k)
  PROVE  OnceOnly'
<1>1. /\ DOMAIN conns' = DOMAIN conns /\ DOMAIN made' = DOMAIN made
      /\ conns'[k].frames = <<>> /\ \A j \in DOMAIN conns : j # k => conns'[j] = conns[j]
      /\ \A m \in DOMAIN made : made'[m].part = made[m].part /\ made'[m].queue = made[m].queue
      /\ log' = log /\ discarded' = discarded
  BY DEF Finishes, broker
<1>2. ASSUME NEW x, NEW q, NEW d, Then(x, q, d) PROVE Now(x, q, d)
  <2>1. CASE x = InLog
    <3>1. \E i \in DOMAIN log'[q] : log'[q][i] = d
      BY <1>2, <2>1, ThenAt
    <3>2. \E i \in DOMAIN log[q] : log[q][i] = d
      BY <1>1, <3>1
    <3> QED
      BY <2>1, <3>2, NowAt
  <2>2. CASE x = InDiscarded
    BY <1>1, <1>2, <2>2, ThenAt, NowAt
  <2>3. ASSUME NEW j \in DOMAIN conns', x = OnConn(j) PROVE Now(x, q, d)
    <3>1. Then(OnConn(j), q, d)
      BY <1>2, <2>3
    <3>2. j \in DOMAIN conns /\ conns'[j].part = q /\ Has(conns'[j].frames, d)
      <4>1. conns'[j].part = q /\ Has(conns'[j].frames, d)
        BY <3>1, ThenAt
      <4> QED
        BY <1>1, <2>3, <4>1
    <3>3. conns'[j] = conns[j]
      BY <1>1, <3>2, NoFrames
    <3> QED
      BY <2>3, <3>2, <3>3, NowAt
  <2>4. ASSUME NEW j \in DOMAIN made', x = InQueue(j) PROVE Now(x, q, d)
    <3>1. Then(InQueue(j), q, d)
      BY <1>2, <2>4
    <3>2. j \in DOMAIN made /\ made'[j].part = q /\ Has(made'[j].queue, d)
      <4>1. made'[j].part = q /\ Has(made'[j].queue, d)
        BY <3>1, ThenAt, ZenonT(30)
      <4> QED
        BY <1>1, <2>4, <4>1
    <3>3. made[j].part = q /\ Has(made[j].queue, d)
      BY <1>1, <3>2
    <3> QED
      BY <2>4, <3>2, <3>3, NowAt
  <2> QED
    BY <1>2, <2>1, <2>2, <2>3, <2>4, ThenIn
<1>3. \A q \in Partitions, d \in Nat \ {0} : \A x, y : Then(x, q, d) /\ Then(y, q, d) => x = y
  BY <1>2, OnceNow
<1>4. /\ \A j \in DOMAIN conns' : Distinct(conns'[j].frames)
      /\ \A j \in DOMAIN made' : Distinct(made'[j].queue) /\ ~Has(made'[j].queue, 0)
      /\ \A q \in Partitions : IsInjective(log'[q])
  BY <1>1, NoFrames DEF OnceOnly, OnceIn
<1> QED
  BY <1>2, <1>3, <1>4, OnceStays DEF Now, Then

(* The publishers that close write their queues.                           *)
LEMMA ShutsOnce ==
  ASSUME Good, OnceOnly, Further, Shuts
  PROVE  OnceOnly'
<1>1. /\ DOMAIN conns' = DOMAIN conns /\ DOMAIN made' = DOMAIN made /\ Open \subseteq DOMAIN made
      /\ \A m \in DOMAIN made :
           /\ made'[m].part = made[m].part
           /\ made'[m].queue = IF m \in Open /\ conns[made[m].conn].up THEN <<>> ELSE made[m].queue
      /\ \A k \in DOMAIN conns :
           /\ conns'[k].part = conns[k].part
           /\ \/ conns'[k] = conns[k]
              \/ \E m \in Open : /\ made[m].conn = k /\ conns[k].up
                                 /\ conns'[k].frames = conns[k].frames \o made[m].queue \o Goodbye(m)
      /\ log' = log /\ discarded' = discarded
  BY DEF Shuts, broker
<1>2. ASSUME NEW m \in DOMAIN made, NEW k \in DOMAIN conns, made[m].conn = k,
             conns'[k].frames = conns[k].frames \o made[m].queue \o Goodbye(m)
      PROVE  /\ \A d \in Nat \ {0} : Has(conns'[k].frames, d) => Has(conns[k].frames, d) \/ Has(made[m].queue, d)
             /\ Distinct(conns'[k].frames) /\ conns[k].part = made[m].part
  <2>1. /\ made[m] \in Publisher /\ conns[k] \in Connection /\ conns[k].part = made[m].part /\ m \in Nat
    BY <1>2, Points DEF Good, TypeOK, Base, Placed
  <2>2. made[m].queue \in Seq(Frames) /\ conns[k].frames \in Seq(Frames) /\ made[m].part \in Partitions
    BY <2>1, PublisherFacts, ConnectionFacts
  <2>3. Distinct(conns[k].frames) /\ Distinct(made[m].queue) /\ ~Has(made[m].queue, 0)
    BY DEF OnceOnly, OnceIn
  <2>4. ASSUME NEW d, Has(conns[k].frames, d), Has(made[m].queue, d) PROVE d = 0
    <3> SUFFICES ASSUME d # 0 PROVE FALSE
      OBVIOUS
    <3>1. d \in Nat
      <4>1. PICK i \in DOMAIN made[m].queue : made[m].queue[i].call = d
        BY <2>4 DEF Has
      <4>2. made[m].queue[i] \in Frames
        BY <2>2, Points
      <4> QED
        BY <4>1, <4>2 DEF Frames
    <3>2. Now(OnConn(k), made[m].part, d) /\ Now(InQueue(m), made[m].part, d)
      BY <2>1, <2>4, NowAt
    <3>3. OnConn(k) = InQueue(m)
      BY <2>2, <3>1, <3>2, OnceNow
    <3> QED
      BY <3>3, Places4
  <2> DEFINE s == conns[k].frames \o made[m].queue
             g == Goodbye(m)
  <2>5. /\ s \in Seq(Frames) /\ Distinct(s)
        /\ \A d : Has(s, d) <=> Has(conns[k].frames, d) \/ Has(made[m].queue, d)
    BY <2>2, <2>3, <2>4, AllMore
  <2>6. g \in Seq(Frames) /\ Distinct(g) /\ \A d : Has(g, d) => d = 0
    <3>1. CASE g = <<>>
      BY <3>1, NoFrames
    <3>2. CASE g = <<CloseFrame(m)>>
      <4> DEFINE h == CloseFrame(m)
      <4>1. h \in Frames /\ h.call = 0
        BY <2>1, FrameFacts
      <4> HIDE DEF h
      <4>2. g \in Seq(Frames) /\ DOMAIN g = {1} /\ g[1] = h
        BY <3>2, <4>1 DEF h
      <4> HIDE DEF g
      <4> QED
        BY <4>1, <4>2 DEF Distinct, Has
    <3> QED
      BY <3>1, <3>2 DEF Goodbye
  <2>7. conns'[k].frames = s \o g
    BY <1>2
  <2> HIDE DEF s, g
  <2>8. Distinct(s \o g) /\ \A d : Has(s \o g, d) <=> Has(s, d) \/ Has(g, d)
    BY <2>5, <2>6, AllMore
  <2> QED
    BY <2>1, <2>5, <2>6, <2>7, <2>8
<1> DEFINE Left(m) == m \in Open /\ conns[made[m].conn].up
<1>3. ASSUME NEW x, NEW q, NEW d \in Nat \ {0}, Then(x, q, d)
      PROVE  \/ Now(x, q, d) /\ \A m : Left(m) => x # InQueue(m)
             \/ \E m : Left(m) /\ x = OnConn(made[m].conn) /\ Now(InQueue(m), q, d)
  <2>1. CASE x = InLog
    <3>1. \E i \in DOMAIN log'[q] : log'[q][i] = d
      BY <1>3, <2>1, ThenAt, ZenonT(30)
    <3>2. \E i \in DOMAIN log[q] : log[q][i] = d
      BY <1>1, <3>1
    <3>3. Now(InLog, q, d)
      BY <3>2, NowAt
    <3> HIDE DEF Left
    <3> QED
      BY <2>1, <3>3, Places4
  <2>2. CASE x = InDiscarded
    <3>1. Then(InDiscarded, q, d)
      BY <1>3, <2>2
    <3>2. <<q, d>> \in discarded
      BY <1>1, <3>1, ThenAt
    <3>3. Now(InDiscarded, q, d)
      BY <3>2, NowAt
    <3> HIDE DEF Left
    <3> QED
      BY <2>2, <3>3, Places4
  <2>3. ASSUME NEW k \in DOMAIN conns', x = OnConn(k)
        PROVE  \/ Now(x, q, d) /\ \A m : Left(m) => x # InQueue(m)
               \/ \E m : Left(m) /\ x = OnConn(made[m].conn) /\ Now(InQueue(m), q, d)
    <3>1. Then(OnConn(k), q, d)
      BY <1>3, <2>3
    <3>2. k \in DOMAIN conns /\ conns'[k].part = q /\ Has(conns'[k].frames, d)
      <4>1. conns'[k].part = q /\ Has(conns'[k].frames, d)
        BY <3>1, ThenAt
      <4> QED
        BY <1>1, <2>3, <4>1
    <3>3. k \in DOMAIN conns /\ conns'[k].part = q /\ conns[k].part = q /\ Has(conns'[k].frames, d)
      BY <1>1, <3>2
    <3>4. CASE Has(conns[k].frames, d)
      <4>1. Now(OnConn(k), q, d)
        BY <3>3, <3>4, NowAt
      <4> HIDE DEF Left
      <4> QED
        BY <2>3, <4>1, Places4
    <3>5. CASE ~Has(conns[k].frames, d)
      <4>1. PICK m \in Open : /\ made[m].conn = k /\ conns[k].up
                              /\ conns'[k].frames = conns[k].frames \o made[m].queue \o Goodbye(m)
        BY <1>1, <3>3, <3>5
      <4>2. m \in DOMAIN made /\ Has(made[m].queue, d) /\ made[m].part = q
        BY <1>1, <1>2, <3>3, <3>5, <4>1, ZenonT(30)
      <4>3. Now(InQueue(m), q, d)
        BY <4>2, NowAt
      <4> QED
        BY <2>3, <4>1, <4>3
    <3> QED
      BY <3>4, <3>5
  <2>4. ASSUME NEW m \in DOMAIN made', x = InQueue(m)
        PROVE  Now(x, q, d) /\ \A j : Left(j) => x # InQueue(j)
    <3>1. Then(InQueue(m), q, d)
      BY <1>3, <2>4
    <3>2. m \in DOMAIN made /\ made'[m].part = q /\ Has(made'[m].queue, d)
      <4>1. made'[m].part = q /\ Has(made'[m].queue, d)
        BY <3>1, ThenAt, ZenonT(30)
      <4> QED
        BY <1>1, <2>4, <4>1
    <3>3. ~Left(m) /\ made[m].part = q /\ Has(made[m].queue, d)
      BY <1>1, <3>2, NoFrames
    <3>4. Now(InQueue(m), q, d)
      BY <3>2, <3>3, NowAt
    <3> HIDE DEF Left
    <3> QED
      BY <2>4, <3>3, <3>4, Places4
  <2> HIDE DEF Left
  <2> QED
    BY <1>3, <2>1, <2>2, <2>3, <2>4, ThenIn
<1>4. /\ \A j \in DOMAIN conns' : Distinct(conns'[j].frames)
      /\ \A j \in DOMAIN made' : Distinct(made'[j].queue) /\ ~Has(made'[j].queue, 0)
      /\ \A q \in Partitions : IsInjective(log'[q])
  <2>1. ASSUME NEW j \in DOMAIN conns PROVE Distinct(conns'[j].frames)
    <3>1. Distinct(conns[j].frames)
      BY DEF OnceOnly, OnceIn
    <3>2. CASE conns'[j] = conns[j]
      BY <3>1, <3>2
    <3>3. ASSUME NEW m \in Open, made[m].conn = j,
                 conns'[j].frames = conns[j].frames \o made[m].queue \o Goodbye(m)
          PROVE  Distinct(conns'[j].frames)
      <4>1. m \in DOMAIN made
        BY <1>1
      <4> QED
        BY <1>2, <3>3, <4>1
    <3> QED
      BY <1>1, <3>2, <3>3
  <2>2. \A j \in DOMAIN made' : Distinct(made'[j].queue) /\ ~Has(made'[j].queue, 0)
    BY <1>1, NoFrames DEF OnceOnly, OnceIn
  <2>3. \A q \in Partitions : IsInjective(log'[q])
    BY <1>1 DEF OnceOnly, OnceIn
  <2> QED
    BY <1>1, <2>1, <2>2, <2>3
<1> HIDE DEF Left
<1>5. \A q \in Partitions, d \in Nat \ {0} : \A x, y : Then(x, q, d) /\ Then(y, q, d) => x = y
  <2> SUFFICES ASSUME NEW q \in Partitions, NEW d \in Nat \ {0}, NEW x, NEW y, Then(x, q, d), Then(y, q, d)
               PROVE  x = y
    OBVIOUS
  <2>1. ASSUME NEW a, NEW m, Now(a, q, d), \A j : Left(j) => a # InQueue(j), Left(m), Now(InQueue(m), q, d)
        PROVE  FALSE
    BY <2>1, OnceNow
  <2>2. ASSUME NEW m, NEW n, Now(InQueue(m), q, d), Now(InQueue(n), q, d) PROVE m = n
    BY <2>2, OnceNow, Places4
  <2>3. ASSUME NEW a, NEW b, Now(a, q, d), Now(b, q, d) PROVE a = b
    BY <2>3, OnceNow
  <2> QED
    BY <1>3, <2>1, <2>2, <2>3
<1>6. \A q \in Partitions, d \in Nat \ {0} : \A x : Then(x, q, d) => \E y : Now(y, q, d)
  BY <1>3
<1> QED
  BY <1>4, <1>5, <1>6, OnceStays DEF Now, Then

LEMMA OnceStep == Good /\ OnceOnly /\ [Next]_vars => OnceOnly'
<1> SUFFICES ASSUME Good, OnceOnly, [Next]_vars PROVE OnceOnly'
  OBVIOUS
<1>1. Further /\ Event
  BY StepIs
<1>2. ASSUME NEW op, NEW keys, Begins(op, keys), UNCHANGED <<chosen, binding, broker, used>> PROVE OnceOnly'
  BY <1>1, <1>2, BeginsOnce
<1>3. CASE Shuts
  BY <1>1, <1>3, ShutsOnce
<1>4. ASSUME NEW m \in DOMAIN made, Flushes(m) PROVE OnceOnly'
  BY <1>1, <1>4, FlushesOnce
<1>5. ASSUME NEW c \in DOMAIN calls, NEW p, NEW k, Declares(c, p, k), UNCHANGED <<chosen, binding, cache, broker, used>>
      PROVE  OnceOnly'
  <2>1. \A j \in DOMAIN conns' : (j \in DOMAIN conns /\ conns'[j] = conns[j]) \/ conns'[j].frames = <<>>
    BY <1>5 DEF Declares
  <2> QED
    BY <1>1, <1>5, <2>1, SameOnce DEF Declares
<1>6. ASSUME NEW c \in DOMAIN calls, Refuses(c) PROVE OnceOnly'
  BY <1>1, <1>6, SameOnce DEF Refuses, Silent
<1>7. ASSUME NEW c \in DOMAIN calls, NEW k, Answers(c, k), UNCHANGED <<chosen, binding, broker, used>> PROVE OnceOnly'
  BY <1>1, <1>7, AnswersOnce
<1>8. ASSUME NEW c \in DOMAIN calls, NEW p \in Partitions, Constructs(c, p), UNCHANGED <<chosen, binding, cache, broker, used>>
      PROVE  OnceOnly'
  BY <1>1, <1>8, ConstructsOnce
<1>9. ASSUME NEW k \in DOMAIN conns, Stores(k) PROVE OnceOnly'
  BY <1>1, <1>9, StoresOnce
<1>10. ASSUME NEW k \in DOMAIN conns, Finishes(k) PROVE OnceOnly'
  BY <1>1, <1>10, FinishesOnce
<1>11. CASE Idle
  BY <1>1, <1>11, SameOnce DEF Idle
<1> QED
  BY <1>1, <1>2, <1>3, <1>4, <1>5, <1>6, <1>7, <1>8, <1>9, <1>10, <1>11 DEF Event

LEMMA OnePlace ==
  ASSUME Good, OnceOnly
  PROVE  NoneTwice
<1> SUFFICES ASSUME NEW p \in Partitions, NEW c \in DOMAIN calls, NEW a \in Places(p, c), NEW b \in Places(p, c)
             PROVE  a = b
  BY DEF NoneTwice
<1>1. c \in Nat \ {0}
  BY CallsAre DEF Good, TypeOK
<1> DEFINE Stored(x, i) == i \in DOMAIN log[p] /\ log[p][i] = c /\ x = <<"stored", i>>
           Dropped(x) == <<p, c>> \in discarded /\ x = <<"discarded">>
           Written(x, k, i) == /\ k \in DOMAIN conns /\ conns[k].part = p /\ i \in DOMAIN conns[k].frames
                               /\ conns[k].frames[i].call = c /\ x = <<"written", k, i>>
           Queued(x, m, i) == /\ m \in DOMAIN made /\ made[m].part = p /\ i \in DOMAIN made[m].queue
                              /\ made[m].queue[i].call = c /\ x = <<"queued", m, i>>
<1>2. ASSUME NEW x \in Places(p, c)
      PROVE  \/ \E i : Stored(x, i)
             \/ Dropped(x)
             \/ \E k, i : Written(x, k, i)
             \/ \E m, i : Queued(x, m, i)
  <2>1. CASE x \in StoredAt(p, c)
    BY <2>1 DEF StoredAt
  <2>2. CASE x \in DiscardedAt(p, c)
    BY <2>2 DEF DiscardedAt
  <2>3. CASE x \in WrittenAt(p, c)
    BY <2>3 DEF WrittenAt, At
  <2>4. CASE x \in QueuedAt(p, c)
    BY <2>4 DEF QueuedAt, At
  <2> HIDE DEF Stored, Dropped, Written, Queued
  <2> QED
    BY <2>1, <2>2, <2>3, <2>4 DEF Places
<1>3. /\ \A x, i : Stored(x, i) => Now(InLog, p, c)
      /\ \A x : Dropped(x) => Now(InDiscarded, p, c)
      /\ \A x, k, i : Written(x, k, i) => Now(OnConn(k), p, c)
      /\ \A x, m, i : Queued(x, m, i) => Now(InQueue(m), p, c)
  <2>1. \A x, i : Stored(x, i) => Now(InLog, p, c)
    BY NowAt
  <2>2. \A x : Dropped(x) => Now(InDiscarded, p, c)
    BY NowAt
  <2>3. \A x, k, i : Written(x, k, i) => Now(OnConn(k), p, c)
    BY NowAt DEF Has
  <2>4. \A x, m, i : Queued(x, m, i) => Now(InQueue(m), p, c)
    BY NowAt DEF Has
  <2> QED
    BY <2>1, <2>2, <2>3, <2>4
<1>4. /\ \A x, y, i, j : Stored(x, i) /\ Stored(y, j) => x = y
      /\ \A x, y : Dropped(x) /\ Dropped(y) => x = y
      /\ \A x, y, k, i, j : Written(x, k, i) /\ Written(y, k, j) => x = y
      /\ \A x, y, m, i, j : Queued(x, m, i) /\ Queued(y, m, j) => x = y
  <2>1. \A x, y, i, j : Stored(x, i) /\ Stored(y, j) => x = y
    BY DEF OnceOnly, OnceIn, IsInjective
  <2>2. ASSUME NEW x, NEW y, NEW k, NEW i, NEW j, Written(x, k, i), Written(y, k, j) PROVE x = y
    <3>1. Distinct(conns[k].frames)
      BY <2>2 DEF OnceOnly, OnceIn
    <3> QED
      BY <1>1, <2>2, <3>1 DEF Distinct
  <2>3. ASSUME NEW x, NEW y, NEW m, NEW i, NEW j, Queued(x, m, i), Queued(y, m, j) PROVE x = y
    <3>1. Distinct(made[m].queue)
      BY <2>3 DEF OnceOnly, OnceIn
    <3> QED
      BY <1>1, <2>3, <3>1 DEF Distinct
  <2> QED
    BY <2>1, <2>2, <2>3
<1> HIDE DEF Stored, Dropped, Written, Queued
<1>5. \A x, y : Now(x, p, c) /\ Now(y, p, c) => x = y
  BY <1>1, OnceNow
<1>6. ASSUME NEW i, Stored(a, i) PROVE a = b
  BY <1>2, <1>3, <1>4, <1>5, <1>6, Places4
<1>7. ASSUME Dropped(a) PROVE a = b
  BY <1>2, <1>3, <1>4, <1>5, <1>7, Places4
<1>8. ASSUME NEW k, NEW i, Written(a, k, i) PROVE a = b
  BY <1>2, <1>3, <1>4, <1>5, <1>8, Places4
<1>9. ASSUME NEW m, NEW i, Queued(a, m, i) PROVE a = b
  BY <1>2, <1>3, <1>4, <1>5, <1>9, Places4
<1> QED
  BY <1>2, <1>6, <1>7, <1>8, <1>9

(* Whatever calls run at once (send, sendSubEntries, close), a message is  *)
(* in one place at most, in a queue, on a connection, stored or discarded: *)
(* no call hands it over a second time.                                    *)
THEOREM HandedOnce == Spec => []NoneTwice
<1>1. Init => Good /\ OnceOnly
  BY FirstIsGood, FirstIsOnce
<1>2. Good /\ OnceOnly /\ [Next]_vars => (Good /\ OnceOnly)'
  BY StepIs, OnceStep
<1>3. Good /\ OnceOnly => NoneTwice
  BY OnePlace
<1> QED
  BY <1>1, <1>2, <1>3, PTL DEF Spec

(* The types of a super stream publisher's state (declarePublisher, routes,*)
(* sequences), and where its publishers, calls and requests belong.        *)
THEOREM PublishersBelong == Spec => [](TypeOK /\ Base)
<1>1. Init => TypeOK /\ Base
  BY FirstIsGood DEF Good
<1>2. TypeOK /\ Base /\ [Next]_vars => (TypeOK /\ Base)'
  BY StepIs DEF Good
<1> QED
  BY <1>1, <1>2, PTL DEF Spec

-----------------------------------------------------------------------------
(* The partitions of the keys.  While no batch has failed, every request   *)
(* for the partition of a key is of a call that waits for it, asks for one *)
(* of its keys, which has no partition yet, and is the only one for it.    *)

KeysIn(loc, cs, ca) ==
  /\ \A i \in DOMAIN loc : loc[i].type = "route" =>
       cs[loc[i].call].at = "routing" /\ ca[loc[i].key] = 0 /\ loc[i].key \in ToSet(cs[loc[i].call].keys)
  /\ \A i, j \in DOMAIN loc : i # j /\ loc[i].type = "route" /\ loc[j].type = "route" => loc[i].key # loc[j].key
  /\ \A c \in DOMAIN cs : Sticks(cs[c], ca)
KeysInv == plan.serial /\ ~BatchFailed => KeysIn(locator, calls, cache)

(* A call that has failed remains so.                                      *)
Lasting == \A d \in DOMAIN calls : calls[d].at = "failed" => calls'[d].at = "failed"

LEMMA FailedStays ==
  ASSUME Further, Lasting, BatchFailed
  PROVE  BatchFailed'
BY DEF Further, Lasting, BatchFailed, Same

(* The requests for partitions are those there were, or but the first.     *)
Drops(n) ==
  \A i \in DOMAIN locator' : locator'[i].type = "route" =>
    i + n \in DOMAIN locator /\ i \in Nat /\ locator'[i] = locator[i + n]

LEMMA KeysStay ==
  ASSUME KeysInv, Further, Lasting, plan' = plan, NEW n \in Nat, Drops(n), cache' = cache,
         \A d \in DOMAIN calls' : calls'[d].parts = <<>> \/ (d \in DOMAIN calls /\ calls'[d].parts = calls[d].parts),
         \A i \in DOMAIN locator : locator[i].type = "route" =>
           /\ locator[i].call \in DOMAIN calls
           /\ calls[locator[i].call].at = "routing" =>
                \/ calls'[locator[i].call].at = "routing"
                \/ \A j \in DOMAIN locator' : locator'[j].type = "route" => locator'[j].call # locator[i].call
  PROVE  KeysInv'
<1> SUFFICES ASSUME plan'.serial, ~BatchFailed' PROVE KeysIn(locator', calls', cache')
  BY DEF KeysInv
<1>1. KeysIn(locator, calls, cache)
  BY FailedStays DEF KeysInv
<1>2. ASSUME NEW i \in DOMAIN locator', locator'[i].type = "route"
      PROVE  /\ calls'[locator'[i].call].at = "routing" /\ cache'[locator'[i].key] = 0
             /\ locator'[i].key \in ToSet(calls'[locator'[i].call].keys)
  <2>1. i + n \in DOMAIN locator /\ locator'[i] = locator[i + n]
    BY <1>2 DEF Drops
  <2> DEFINE q == locator'[i]
  <2>2. /\ q.type = "route" /\ q.call \in DOMAIN calls /\ calls[q.call].at = "routing" /\ cache[q.key] = 0
        /\ q.key \in ToSet(calls[q.call].keys)
    BY <1>1, <1>2, <2>1 DEF KeysIn
  <2>3. calls'[q.call].at = "routing"
    BY <1>2, <2>1, <2>2
  <2>4. calls'[q.call].keys = calls[q.call].keys
    BY <2>2 DEF Further, Same
  <2> QED
    BY <2>2, <2>3, <2>4
<1>3. ASSUME NEW i \in DOMAIN locator', NEW j \in DOMAIN locator', i # j,
             locator'[i].type = "route", locator'[j].type = "route"
      PROVE  locator'[i].key # locator'[j].key
  <2>1. /\ i + n \in DOMAIN locator /\ locator'[i] = locator[i + n]
        /\ j + n \in DOMAIN locator /\ locator'[j] = locator[j + n] /\ i + n # j + n
    BY <1>3 DEF Drops
  <2> QED
    BY <1>1, <1>3, <2>1 DEF KeysIn
<1>4. ASSUME NEW d \in DOMAIN calls' PROVE Sticks(calls'[d], cache')
  <2>1. CASE calls'[d].parts = <<>>
    BY <2>1 DEF Sticks
  <2>2. CASE d \in DOMAIN calls /\ calls'[d].parts = calls[d].parts
    <3>1. calls'[d].keys = calls[d].keys
      BY <2>2 DEF Further, Same
    <3>2. Sticks(calls[d], cache)
      BY <1>1, <2>2 DEF KeysIn
    <3> QED
      BY <2>2, <3>1, <3>2 DEF Sticks
  <2> QED
    BY <2>1, <2>2
<1> QED
  BY <1>2, <1>3, <1>4 DEF KeysIn

LEMMA FirstKeys == Init => KeysInv
<1>1. DOMAIN <<>> = {}
  OBVIOUS
<1> SUFFICES ASSUME Init PROVE KeysIn(locator, calls, cache)
  BY DEF KeysInv
<1>2. locator = <<>> /\ calls = <<>>
  BY DEF Init
<1> QED
  BY <1>1, <1>2 DEF KeysIn

LEMMA LocatorIs ==
  ASSUME Good
  PROVE  /\ locator \in Seq(Query) /\ Asked(locator, calls) /\ calls \in Seq(Call)
         /\ \A i \in DOMAIN locator : /\ locator[i] \in Query /\ locator[i].call \in DOMAIN calls /\ i \in Nat
                                      /\ Fits(locator[i], calls[locator[i].call])
BY Points DEF Good, TypeOK, Base, Asked

(* Calls are made one by one, each when no other waits.                    *)
LEMMA NoRequests ==
  ASSUME Good, KeysInv, plan.serial, ~BatchFailed, NEW op, MayStart(op)
  PROVE  DOMAIN locator = {}
<1> SUFFICES ASSUME NEW i \in DOMAIN locator PROVE FALSE
  OBVIOUS
<1>1. locator[i].call \in DOMAIN calls /\ Fits(locator[i], calls[locator[i].call]) /\ locator[i] \in Query
  BY LocatorIs
<1>2. calls[locator[i].call].at \notin Awaiting
  BY <1>1 DEF MayStart
<1>3. locator[i].type # "route"
  BY <1>2 DEF KeysInv, KeysIn, Awaiting
<1>4. locator[i].type # "sequence"
  BY <1>1, <1>2 DEF Fits, Awaiting
<1> QED
  BY <1>1, <1>3, <1>4, QueryFacts

LEMMA BeginsKeys ==
  ASSUME Good, KeysInv, Further, NEW op, NEW keys, IsInjective(keys), MayStart(op), Begins(op, keys),
         UNCHANGED <<chosen, binding, broker, used>>
  PROVE  KeysInv'
<1> DEFINE c == Len(calls) + 1
<1>1. c \notin DOMAIN calls /\ locator \in Seq(Query)
  BY CallsAre DEF Good, TypeOK
<1>2. PICK x \in Call :
         /\ x.keys = keys /\ x.at = "routing" /\ Learns(x)
         /\ \/ /\ Silent(c, x)
               /\ \E qs \in Seq(Query) : locator' = locator \o qs /\ Unknown(c, x, qs)
            \/ /\ UNCHANGED locator
               /\ \E P \in SUBSET Partitions, y \in Call : Hands(c, x, P, publishers, made, y)
  BY DEF Begins
<1> HIDE DEF c
<1>3. PICK y : OneCall(c, y) /\ y.keys = keys /\ y.parts = x.parts
  BY <1>2 DEF Silent, Hands, Gets, Same
<1>4. Lasting
  BY <1>1, <1>3 DEF OneCall, Lasting
<1> SUFFICES ASSUME plan'.serial, ~BatchFailed' PROVE KeysIn(locator', calls', cache')
  BY DEF KeysInv
<1>5. KeysIn(locator, calls, cache) /\ DOMAIN locator = {}
  BY <1>4, FailedStays, NoRequests DEF KeysInv, chosen
<1>6. ASSUME NEW d \in DOMAIN calls' PROVE Sticks(calls'[d], cache')
  <2>1. CASE d = c
    <3>1. Sticks(x, cache')
      BY <1>2 DEF Learns
    <3>2. calls'[d].keys = x.keys /\ calls'[d].parts = x.parts
      BY <1>2, <1>3, <2>1 DEF OneCall
    <3> QED
      BY <3>1, <3>2 DEF Sticks
  <2>2. CASE d # c
    <3>1. d \in DOMAIN calls /\ calls'[d] = calls[d]
      BY <1>3, <2>2 DEF OneCall
    <3>2. Sticks(calls[d], cache)
      BY <1>5, <3>1 DEF KeysIn
    <3>3. Len(calls[d].keys) = 1 => calls[d].keys[1] \in Keys
      <4>1. calls[d].keys \in Seq(Keys)
        BY <3>1, CallsAre, CallFacts DEF Good, TypeOK
      <4> QED
        BY <4>1, Points
    <3>4. \A k \in Keys : cache[k] # 0 => cache'[k] = cache[k]
      BY <1>2 DEF Learns
    <3> QED
      BY <3>1, <3>2, <3>3, <3>4 DEF Sticks
  <2> QED
    BY <2>1, <2>2
<1>7. CASE UNCHANGED locator
  <2>1. DOMAIN locator' = {}
    BY <1>5, <1>7
  <2> QED
    BY <1>6, <2>1 DEF KeysIn
<1>8. ASSUME Silent(c, x), NEW qs \in Seq(Query), locator' = locator \o qs, Unknown(c, x, qs)
      PROVE  KeysIn(locator', calls', cache')
  <2>1. \A i \in DOMAIN locator' : \E j \in DOMAIN qs : i = Len(locator) + j /\ locator'[i] = qs[j] /\ j \in Nat
    BY <1>1, <1>5, <1>8, Joined
  <2>2. calls'[c].at = "routing" /\ calls'[c].keys = x.keys
    BY <1>2, <1>8 DEF Silent, OneCall
  <2>3. ASSUME NEW i \in DOMAIN locator'
        PROVE  calls'[locator'[i].call].at = "routing" /\ cache'[locator'[i].key] = 0
               /\ locator'[i].key \in ToSet(calls'[locator'[i].call].keys)
    <3>1. PICK j \in DOMAIN qs : locator'[i] = qs[j]
      BY <2>1
    <3>2. qs[j].call = c /\ qs[j].key \in ToSet(x.keys) /\ cache'[qs[j].key] = 0
      BY <1>8 DEF Unknown
    <3> QED
      BY <2>2, <3>1, <3>2
  <2>4. ASSUME NEW i \in DOMAIN locator', NEW j \in DOMAIN locator', i # j PROVE locator'[i].key # locator'[j].key
    <3>1. PICK a \in DOMAIN qs : i = Len(locator) + a /\ locator'[i] = qs[a]
      BY <2>1
    <3>2. PICK b \in DOMAIN qs : j = Len(locator) + b /\ locator'[j] = qs[b]
      BY <2>1
    <3>3. a # b
      BY <2>4, <3>1, <3>2
    <3>4. qs[a].key # qs[b].key
      BY <1>2, <1>8, <3>3 DEF Unknown
    <3> QED
      BY <3>1, <3>2, <3>4
  <2> QED
    BY <1>6, <2>3, <2>4 DEF KeysIn
<1> QED
  BY <1>2, <1>7, <1>8

(* The answer for a key: it is its own, and no other request waits for it. *)
LEMMA AnswersKeys ==
  ASSUME Good, KeysInv, Further, NEW c \in DOMAIN calls, NEW k \in Keys, Answers(c, k),
         UNCHANGED <<chosen, binding, broker, used>>
  PROVE  KeysInv'
<1> DEFINE b == binding[k]
           parts == AddPartition(calls[c].parts, b)
<1>1. calls[c] \in Call /\ c \in Nat /\ plan' = plan
  BY CallsAre DEF Good, TypeOK, chosen
<1>2. b \in Partitions \cup {0} /\ cache \in [Keys -> Partitions \cup {0}]
  BY DEF Good, TypeOK
<1>3. /\ locator # <<>> /\ Head(locator).type = "route" /\ c = Head(locator).call /\ k = Head(locator).key
      /\ locator' = Tail(locator)
  BY DEF Answers
<1>4. \/ b = 0 /\ Silent(c, Fails(calls[c])) /\ UNCHANGED cache
      \/ /\ b # 0 /\ cache' = [cache EXCEPT ![k] = b]
         /\ \/ Silent(c, Knows(calls[c], parts))
            \/ /\ calls[c].at = "routing"
               /\ \E P \in SUBSET Partitions, y \in Call :
                    Hands(c, Taught(calls[c], parts, parts), P, publishers, made, y)
  BY DEF Answers
<1>5. locator \in Seq(Query) /\ Asked(locator, calls)
  BY LocatorIs
<1>6. /\ \A i \in DOMAIN locator' : i + 1 \in DOMAIN locator /\ i + 1 > 1 /\ locator'[i] = locator[i + 1] /\ i + 1 # 1
      /\ 1 \in DOMAIN locator /\ locator[1] = Head(locator)
  <2>1. \A i \in DOMAIN Tail(locator) : i + 1 \in DOMAIN locator /\ i + 1 > 1 /\ Tail(locator)[i] = locator[i + 1]
    BY <1>3, <1>5, AskedTail
  <2>2. 1 \in DOMAIN locator /\ locator[1] = Head(locator)
    BY <1>3, <1>5, Beheaded
  <2>3. \A i \in DOMAIN Tail(locator) : i \in Nat
    BY <1>3, <1>5, Beheaded
  <2> QED
    BY <1>3, <2>1, <2>2, <2>3
<1>7. calls[c].parts \in Seq(Partitions) /\ calls[c].keys \in Seq(Keys) /\ IsInjective(calls[c].parts)
  <2>1. Tidy(calls[c])
    BY DEF Good, Base, CallOk
  <2> QED
    BY <1>1, <2>1, CallFacts DEF Tidy
<1>8. b # 0 => parts \in Seq(Partitions)
  BY <1>2, <1>7, PartitionAdded
<1>9. \/ b = 0 /\ UNCHANGED cache /\ OneCall(c, calls'[c]) /\ calls'[c].at = "failed"
         /\ calls'[c].parts = calls[c].parts
      \/ /\ b # 0 /\ cache' = [cache EXCEPT ![k] = b] /\ OneCall(c, calls'[c]) /\ calls'[c].parts = parts
         /\ calls'[c].at = calls[c].at \/ (calls[c].at = "routing" /\ \A i \in DOMAIN locator' : locator'[i].call # c)
  <2>1. CASE b = 0
    <3>1. Silent(c, Fails(calls[c])) /\ UNCHANGED cache
      BY <1>4, <2>1
    <3>2. PICK z : z = Fails(calls[c])
      OBVIOUS
    <3>3. z.at = "failed" /\ z.parts = calls[c].parts
      BY <1>1, <3>2, CallFails
    <3>4. calls'[c] = z /\ OneCall(c, z)
      BY <3>1, <3>2 DEF Silent, OneCall
    <3> QED
      BY <2>1, <3>1, <3>3, <3>4
  <2>2. CASE b # 0 /\ Silent(c, Knows(calls[c], parts))
    <3>1. PICK z : z = Knows(calls[c], parts)
      OBVIOUS
    <3>2. z.at = calls[c].at /\ z.parts = parts
      BY <1>1, <1>8, <2>2, <3>1, CallKnows
    <3>3. calls'[c] = z /\ OneCall(c, z)
      BY <2>2, <3>1 DEF Silent, OneCall
    <3>4. cache' = [cache EXCEPT ![k] = b]
      BY <1>4, <2>2
    <3> QED
      BY <2>2, <3>2, <3>3, <3>4
  <2>3. ASSUME b # 0, calls[c].at = "routing", NEW P, NEW y \in Call,
               Hands(c, Taught(calls[c], parts, parts), P, publishers, made, y)
        PROVE  /\ b # 0 /\ cache' = [cache EXCEPT ![k] = b] /\ OneCall(c, calls'[c]) /\ calls'[c].parts = parts
               /\ calls[c].at = "routing" /\ \A i \in DOMAIN locator' : locator'[i].call # c
    <3>1. PICK z : z = Taught(calls[c], parts, parts)
      OBVIOUS
    <3>2. z.parts = parts
      BY <1>1, <1>8, <2>3, <3>1, CallLearns
    <3>3. /\ OneCall(c, y) /\ y.parts = z.parts /\ \A i \in DOMAIN locator' : locator'[i].call # c
      BY <2>3, <3>1 DEF Hands, Gets
    <3>4. calls'[c] = y
      BY <3>3 DEF OneCall
    <3>5. cache' = [cache EXCEPT ![k] = b]
      BY <1>4, <2>3
    <3> QED
      BY <2>3, <3>2, <3>3, <3>4, <3>5
  <2> QED
    BY <1>4, <2>1, <2>2, <2>3
<1> HIDE DEF b, parts
<1>10. Lasting
  <2>1. \A d \in DOMAIN calls : d # c => calls'[d] = calls[d]
    BY <1>9 DEF OneCall
  <2>2. calls[c].at = "failed" => calls'[c].at = "failed"
    BY <1>9
  <2> QED
    BY <2>1, <2>2 DEF Lasting
<1> SUFFICES ASSUME plan'.serial, ~BatchFailed' PROVE KeysIn(locator', calls', cache')
  BY DEF KeysInv
<1>11. KeysIn(locator, calls, cache)
  BY <1>1, <1>10, FailedStays DEF KeysInv
<1>12. calls[c].at = "routing" /\ cache[k] = 0 /\ k \in ToSet(calls[c].keys)
  BY <1>3, <1>6, <1>11 DEF KeysIn
<1>13. /\ DOMAIN calls' = DOMAIN calls /\ calls'[c].keys = calls[c].keys
       /\ \A d \in DOMAIN calls : d # c => calls'[d] = calls[d]
  BY <1>9 DEF OneCall, Further, Same
<1>14. ASSUME NEW i \in DOMAIN locator', locator'[i].type = "route"
       PROVE  /\ calls'[locator'[i].call].at = "routing" /\ cache'[locator'[i].key] = 0
              /\ locator'[i].key \in ToSet(calls'[locator'[i].call].keys)
  <2>1. i + 1 \in DOMAIN locator /\ i + 1 # 1 /\ locator'[i] = locator[i + 1]
    BY <1>6
  <2>2. PICK q : q = locator'[i]
    OBVIOUS
  <2>3. /\ calls[q.call].at = "routing" /\ cache[q.key] = 0 /\ q.key \in ToSet(calls[q.call].keys)
        /\ q.call \in DOMAIN calls /\ q.key # k
    <3>1. /\ calls[q.call].at = "routing" /\ cache[q.key] = 0 /\ q.key \in ToSet(calls[q.call].keys)
      BY <1>11, <1>14, <2>1, <2>2 DEF KeysIn
    <3>2. q.call \in DOMAIN calls
      BY <2>1, <2>2, LocatorIs
    <3>3. q.key # k
      BY <1>3, <1>6, <1>11, <1>14, <2>1, <2>2 DEF KeysIn
    <3> QED
      BY <3>1, <3>2, <3>3
  <2>4. calls'[q.call].at = "routing"
    <3>1. CASE q.call # c
      BY <1>13, <2>3, <3>1
    <3>2. CASE q.call = c /\ b # 0
      BY <1>9, <1>12, <2>2, <3>2
    <3>3. CASE q.call = c /\ b = 0
      <4>1. Len(calls[c].keys) > 1
        <5>1. PICK i1 \in DOMAIN calls[c].keys : k = calls[c].keys[i1]
          BY <1>12 DEF ToSet
        <5>2. PICK i2 \in DOMAIN calls[c].keys : q.key = calls[c].keys[i2]
          BY <2>3, <3>3 DEF ToSet
        <5>3. i1 # i2
          BY <2>3, <5>1, <5>2
        <5>4. DOMAIN calls[c].keys = 1 .. Len(calls[c].keys) /\ Len(calls[c].keys) \in Nat
          BY <1>7, Points
        <5> QED
          BY <5>1, <5>2, <5>3, <5>4
      <4>2. BatchFailed'
        BY <1>9, <1>13, <3>3, <4>1 DEF BatchFailed
      <4> QED
        BY <4>2
    <3> QED
      BY <3>1, <3>2, <3>3
  <2>5. q.key \in ToSet(calls'[q.call].keys)
    BY <1>13, <2>3
  <2>6. cache'[q.key] = 0
    <3>1. q.key \in Keys
      <4>1. calls[q.call].keys \in Seq(Keys)
        BY <2>3, CallsAre, CallFacts DEF Good, TypeOK
      <4> QED
        BY <2>3, <4>1, Points DEF ToSet
    <3> QED
      BY <1>2, <1>9, <2>3, <3>1
  <2> QED
    BY <2>2, <2>4, <2>5, <2>6
<1>15. ASSUME NEW i \in DOMAIN locator', NEW j \in DOMAIN locator', i # j,
              locator'[i].type = "route", locator'[j].type = "route"
       PROVE  locator'[i].key # locator'[j].key
  <2>1. /\ i + 1 \in DOMAIN locator /\ locator'[i] = locator[i + 1]
        /\ j + 1 \in DOMAIN locator /\ locator'[j] = locator[j + 1]
    BY <1>6
  <2>2. i + 1 # j + 1
    <3>1. i \in Nat /\ j \in Nat
      BY <1>3, <1>5, Beheaded
    <3> QED
      BY <1>15, <3>1
  <2> QED
    BY <1>11, <1>15, <2>1, <2>2 DEF KeysIn
<1>16. ASSUME NEW d \in DOMAIN calls' PROVE Sticks(calls'[d], cache')
  <2>1. Sticks(calls[d], cache)
    BY <1>11, <1>13 DEF KeysIn
  <2>2. CASE b = 0
    <3>1. cache' = cache /\ calls'[d].keys = calls[d].keys /\ calls'[d].parts = calls[d].parts
      BY <1>9, <1>13, <2>2
    <3> QED
      BY <2>1, <3>1 DEF Sticks
  <2>3. CASE b # 0 /\ d # c
    <3>1. SUFFICES ASSUME Len(calls[d].keys) = 1, calls[d].parts # <<>>
                   PROVE  cache'[calls[d].keys[1]] # 0 /\ calls[d].parts = <<cache'[calls[d].keys[1]]>>
      BY <1>13, <2>3 DEF Sticks
    <3>2. calls[d].keys[1] \in Keys
      <4>1. calls[d].keys \in Seq(Keys)
        BY <1>13, CallsAre, CallFacts DEF Good, TypeOK
      <4> QED
        BY <3>1, <4>1, Points
    <3>3. cache[calls[d].keys[1]] # 0 /\ calls[d].parts = <<cache[calls[d].keys[1]]>>
      BY <2>1, <3>1 DEF Sticks
    <3>4. cache'[calls[d].keys[1]] = cache[calls[d].keys[1]]
      BY <1>2, <1>9, <1>12, <2>3, <3>2, <3>3
    <3> QED
      BY <3>3, <3>4
  <2>4. CASE b # 0 /\ d = c
    <3>1. SUFFICES ASSUME Len(calls[c].keys) = 1
                   PROVE  cache'[calls[c].keys[1]] # 0 /\ calls'[c].parts = <<cache'[calls[c].keys[1]]>>
      BY <1>13, <2>4 DEF Sticks
    <3>2. calls[c].keys[1] = k
      <4>1. DOMAIN calls[c].keys = 1 .. Len(calls[c].keys)
        BY <1>7, Points
      <4> QED
        BY <1>12, <3>1, <4>1 DEF ToSet
    <3>3. calls[c].parts = <<>>
      BY <1>12, <2>1, <2>4, <3>1, <3>2 DEF Sticks
    <3>4. parts = <<b>>
      BY <3>3 DEF parts, b, AddPartition, ToSet
    <3>5. cache'[k] = b
      BY <1>2, <1>9, <2>4
    <3> QED
      BY <1>9, <2>4, <3>2, <3>4, <3>5
  <2> QED
    BY <2>2, <2>3, <2>4
<1> QED
  BY <1>14, <1>15, <1>16 DEF KeysIn

(* One call goes on that had no request for a partition left.              *)
LEMMA OneKeys ==
  ASSUME Good, KeysInv, Further, plan' = plan, cache' = cache, NEW n \in Nat, Drops(n),
         NEW c \in DOMAIN calls, NEW y, OneCall(c, y), y.parts = calls[c].parts,
         calls[c].at \notin {"routing", "failed"}
  PROVE  KeysInv'
<1>1. \A d \in DOMAIN calls : d # c => calls'[d] = calls[d]
  BY DEF OneCall
<1>2. Lasting
  BY <1>1 DEF Lasting
<1>3. \A d \in DOMAIN calls' : d \in DOMAIN calls /\ calls'[d].parts = calls[d].parts
  BY <1>1 DEF OneCall
<1>4. \A i \in DOMAIN locator : locator[i].type = "route" =>
        /\ locator[i].call \in DOMAIN calls
        /\ calls[locator[i].call].at = "routing" => calls'[locator[i].call].at = "routing"
  BY <1>1, LocatorIs
<1> QED
  BY <1>2, <1>3, <1>4, KeysStay

LEMMA SameKeys ==
  ASSUME KeysInv, plan' = plan, UNCHANGED <<locator, calls, cache>>
  PROVE  KeysInv'
<1>1. BatchFailed' <=> BatchFailed
  BY DEF BatchFailed
<1> QED
  BY <1>1 DEF KeysInv, KeysIn, Sticks

LEMMA DeclaresKeys ==
  ASSUME Good, KeysInv, Further, NEW c \in DOMAIN calls, NEW p \in Partitions, NEW k \in Nat, Declares(c, p, k),
         UNCHANGED <<chosen, binding, cache, broker, used>>
  PROVE  KeysInv'
<1>1. calls[c] \in Call /\ plan' = plan /\ calls[c].at = "declaring" /\ c \in Nat /\ cache' = cache
  BY CallsAre DEF Good, TypeOK, chosen, Declares
<1>2. PICK y : y = Querying(calls[c], k)
  OBVIOUS
<1>3. y.parts = calls[c].parts
  BY <1>1, <1>2, CallDeclares
<1>4. OneCall(c, y) /\ locator' = Append(locator, SequenceQuery(c, p))
  BY <1>2 DEF Declares
<1>5. locator \in Seq(Query) /\ SequenceQuery(c, p) \in Query /\ SequenceQuery(c, p).type = "sequence"
  BY <1>1, QueryFacts DEF Good, TypeOK
<1>6. ASSUME NEW i \in DOMAIN locator', locator'[i].type = "route"
      PROVE  i \in DOMAIN locator /\ i \in Nat /\ locator'[i] = locator[i]
  <2>1. i \in 1 .. Len(locator) + 1 /\ Len(locator) \in Nat /\ DOMAIN locator = 1 .. Len(locator)
    BY <1>4, <1>5, Appended
  <2>2. i # Len(locator) + 1
    BY <1>4, <1>5, <1>6, Appended
  <2> QED
    BY <1>4, <1>5, <2>1, <2>2, Appended
<1>7. Drops(0)
  BY <1>6 DEF Drops
<1> QED
  BY <1>1, <1>3, <1>4, <1>7, OneKeys

LEMMA RefusesKeys ==
  ASSUME Good, KeysInv, Further, NEW c \in DOMAIN calls, Refuses(c)
  PROVE  KeysInv'
<1>1. calls[c] \in Call /\ plan' = plan /\ calls[c].at = "declaring" /\ locator' = locator /\ cache' = cache
  BY CallsAre DEF Good, TypeOK, chosen, Refuses
<1>2. PICK y : y = Fails(calls[c])
  OBVIOUS
<1>3. y.parts = calls[c].parts
  BY <1>1, <1>2, CallFails
<1>4. OneCall(c, y)
  BY <1>2 DEF Refuses, Silent
<1>5. Drops(0)
  BY <1>1, LocatorIs DEF Drops
<1> QED
  BY <1>1, <1>3, <1>4, <1>5, OneKeys

LEMMA ConstructsKeys ==
  ASSUME Good, KeysInv, Further, NEW c \in DOMAIN calls, NEW p \in Partitions, Constructs(c, p),
         UNCHANGED <<chosen, binding, cache, broker, used>>
  PROVE  KeysInv'
<1>1. /\ plan' = plan /\ calls[c].at = "querying" /\ locator # <<>> /\ locator' = Tail(locator) /\ cache' = cache
      /\ locator \in Seq(Query)
  BY DEF Good, TypeOK, chosen, Constructs
<1>2. PICK y : OneCall(c, y) /\ y.parts = calls[c].parts
  BY DEF Constructs, Hands, Gets
<1>3. Drops(1)
  BY <1>1, Beheaded DEF Drops
<1> QED
  BY <1>1, <1>2, <1>3, OneKeys

LEMMA FinishesKeys ==
  ASSUME Good, KeysInv, Further, NEW k \in DOMAIN conns, Finishes(k)
  PROVE  KeysInv'
<1>1. plan' = plan /\ locator' = locator /\ cache' = cache
  BY DEF Finishes, chosen
<1>2. \A d \in DOMAIN calls : \/ calls'[d] = calls[d]
                              \/ calls[d].at = "closing" /\ calls'[d].parts = calls[d].parts
  BY DEF Finishes
<1>3. DOMAIN calls' = DOMAIN calls
  BY DEF Finishes
<1>4. Drops(0)
  BY <1>1, LocatorIs DEF Drops
<1>5. Lasting
  BY <1>2 DEF Lasting
<1>6. \A d \in DOMAIN calls' : d \in DOMAIN calls /\ calls'[d].parts = calls[d].parts
  BY <1>2, <1>3
<1>7. \A i \in DOMAIN locator : locator[i].type = "route" =>
        /\ locator[i].call \in DOMAIN calls
        /\ calls[locator[i].call].at = "routing" => calls'[locator[i].call].at = "routing"
  BY <1>2, LocatorIs
<1> QED
  BY <1>1, <1>4, <1>5, <1>6, <1>7, KeysStay

LEMMA ShutsKeys ==
  ASSUME Good, KeysInv, Further, Shuts
  PROVE  KeysInv'
<1>1. plan' = plan /\ locator' = locator /\ cache' = cache
  BY DEF Shuts, chosen
<1>2. PICK x : OneCall(Len(calls) + 1, x) /\ Len(calls) + 1 \notin DOMAIN calls /\ x.parts = <<>>
  BY DEF Shuts
<1> DEFINE c == Len(calls) + 1
<1> HIDE DEF c
<1>3. /\ c \notin DOMAIN calls /\ DOMAIN calls' = DOMAIN calls \cup {c} /\ calls'[c].parts = <<>>
      /\ \A d \in DOMAIN calls : d # c => calls'[d] = calls[d]
  BY <1>2 DEF OneCall, c
<1>4. Drops(0)
  BY <1>1, LocatorIs DEF Drops
<1>5. Lasting
  BY <1>3 DEF Lasting
<1>6. \A d \in DOMAIN calls' : calls'[d].parts = <<>> \/ (d \in DOMAIN calls /\ calls'[d].parts = calls[d].parts)
  BY <1>3
<1>7. \A i \in DOMAIN locator : locator[i].type = "route" =>
        /\ locator[i].call \in DOMAIN calls
        /\ calls[locator[i].call].at = "routing" => calls'[locator[i].call].at = "routing"
  BY <1>3, LocatorIs
<1> QED
  BY <1>1, <1>4, <1>5, <1>6, <1>7, KeysStay

LEMMA KeysStep ==
  ASSUME Good, KeysInv, Further, Event
  PROVE  KeysInv'
<1>1. ASSUME NEW op, NEW keys, IsInjective(keys), MayStart(op), Begins(op, keys),
             UNCHANGED <<chosen, binding, broker, used>>
      PROVE  KeysInv'
  BY <1>1, BeginsKeys
<1>2. CASE Shuts
  BY <1>2, ShutsKeys
<1>3. ASSUME NEW m \in DOMAIN made, Flushes(m) PROVE KeysInv'
  BY <1>3, SameKeys DEF Flushes, chosen
<1>4. ASSUME NEW c \in DOMAIN calls, NEW p \in Partitions, NEW k \in Nat, Declares(c, p, k),
             UNCHANGED <<chosen, binding, cache, broker, used>>
      PROVE  KeysInv'
  BY <1>4, DeclaresKeys
<1>5. ASSUME NEW c \in DOMAIN calls, Refuses(c) PROVE KeysInv'
  BY <1>5, RefusesKeys
<1>6. ASSUME NEW c \in DOMAIN calls, NEW k \in Keys, Answers(c, k), UNCHANGED <<chosen, binding, broker, used>>
      PROVE  KeysInv'
  BY <1>6, AnswersKeys
<1>7. ASSUME NEW c \in DOMAIN calls, NEW p \in Partitions, Constructs(c, p),
             UNCHANGED <<chosen, binding, cache, broker, used>>
      PROVE  KeysInv'
  BY <1>7, ConstructsKeys
<1>8. ASSUME NEW k \in DOMAIN conns, Stores(k) PROVE KeysInv'
  BY <1>8, SameKeys DEF Stores, chosen
<1>9. ASSUME NEW k \in DOMAIN conns, Finishes(k) PROVE KeysInv'
  BY <1>9, FinishesKeys
<1>10. CASE Idle
  BY <1>10, SameKeys DEF Idle, chosen
<1> QED
  BY <1>1, <1>2, <1>3, <1>4, <1>5, <1>6, <1>7, <1>8, <1>9, <1>10 DEF Event

(* Messages of one key, sent in turn, go to one partition: the cache       *)
(* remembers the first answer, whatever the bindings are by then.          *)
THEOREM OneKeyOnePartition == Spec => []KeysStick
<1>1. Init => Good /\ KeysInv
  BY FirstIsGood, FirstKeys
<1>2. Good /\ KeysInv /\ [Next]_vars => (Good /\ KeysInv)'
  <2> SUFFICES ASSUME Good, KeysInv, [Next]_vars PROVE Good' /\ KeysInv'
    OBVIOUS
  <2> QED
    BY StepIs, KeysStep
<1>3. KeysInv => KeysStick
  BY DEF KeysInv, KeysIn, Sticks, KeysStick
<1> QED
  BY <1>1, <1>2, <1>3, PTL DEF Spec

-----------------------------------------------------------------------------
(* Calls made in turn.  The last one alone waits; a publisher in the map   *)
(* is open, or being closed with all the others, one that has left the map *)
(* is over, with its connection, and no two live on one connection.        *)

LastWaits(cs) == \A c \in DOMAIN cs : cs[c].at \in Awaiting => c = Len(cs)
Closes(cs) == \E c \in DOMAIN cs : cs[c].at = "closing"
AllMiss(cs, pubs) == \A c \in DOMAIN cs : Missing(cs[c], pubs)
Asks(cs, k) == \E c \in DOMAIN cs : cs[c].at = "querying" /\ cs[c].conn = k
Over(x, cc) == x.state = "closed" /\ x.queue = <<>> /\ ~cc[x.conn].up
Gone(pubs, mm, cc) == \A m \in DOMAIN mm : (\A p \in Partitions : pubs[p] # m) => Over(mm[m], cc)
Owns(pubs, mm, k, p) == pubs[p] # 0 /\ mm[pubs[p]].conn = k

Opened(pubs, mm, cc, cs) ==
  /\ \A p \in Partitions : pubs[p] # 0 => mm[pubs[p]].state = "open" /\ cc[mm[pubs[p]].conn].up
  /\ Gone(pubs, mm, cc)
  /\ \A k \in DOMAIN cc : cc[k].up =>
       Owns(pubs, mm, k, cc[k].part) \/ (pubs[cc[k].part] = 0 /\ cc[k].frames = <<>> /\ Asks(cs, k))
  /\ \A k \in DOMAIN cc : ~Has(cc[k].frames, 0)
  /\ \A k : Asks(cs, k) => k \in DOMAIN cc /\ cc[k].up
Ending(pubs, mm, cc) ==
  /\ \A p \in Partitions : pubs[p] # 0 =>
       /\ mm[pubs[p]].queue = <<>>
       /\ mm[pubs[p]].state = IF cc[mm[pubs[p]].conn].up THEN "closing" ELSE "closed"
  /\ Gone(pubs, mm, cc)
  /\ \A k \in DOMAIN cc : cc[k].up => Owns(pubs, mm, k, cc[k].part)
  /\ \A k \in DOMAIN cc : \A i \in DOMAIN cc[k].frames : cc[k].frames[i].call = 0 =>
       i = Len(cc[k].frames) /\ cc[k].frames[i].id = pubs[cc[k].part]
InTurn(pubs, mm, cc, cs) ==
  /\ LastWaits(cs) /\ AllMiss(cs, pubs)
  /\ ~Closes(cs) => Opened(pubs, mm, cc, cs)
  /\ Closes(cs) => Ending(pubs, mm, cc)
Serial == plan.serial => InTurn(publishers, made, conns, calls)

LEMMA FirstIsSerial == Init => Serial
<1>1. DOMAIN <<>> = {}
  OBVIOUS
<1> SUFFICES ASSUME Init PROVE InTurn(publishers, made, conns, calls)
  BY DEF Serial
<1>2. calls = <<>> /\ made = <<>> /\ conns = <<>> /\ \A p \in Partitions : publishers[p] = 0
  BY DEF Init
<1> QED
  BY <1>1, <1>2 DEF InTurn, LastWaits, AllMiss, Closes, Opened, Gone, Asks

(* A connection that is up has one publisher at most.                      *)
LEMMA OneUser ==
  ASSUME Good, InTurn(publishers, made, conns, calls), NEW m \in DOMAIN made, conns[made[m].conn].up
  PROVE  publishers[made[m].part] = m /\ Owns(publishers, made, made[m].conn, made[m].part)
<1>1. /\ made[m].conn \in DOMAIN conns /\ conns[made[m].conn].part = made[m].part
      /\ \A p \in Partitions : publishers[p] # 0 => publishers[p] \in DOMAIN made /\ made[publishers[p]].part = p
      /\ m # 0
  BY Points DEF Good, TypeOK, Base, Placed
<1>2. Gone(publishers, made, conns)
  BY DEF InTurn, Opened, Ending
<1>3. PICK p \in Partitions : publishers[p] = m
  BY <1>2 DEF Gone, Over
<1>4. made[m].part = p
  BY <1>1, <1>3
<1> QED
  BY <1>1, <1>3, <1>4 DEF Owns

LEMMA SameSerial ==
  ASSUME Serial, plan' = plan, UNCHANGED <<publishers, made, conns, calls>>
  PROVE  Serial'
BY DEF Serial, InTurn, LastWaits, AllMiss, Closes, Opened, Ending, Gone, Over, Asks, Owns, Missing, Has

(* A call goes on, or fails, before it has come to a connection.           *)
LEMMA SilentSerial ==
  ASSUME Serial, plan' = plan, UNCHANGED <<publishers, made, conns>>, NEW c \in DOMAIN calls, NEW x, OneCall(c, x),
         calls[c].at \in {"routing", "failed", "declaring"}, x.at \in {"failed", "routing"},
         x.at = "routing" => calls[c].at = "routing"
  PROVE  Serial'
<1> SUFFICES ASSUME plan'.serial PROVE InTurn(publishers', made', conns', calls')
  BY DEF Serial
<1>1. InTurn(publishers, made, conns, calls)
  BY DEF Serial
<1>2. /\ DOMAIN calls' = DOMAIN calls /\ Len(calls') = Len(calls) /\ calls'[c] = x
      /\ \A d \in DOMAIN calls : d # c => calls'[d] = calls[d]
  BY DEF OneCall
<1>3. LastWaits(calls')
  BY <1>1, <1>2 DEF InTurn, LastWaits, Awaiting
<1>4. AllMiss(calls', publishers')
  BY <1>1, <1>2 DEF InTurn, AllMiss, Missing
<1>5. Closes(calls') <=> Closes(calls)
  BY <1>2 DEF Closes
<1>6. \A k : Asks(calls', k) <=> Asks(calls, k)
  BY <1>2 DEF Asks
<1>7. Closes(calls') => Ending(publishers', made', conns')
  BY <1>1, <1>5 DEF InTurn
<1>8. ~Closes(calls') => Opened(publishers', made', conns', calls')
  <2>1. SUFFICES ASSUME ~Closes(calls') PROVE Opened(publishers, made, conns, calls')
    OBVIOUS
  <2>2. Opened(publishers, made, conns, calls)
    BY <1>1, <1>5, <2>1 DEF InTurn
  <2> QED
    BY <1>6, <2>2 DEF Opened
<1> QED
  BY <1>3, <1>4, <1>7, <1>8 DEF InTurn

(* When no call waits, nobody closes and nobody asks for a sequence.       *)
LEMMA Quiet ==
  ASSUME Serial, plan.serial, NEW op, MayStart(op)
  PROVE  /\ Opened(publishers, made, conns, calls) /\ \A k : ~Asks(calls, k)
         /\ \A d \in DOMAIN calls : calls[d].at \notin Awaiting
<1>1. \A d \in DOMAIN calls : calls[d].at \notin Awaiting
  BY DEF MayStart
<1>2. ~Closes(calls) /\ \A k : ~Asks(calls, k)
  BY <1>1 DEF Closes, Asks, Awaiting
<1> QED
  BY <1>1, <1>2 DEF Serial, InTurn

(* Publishers take the messages of the call that is the last.              *)
LEMMA HandsSerial ==
  ASSUME Good, NEW c, NEW call, NEW P, NEW pubs, NEW all, NEW x, Hands(c, call, P, pubs, all, x),
         Placed(pubs, all, conns), all \in Seq(Publisher),
         NEW cs, Opened(pubs, all, conns, cs), \A k : ~Asks(cs, k), Missing(x, pubs),
         \A d \in DOMAIN calls : d # c => calls[d].at \notin Awaiting, c = Len(calls')
  PROVE  Serial'
<1>1. /\ OneCall(c, x) /\ x.at \in {"declaring", "done"} /\ publishers' = pubs /\ c \in Nat \ {0}
      /\ Handing(c, x.op, P, pubs, all) /\ P \subseteq Partitions /\ \A p \in P : pubs[p] \in DOMAIN all
  BY SMTT(30) DEF Hands, Gets, OneCall
<1>2. \A d \in DOMAIN calls' : calls'[d] = x \/ calls'[d].at \notin Awaiting
  BY <1>1, ZenonT(30) DEF OneCall
<1>3. LastWaits(calls')
  <2>1. \A d \in DOMAIN calls' : d = c \/ calls'[d].at \notin Awaiting
    BY <1>1, ZenonT(30) DEF OneCall
  <2> QED
    BY <2>1, SMTT(30) DEF LastWaits
<1>4. AllMiss(calls', publishers')
  BY <1>1, <1>2 DEF AllMiss, Missing, Awaiting
<1>5. ~Closes(calls') /\ \A k : ~Asks(calls', k)
  BY <1>1, <1>2 DEF Closes, Asks, Awaiting
<1>6. /\ DOMAIN made' = DOMAIN all /\ DOMAIN conns' = DOMAIN conns
      /\ \A m \in DOMAIN all : /\ made'[m].part = all[m].part /\ made'[m].conn = all[m].conn
                               /\ made'[m].state = all[m].state
      /\ \A k \in DOMAIN conns : conns'[k].part = conns[k].part /\ (conns'[k].up <=> conns[k].up)
  BY <1>1 DEF Handing, SamePlace
<1>7. /\ \A p \in Partitions : pubs[p] # 0 => pubs[p] \in DOMAIN all /\ all[pubs[p]].conn \in DOMAIN conns
      /\ \A m \in DOMAIN all : all[m].conn \in DOMAIN conns
  BY DEF Placed
<1>8. \A p \in Partitions : pubs[p] # 0 => made'[pubs[p]].state = "open" /\ conns'[made'[pubs[p]].conn].up
  BY <1>6, <1>7 DEF Opened
<1>9. Gone(pubs, made', conns')
  <2> SUFFICES ASSUME NEW m \in DOMAIN all, \A p \in Partitions : pubs[p] # m
               PROVE  Over(made'[m], conns')
    BY <1>6 DEF Gone
  <2>1. Over(all[m], conns)
    BY DEF Opened, Gone
  <2>2. made'[m].queue = all[m].queue
    BY <1>1 DEF Handing
  <2> QED
    BY <1>6, <1>7, <2>1, <2>2 DEF Over
<1>10. ASSUME NEW k \in DOMAIN conns', conns'[k].up
       PROVE  Owns(pubs, made', k, conns'[k].part)
  <2>1. k \in DOMAIN conns /\ conns[k].up /\ conns'[k].part = conns[k].part
    BY <1>6, <1>10
  <2>2. Owns(pubs, all, k, conns[k].part)
    BY <2>1 DEF Opened
  <2>3. conns[k].part \in Partitions
    BY <2>1, Points, ConnectionFacts DEF Good, TypeOK
  <2> QED
    BY <1>6, <1>7, <2>1, <2>2, <2>3 DEF Owns
<1>11. ASSUME NEW k \in DOMAIN conns' PROVE ~Has(conns'[k].frames, 0)
  <2>1. k \in DOMAIN conns /\ ~Has(conns[k].frames, 0)
    BY <1>6, <1>11 DEF Opened
  <2>2. CASE conns'[k] = conns[k]
    BY <2>1, <2>2
  <2>3. ASSUME NEW p \in P, conns'[k].frames = Append(conns[k].frames, Frame(c, all[pubs[p]].id))
        PROVE  ~Has(conns'[k].frames, 0)
    <3>1. all[pubs[p]].id \in Nat
      BY <1>1, Points, PublisherFacts
    <3>2. PICK f : f = Frame(c, all[pubs[p]].id)
      OBVIOUS
    <3>3. f \in Frames /\ f.call = c
      BY <1>1, <3>1, <3>2, FrameFacts
    <3>4. conns[k].frames \in Seq(Frames)
      BY <2>1, Points, ConnectionFacts DEF Good, TypeOK
    <3> QED
      BY <1>1, <2>1, <2>3, <3>2, <3>3, <3>4, OneMore
  <2> QED
    BY <1>1, <2>1, <2>2, <2>3 DEF Handing
<1>12. Opened(pubs, made', conns', calls')
  BY <1>5, <1>8, <1>9, <1>10, <1>11 DEF Opened
<1> QED
  BY <1>1, <1>3, <1>4, <1>5, <1>12 DEF Serial, InTurn

LEMMA BeginsSerial ==
  ASSUME Good, Serial, NEW op, NEW keys, MayStart(op), Begins(op, keys), UNCHANGED <<chosen, binding, broker, used>>
  PROVE  Serial'
<1> SUFFICES ASSUME plan'.serial PROVE Serial'
  BY DEF Serial
<1> DEFINE c == Len(calls) + 1
<1>1. plan.serial /\ c \notin DOMAIN calls /\ made \in Seq(Publisher) /\ Placed(publishers, made, conns)
  BY CallsAre DEF chosen, Good, TypeOK, Base
<1>2. /\ Opened(publishers, made, conns, calls) /\ \A k : ~Asks(calls, k)
      /\ \A d \in DOMAIN calls : calls[d].at \notin Awaiting
  BY <1>1, Quiet
<1>3. PICK x \in Call :
         /\ x.at = "routing"
         /\ \/ Silent(c, x)
            \/ \E P \in SUBSET Partitions, y \in Call :
                 Hands(c, x, P, publishers, made, y) /\ Missing(y, publishers)
  BY DEF Begins
<1> HIDE DEF c
<1>4. CASE Silent(c, x)
  <2>1. OneCall(c, x) /\ publishers' = publishers /\ made' = made /\ conns' = conns
    BY <1>4 DEF Silent
  <2>2. /\ calls'[c] = x /\ c = Len(calls')
        /\ \A d \in DOMAIN calls' : d = c \/ (d \in DOMAIN calls /\ calls'[d] = calls[d])
    BY <1>1, <2>1 DEF OneCall
  <2>3. LastWaits(calls')
    BY <1>2, <2>2 DEF LastWaits
  <2>4. AllMiss(calls', publishers') /\ ~Closes(calls') /\ \A k : ~Asks(calls', k)
    BY <1>2, <1>3, <2>2 DEF AllMiss, Missing, Closes, Asks, Awaiting
  <2>5. Opened(publishers', made', conns', calls')
    BY <1>2, <2>1, <2>4 DEF Opened
  <2> QED
    BY <2>3, <2>4, <2>5 DEF Serial, InTurn
<1>5. ASSUME NEW P, NEW y \in Call, Hands(c, x, P, publishers, made, y), Missing(y, publishers)
      PROVE  Serial'
  <2>1. c = Len(calls')
    BY <1>1, <1>5 DEF Hands, OneCall
  <2> QED
    BY <1>1, <1>2, <1>5, <2>1, HandsSerial
<1> QED
  BY <1>3, <1>4, <1>5

LEMMA AnswersSerial ==
  ASSUME Good, Serial, NEW c \in DOMAIN calls, NEW k, Answers(c, k), UNCHANGED <<chosen, binding, broker, used>>
  PROVE  Serial'
<1> SUFFICES ASSUME plan'.serial PROVE Serial'
  BY DEF Serial
<1>1. /\ plan' = plan /\ plan.serial /\ calls[c] \in Call /\ made \in Seq(Publisher)
      /\ Placed(publishers, made, conns)
  BY CallsAre DEF chosen, Good, TypeOK, Base
<1>2. calls[c].at \in {"routing", "failed"}
  <2>1. 1 \in DOMAIN locator /\ locator[1].type = "route" /\ locator[1].call = c
    BY LocatorIs, Beheaded DEF Answers
  <2> QED
    BY <2>1, LocatorIs DEF Fits
<1>3. CASE Silent(c, Fails(calls[c]))
  <2>1. PICK x : x = Fails(calls[c])
    OBVIOUS
  <2>2. x.at = "failed"
    BY <1>1, <2>1, CallFails
  <2>3. OneCall(c, x) /\ UNCHANGED <<publishers, made, conns>>
    BY <1>3, <2>1 DEF Silent
  <2> QED
    BY <1>1, <1>2, <2>2, <2>3, SilentSerial
<1>4. ASSUME NEW q \in Seq(Partitions), Silent(c, Knows(calls[c], q)) PROVE Serial'
  <2>1. PICK x : x = Knows(calls[c], q)
    OBVIOUS
  <2>2. x.at = calls[c].at
    BY <1>1, <2>1, CallKnows
  <2>3. OneCall(c, x) /\ UNCHANGED <<publishers, made, conns>>
    BY <1>4, <2>1 DEF Silent
  <2> QED
    BY <1>1, <1>2, <2>2, <2>3, SilentSerial
<1>5. ASSUME calls[c].at = "routing", NEW x, NEW P, NEW y, Hands(c, x, P, publishers, made, y), Missing(y, publishers)
      PROVE  Serial'
  <2>1. InTurn(publishers, made, conns, calls)
    BY <1>1 DEF Serial
  <2>2. c = Len(calls) /\ \A d \in DOMAIN calls : d # c => calls[d].at \notin Awaiting
    BY <1>5, <2>1 DEF InTurn, LastWaits, Awaiting
  <2>3. ~Closes(calls) /\ \A j : ~Asks(calls, j)
    BY <1>5, <2>2 DEF Closes, Asks, Awaiting
  <2>4. Opened(publishers, made, conns, calls)
    BY <2>1, <2>3 DEF InTurn
  <2>5. c = Len(calls')
    BY <1>5, <2>2 DEF Hands, OneCall
  <2> QED
    BY <1>1, <1>5, <2>2, <2>3, <2>4, <2>5, HandsSerial
<1>6. binding[k] # 0 /\ k \in Keys => AddPartition(calls[c].parts, binding[k]) \in Seq(Partitions)
  <2>1. IsInjective(calls[c].parts) /\ calls[c].parts \in Seq(Partitions)
    BY <1>1, CallFacts DEF Good, Base, CallOk, Tidy
  <2>2. k \in Keys => binding[k] \in Partitions \cup {0}
    BY DEF Good, TypeOK
  <2> QED
    BY <2>1, <2>2, PartitionAdded
<1>7. k \in Keys
  <2>1. locator # <<>> /\ locator \in Seq(Query) /\ Head(locator).type = "route" /\ k = Head(locator).key
    BY LocatorIs DEF Answers
  <2> QED
    BY <2>1, Beheaded, QueryFacts
<1> QED
  BY <1>3, <1>4, <1>5, <1>6, <1>7 DEF Answers

LEMMA RefusesSerial ==
  ASSUME Good, Serial, NEW c \in DOMAIN calls, Refuses(c)
  PROVE  Serial'
<1>1. plan' = plan /\ calls[c] \in Call /\ calls[c].at = "declaring" /\ Silent(c, Fails(calls[c]))
  BY CallsAre DEF chosen, Good, TypeOK, Refuses
<1>2. PICK x : x = Fails(calls[c])
  OBVIOUS
<1>3. x.at = "failed"
  BY <1>1, <1>2, CallFails
<1>4. OneCall(c, x) /\ UNCHANGED <<publishers, made, conns>>
  BY <1>1, <1>2 DEF Silent
<1> QED
  BY <1>1, <1>3, <1>4, SilentSerial

LEMMA DeclaresSerial ==
  ASSUME Good, Serial, NEW c \in DOMAIN calls, NEW p \in Partitions, NEW k \in Nat, Declares(c, p, k),
         UNCHANGED <<chosen, binding, cache, broker, used>>
  PROVE  Serial'
<1> SUFFICES ASSUME plan'.serial PROVE InTurn(publishers', made', conns', calls')
  BY DEF Serial
<1>1. /\ plan.serial /\ calls[c] \in Call /\ calls[c].at = "declaring" /\ p = calls[c].todo[1]
      /\ publishers' = publishers /\ made' = made
      /\ k \in DOMAIN conns' /\ conns'[k].part = p /\ conns'[k].up
      /\ \A j \in DOMAIN conns : j \in DOMAIN conns' /\ conns'[j] = conns[j]
      /\ \A j \in DOMAIN conns' : j \in DOMAIN conns \/ (j = k /\ conns'[k].frames = <<>>)
  BY CallsAre DEF chosen, Good, TypeOK, Declares
<1>2. PICK y : y = Querying(calls[c], k)
  OBVIOUS
<1>3. y.at = "querying" /\ y.conn = k /\ y.todo = calls[c].todo /\ (y.ready <=> calls[c].ready)
  BY <1>1, <1>2, CallDeclares
<1>4. OneCall(c, y)
  BY <1>2 DEF Declares
<1>5. /\ DOMAIN calls' = DOMAIN calls /\ Len(calls') = Len(calls) /\ calls'[c] = y
      /\ \A d \in DOMAIN calls : d # c => calls'[d] = calls[d]
  BY <1>4 DEF OneCall
<1>6. InTurn(publishers, made, conns, calls)
  BY <1>1 DEF Serial
<1>7. c = Len(calls) /\ \A d \in DOMAIN calls : d # c => calls[d].at \notin Awaiting
  BY <1>1, <1>6 DEF InTurn, LastWaits, Awaiting
<1>8. ~Closes(calls) /\ (\A j : ~Asks(calls, j)) /\ ~Closes(calls') /\ \A j : Asks(calls', j) <=> j = k
  BY <1>1, <1>3, <1>5, <1>7 DEF Closes, Asks, Awaiting
<1>9. Opened(publishers, made, conns, calls)
  BY <1>6, <1>8 DEF InTurn
<1>10. publishers[p] = 0
  BY <1>1, <1>6 DEF InTurn, AllMiss, Missing
<1>11. k \notin DOMAIN conns
  <2> SUFFICES ASSUME k \in DOMAIN conns PROVE FALSE
    OBVIOUS
  <2>1. conns[k].part = p /\ conns[k].up
    BY <1>1
  <2> QED
    BY <1>8, <1>9, <1>10, <2>1 DEF Opened, Owns
<1>12. LastWaits(calls')
  BY <1>5, <1>7 DEF LastWaits
<1>13. AllMiss(calls', publishers')
  <2>1. Missing(calls[c], publishers)
    BY <1>6 DEF InTurn, AllMiss
  <2>2. Missing(y, publishers)
    BY <1>1, <1>3, <2>1 DEF Missing
  <2>3. \A d \in DOMAIN calls : d # c => Missing(calls[d], publishers)
    BY <1>6 DEF InTurn, AllMiss
  <2> QED
    BY <1>1, <1>5, <2>2, <2>3 DEF AllMiss
<1>14. \A m \in DOMAIN made : made[m].conn \in DOMAIN conns
  BY DEF Good, Base, Placed
<1>15. \A q \in Partitions : publishers[q] # 0 => publishers[q] \in DOMAIN made
  BY DEF Good, Base, Placed
<1>16. \A q \in Partitions : publishers[q] # 0 => made[publishers[q]].state = "open" /\ conns'[made[publishers[q]].conn].up
  BY <1>1, <1>9, <1>14, <1>15 DEF Opened
<1>17. Gone(publishers, made, conns')
  BY <1>1, <1>9, <1>14 DEF Opened, Gone, Over
<1>18. ASSUME NEW j \in DOMAIN conns', conns'[j].up
       PROVE  Owns(publishers, made, j, conns'[j].part)
              \/ (publishers[conns'[j].part] = 0 /\ conns'[j].frames = <<>> /\ Asks(calls', j))
  <2>1. CASE j \in DOMAIN conns
    <3>1. conns'[j] = conns[j]
      BY <1>1, <2>1
    <3> QED
      BY <1>8, <1>9, <1>18, <2>1, <3>1 DEF Opened
  <2>2. CASE j \notin DOMAIN conns
    <3>1. j = k /\ conns'[k].frames = <<>>
      BY <1>1, <2>2
    <3> QED
      BY <1>1, <1>8, <1>10, <3>1
  <2> QED
    BY <2>1, <2>2
<1>19. ASSUME NEW j \in DOMAIN conns' PROVE ~Has(conns'[j].frames, 0)
  BY <1>1, <1>9, NoFrames DEF Opened
<1>20. Opened(publishers', made', conns', calls')
  BY <1>1, <1>8, <1>16, <1>17, <1>18, <1>19 DEF Opened
<1> QED
  BY <1>8, <1>12, <1>13, <1>20 DEF InTurn

LEMMA ConstructsSerial ==
  ASSUME Good, Serial, NEW c \in DOMAIN calls, NEW p \in Partitions, Constructs(c, p),
         UNCHANGED <<chosen, binding, cache, broker, used>>
  PROVE  Serial'
<1> SUFFICES ASSUME plan'.serial PROVE Serial'
  BY DEF Serial
<1> DEFINE m == Len(made) + 1
           pubs == [publishers EXCEPT ![p] = m]
<1>1. PICK new \in Publisher, P \in SUBSET Partitions, y \in Call :
           /\ new.part = p /\ new.conn = calls[c].conn /\ new.queue = <<>> /\ new.state = "open"
           /\ Hands(c, calls[c], P, pubs, Append(made, new), y)
           /\ Missing(calls[c], publishers) => Missing(y, pubs)
  BY DEF Constructs
<1>2. calls[c].at = "querying" /\ calls[c].todo[1] = p
  BY DEF Constructs
<1> DEFINE all == Append(made, new)
<1>3. PICK n, a, b : n = m /\ a = all /\ b = pubs
  OBVIOUS
<1>4. Hands(c, calls[c], P, b, a, y) /\ (Missing(calls[c], publishers) => Missing(y, b))
  BY <1>1, <1>3
<1>5. n = Len(made) + 1 /\ a = Append(made, new) /\ b = [publishers EXCEPT ![p] = n]
  BY <1>3
<1> HIDE DEF m, all, pubs
<1>6. Entered(p, new, n, a, b)
  <2>1. Enters(c, p, new, n, a, b)
    BY <1>1, <1>2, <1>5 DEF Enters
  <2> QED
    BY <2>1, EnteredIs
<1>7. /\ a \in Seq(Publisher) /\ DOMAIN a = DOMAIN made \cup {n} /\ n # 0 /\ n \notin DOMAIN made
      /\ a[n] = new /\ \A x \in DOMAIN made : a[x] = made[x]
      /\ b[p] = n /\ \A q \in Partitions : q # p => b[q] = publishers[q]
      /\ new.conn \in DOMAIN conns /\ conns[new.conn].part = p
      /\ Placed(b, a, conns)
  BY <1>6 DEF Entered
<1>8. InTurn(publishers, made, conns, calls)
  BY DEF Serial, chosen
<1>9. c = Len(calls) /\ \A d \in DOMAIN calls : d # c => calls[d].at \notin Awaiting
  BY <1>2, <1>8 DEF InTurn, LastWaits, Awaiting
<1>10. ~Closes(calls) /\ Asks(calls, new.conn) /\ \A k : Asks(calls, k) => k = new.conn
  BY <1>1, <1>2, <1>9 DEF Closes, Asks, Awaiting
<1>11. Opened(publishers, made, conns, calls)
  BY <1>8, <1>10 DEF InTurn
<1>12. Missing(calls[c], publishers) /\ publishers[p] = 0
  BY <1>2, <1>8 DEF InTurn, AllMiss, Missing
<1>13. \A q \in Partitions : publishers[q] # 0 => publishers[q] \in DOMAIN made
  BY DEF Good, Base, Placed
<1>14. ASSUME NEW q \in Partitions, b[q] # 0 PROVE a[b[q]].state = "open" /\ conns[a[b[q]].conn].up
  <2>1. CASE q = p
    BY <1>1, <1>7, <1>10, <1>11, <2>1 DEF Opened
  <2>2. CASE q # p
    BY <1>7, <1>11, <1>13, <1>14, <2>2 DEF Opened
  <2> QED
    BY <2>1, <2>2
<1>15. Gone(b, a, conns)
  <2> SUFFICES ASSUME NEW x \in DOMAIN a, \A q \in Partitions : b[q] # x PROVE Over(a[x], conns)
    BY DEF Gone
  <2>1. x \in DOMAIN made /\ a[x] = made[x] /\ x # 0
    BY <1>7, Points DEF Good, TypeOK
  <2>2. \A q \in Partitions : publishers[q] # x
    BY <1>7, <1>12, <2>1
  <2> QED
    BY <1>11, <2>1, <2>2 DEF Opened, Gone
<1>16. ASSUME NEW k \in DOMAIN conns, conns[k].up PROVE Owns(b, a, k, conns[k].part)
  <2>1. conns[k].part \in Partitions
    BY Points, ConnectionFacts DEF Good, TypeOK
  <2>2. CASE Owns(publishers, made, k, conns[k].part)
    <3>1. conns[k].part # p
      BY <1>12, <2>2 DEF Owns
    <3> QED
      BY <1>7, <1>13, <2>1, <2>2, <3>1 DEF Owns
  <2>3. CASE Asks(calls, k)
    <3>1. k = new.conn
      BY <1>10, <2>3
    <3> QED
      BY <1>7, <3>1 DEF Owns
  <2> QED
    BY <1>11, <1>16, <2>2, <2>3 DEF Opened
<1>17. PICK cs : cs = <<>>
  OBVIOUS
<1>18. \A k : ~Asks(cs, k)
  BY <1>17 DEF Asks
<1>19. Opened(b, a, conns, cs)
  BY <1>11, <1>14, <1>15, <1>16, <1>18 DEF Opened
<1>20. c = Len(calls')
  BY <1>4, <1>9 DEF Hands, OneCall
<1> QED
  BY <1>4, <1>7, <1>9, <1>12, <1>18, <1>19, <1>20, HandsSerial

LEMMA FlushesSerial ==
  ASSUME Good, OnceOnly, Serial, NEW m \in DOMAIN made, Flushes(m)
  PROVE  Serial'
<1> SUFFICES ASSUME plan'.serial PROVE InTurn(publishers', made', conns', calls')
  BY DEF Serial
<1> DEFINE k == made[m].conn
<1>1. /\ plan.serial /\ k \in DOMAIN conns /\ conns[k].up /\ made[m].queue # <<>>
      /\ DOMAIN made' = DOMAIN made /\ DOMAIN conns' = DOMAIN conns
      /\ made'[m].state = made[m].state /\ made'[m].conn = k /\ made'[m].queue = <<>>
      /\ \A x \in DOMAIN made : x # m => made'[x] = made[x]
      /\ conns'[k].part = conns[k].part /\ conns'[k].up /\ conns'[k].frames = conns[k].frames \o made[m].queue
      /\ \A j \in DOMAIN conns : j # k => conns'[j] = conns[j]
      /\ publishers' = publishers /\ calls' = calls
  BY DEF Flushes, chosen, SamePlace
<1>2. InTurn(publishers, made, conns, calls)
  BY <1>1 DEF Serial
<1>3. publishers[made[m].part] = m /\ Owns(publishers, made, k, made[m].part) /\ conns[k].part = made[m].part
  BY <1>1, <1>2, OneUser DEF Good, Base, Placed
<1>4. made[m].part \in Partitions /\ made[m].queue \in Seq(Frames) /\ conns[k].frames \in Seq(Frames) /\ m # 0
  BY <1>1, Points, PublisherFacts, ConnectionFacts DEF Good, TypeOK
<1> HIDE DEF k
<1>5. ~Closes(calls)
  BY <1>1, <1>2, <1>3, <1>4 DEF InTurn, Ending
<1>6. Opened(publishers, made, conns, calls)
  BY <1>2, <1>5 DEF InTurn
<1>7. /\ \A x \in DOMAIN made : /\ made[x].conn \in DOMAIN conns
                                /\ made'[x].conn = made[x].conn /\ made'[x].state = made[x].state
      /\ \A p \in Partitions : publishers[p] # 0 => publishers[p] \in DOMAIN made
      /\ \A j \in DOMAIN conns : conns'[j].part = conns[j].part /\ (conns'[j].up <=> conns[j].up)
  BY <1>1 DEF Good, Base, Placed, k
<1>8. \A p \in Partitions : publishers[p] # 0 => made'[publishers[p]].state = "open" /\ conns'[made'[publishers[p]].conn].up
  BY <1>6, <1>7 DEF Opened
<1>9. Gone(publishers, made', conns')
  BY <1>1, <1>3, <1>4, <1>6, <1>7 DEF Opened, Gone, Over
<1>10. ASSUME NEW j \in DOMAIN conns', conns'[j].up
       PROVE  Owns(publishers, made', j, conns'[j].part)
              \/ (publishers[conns'[j].part] = 0 /\ conns'[j].frames = <<>> /\ Asks(calls, j))
  <2>0. j \in DOMAIN conns /\ conns[j].up /\ conns'[j].part = conns[j].part /\ conns[j].part \in Partitions
    BY <1>1, <1>7, <1>10, Points, ConnectionFacts DEF Good, TypeOK
  <2>1. CASE Owns(publishers, made, j, conns[j].part)
    BY <1>7, <2>0, <2>1 DEF Owns
  <2>2. CASE publishers[conns[j].part] = 0 /\ conns[j].frames = <<>> /\ Asks(calls, j)
    <3>1. j # k
      BY <1>3, <1>4, <2>2
    <3> QED
      BY <1>1, <2>0, <2>2, <3>1
  <2> QED
    BY <1>6, <2>0, <2>1, <2>2 DEF Opened
<1>11. ASSUME NEW j \in DOMAIN conns' PROVE ~Has(conns'[j].frames, 0)
  <2>1. ~Has(conns[k].frames, 0) /\ ~Has(made[m].queue, 0) /\ \A i \in DOMAIN conns : ~Has(conns[i].frames, 0)
    BY <1>1, <1>6 DEF Opened, OnceOnly, OnceIn
  <2>2. ~Has(conns'[k].frames, 0)
    BY <1>1, <1>4, <2>1, AllMore
  <2> QED
    BY <1>1, <2>1, <2>2
<1>12. Opened(publishers', made', conns', calls')
  <2>1. \A j : Asks(calls, j) => j \in DOMAIN conns' /\ conns'[j].up
    BY <1>1, <1>6, <1>7 DEF Opened
  <2> QED
    BY <1>1, <1>8, <1>9, <1>10, <1>11, <2>1 DEF Opened
<1> QED
  BY <1>1, <1>2, <1>5, <1>12 DEF InTurn

LEMMA StoresSerial ==
  ASSUME Good, Serial, NEW k \in DOMAIN conns, Stores(k)
  PROVE  Serial'
<1> SUFFICES ASSUME plan'.serial PROVE InTurn(publishers', made', conns', calls')
  BY DEF Serial
<1>1. /\ plan.serial /\ conns[k].up /\ conns[k].frames # <<>> /\ Head(conns[k].frames).call # 0
      /\ DOMAIN conns' = DOMAIN conns
      /\ conns'[k].part = conns[k].part /\ (conns'[k].up <=> conns[k].up) /\ conns'[k].frames = Tail(conns[k].frames)
      /\ \A j \in DOMAIN conns : j # k => conns'[j] = conns[j]
      /\ publishers' = publishers /\ made' = made /\ calls' = calls
  BY DEF Stores, chosen
<1>2. InTurn(publishers, made, conns, calls)
  BY <1>1 DEF Serial
<1>3. conns[k].frames \in Seq(Frames)
  BY Points, ConnectionFacts DEF Good, TypeOK
<1>4. /\ \A x \in DOMAIN made : made[x].conn \in DOMAIN conns
      /\ \A p \in Partitions : publishers[p] # 0 => publishers[p] \in DOMAIN made
      /\ \A j \in DOMAIN conns : conns'[j].part = conns[j].part /\ (conns'[j].up <=> conns[j].up)
  BY <1>1 DEF Good, Base, Placed
<1>5. CASE ~Closes(calls)
  <2>1. Opened(publishers, made, conns, calls)
    BY <1>2, <1>5 DEF InTurn
  <2>2. \A p \in Partitions : publishers[p] # 0 => made[publishers[p]].state = "open" /\ conns'[made[publishers[p]].conn].up
    BY <1>4, <2>1 DEF Opened
  <2>3. Gone(publishers, made, conns')
    BY <1>4, <2>1 DEF Opened, Gone, Over
  <2>4. ASSUME NEW j \in DOMAIN conns', conns'[j].up
        PROVE  Owns(publishers, made, j, conns'[j].part)
               \/ (publishers[conns'[j].part] = 0 /\ conns'[j].frames = <<>> /\ Asks(calls, j))
    <3>1. CASE j = k
      BY <1>1, <2>1, <3>1 DEF Opened
    <3>2. CASE j # k
      BY <1>1, <2>1, <2>4, <3>2 DEF Opened
    <3> QED
      BY <3>1, <3>2
  <2>5. \A j \in DOMAIN conns' : ~Has(conns'[j].frames, 0)
    <3>1. \A j \in DOMAIN conns : ~Has(conns[j].frames, 0)
      BY <2>1 DEF Opened
    <3>2. ~Has(conns'[k].frames, 0)
      BY <1>1, <1>3, <3>1, OneLess
    <3> QED
      BY <1>1, <3>1, <3>2
  <2>6. \A j : Asks(calls, j) => j \in DOMAIN conns' /\ conns'[j].up
    BY <1>1, <1>4, <2>1 DEF Opened
  <2>7. Opened(publishers', made', conns', calls')
    BY <1>1, <2>2, <2>3, <2>4, <2>5, <2>6 DEF Opened
  <2> QED
    BY <1>1, <1>2, <1>5, <2>7 DEF InTurn
<1>6. CASE Closes(calls)
  <2>1. Ending(publishers, made, conns)
    BY <1>2, <1>6 DEF InTurn
  <2>2. \A p \in Partitions : publishers[p] # 0 =>
           /\ made[publishers[p]].queue = <<>>
           /\ made[publishers[p]].state = IF conns'[made[publishers[p]].conn].up THEN "closing" ELSE "closed"
    BY <1>4, <2>1 DEF Ending
  <2>3. Gone(publishers, made, conns')
    BY <1>4, <2>1 DEF Ending, Gone, Over
  <2>4. \A j \in DOMAIN conns' : conns'[j].up => Owns(publishers, made, j, conns'[j].part)
    BY <1>1, <1>4, <2>1 DEF Ending
  <2>5. ASSUME NEW j \in DOMAIN conns', NEW i \in DOMAIN conns'[j].frames, conns'[j].frames[i].call = 0
        PROVE  i = Len(conns'[j].frames) /\ conns'[j].frames[i].id = publishers[conns'[j].part]
    <3>1. CASE j # k
      BY <1>1, <2>1, <2>5, <3>1 DEF Ending
    <3>2. CASE j = k
      <4>1. PICK s : s = conns[k].frames
        OBVIOUS
      <4>2. PICK t : t = conns'[k].frames /\ t = Tail(s)
        BY <1>1, <4>1
      <4>3. s \in Seq(Frames) /\ s # <<>>
        BY <1>1, <1>3, <4>1
      <4>4. /\ Len(s) \in Nat /\ Len(t) = Len(s) - 1 /\ DOMAIN t = 1 .. Len(s) - 1
            /\ \A h \in DOMAIN t : h + 1 \in DOMAIN s /\ t[h] = s[h + 1]
        BY <4>2, <4>3, Beheaded
      <4>5. i \in DOMAIN t /\ t[i].call = 0
        BY <2>5, <3>2, <4>2
      <4>6. i + 1 \in DOMAIN s /\ t[i] = s[i + 1] /\ i \in Nat
        BY <4>4, <4>5
      <4>7. i + 1 = Len(s) /\ s[i + 1].id = publishers[conns[k].part]
        BY <2>1, <4>1, <4>5, <4>6 DEF Ending
      <4>8. i = Len(t)
        BY <4>4, <4>6, <4>7
      <4> QED
        BY <1>1, <3>2, <4>2, <4>6, <4>7, <4>8, ZenonT(30)
    <3> QED
      BY <3>1, <3>2
  <2>6. Ending(publishers', made', conns')
    BY <1>1, <2>2, <2>3, <2>4, <2>5 DEF Ending
  <2> QED
    BY <1>1, <1>2, <1>6, <2>6 DEF InTurn
<1> QED
  BY <1>5, <1>6

LEMMA FinishesSerial ==
  ASSUME Good, Good', Serial, NEW k \in DOMAIN conns, Finishes(k)
  PROVE  Serial'
<1> SUFFICES ASSUME plan'.serial PROVE InTurn(publishers', made', conns', calls')
  BY DEF Serial
<1> DEFINE f == Head(conns[k].frames)
           over == \A m \in DOMAIN made' : made'[m].state # "closing"
<1>1. /\ plan.serial /\ conns[k].up /\ conns[k].frames # <<>> /\ f.call = 0
      /\ DOMAIN conns' = DOMAIN conns /\ ~conns'[k].up /\ conns'[k].frames = <<>> /\ conns'[k].part = conns[k].part
      /\ \A j \in DOMAIN conns : j # k => conns'[j] = conns[j]
      /\ DOMAIN made' = DOMAIN made
      /\ \A m \in DOMAIN made : /\ made'[m].part = made[m].part /\ made'[m].conn = made[m].conn
                                /\ made'[m].queue = made[m].queue
                                /\ made'[m].state = IF m = f.id THEN "closed" ELSE made[m].state
      /\ DOMAIN calls' = DOMAIN calls /\ Len(calls') = Len(calls)
      /\ \A c \in DOMAIN calls :
           \/ calls'[c] = calls[c] /\ ~(over /\ calls[c].at = "closing")
           \/ over /\ calls[c].at = "closing" /\ calls'[c].at = "done"
      /\ publishers' = IF over THEN ClosedMap ELSE publishers
  BY DEF Finishes, chosen
<1>2. InTurn(publishers, made, conns, calls)
  BY <1>1 DEF Serial
<1>3. 1 \in DOMAIN conns[k].frames /\ conns[k].frames[1] = f /\ conns[k].part \in Partitions
  <2>1. conns[k].part \in Partitions /\ conns[k].frames \in Seq(Frames)
    BY Points, ConnectionFacts DEF Good, TypeOK
  <2> QED
    BY <1>1, <2>1, Beheaded
<1> HIDE DEF f
<1>4. Closes(calls)
  <2>1. Has(conns[k].frames, 0)
    BY <1>1, <1>3 DEF Has
  <2> QED
    BY <1>2, <2>1 DEF InTurn, Opened
<1>5. Ending(publishers, made, conns)
  BY <1>2, <1>4 DEF InTurn
<1>6. f.id = publishers[conns[k].part] /\ Owns(publishers, made, k, conns[k].part)
  BY <1>1, <1>3, <1>5 DEF Ending
<1>7. /\ f.id \in DOMAIN made /\ made[f.id].conn = k
      /\ \A m \in DOMAIN made : made[m].conn \in DOMAIN conns /\ conns[made[m].conn].part = made[m].part
      /\ \A p \in Partitions : publishers[p] # 0 => publishers[p] \in DOMAIN made /\ made[publishers[p]].part = p
  BY <1>3, <1>6 DEF Owns, Good, Base, Placed
<1>8. \A d \in DOMAIN calls : calls[d].at \in {"declaring", "querying", "routing"} => FALSE
  BY <1>2, <1>4 DEF InTurn, LastWaits, Closes, Awaiting
<1>9. LastWaits(calls')
  BY <1>1, <1>2 DEF InTurn, LastWaits, Awaiting
<1>10. AllMiss(calls', publishers')
  BY <1>1, <1>8 DEF AllMiss, Missing
<1>11. \A p \in Partitions : publishers[p] # 0 =>
         /\ made'[publishers[p]].queue = <<>>
         /\ made'[publishers[p]].state = IF conns'[made'[publishers[p]].conn].up THEN "closing" ELSE "closed"
  <2> SUFFICES ASSUME NEW p \in Partitions, publishers[p] # 0
               PROVE  /\ made'[publishers[p]].queue = <<>>
                      /\ made'[publishers[p]].state = IF conns'[made'[publishers[p]].conn].up THEN "closing" ELSE "closed"
    OBVIOUS
  <2>1. PICK m \in DOMAIN made : m = publishers[p]
    BY <1>7
  <2>2. made[m].queue = <<>> /\ made[m].state = IF conns[made[m].conn].up THEN "closing" ELSE "closed"
    BY <1>5, <2>1 DEF Ending
  <2>3. CASE m = f.id
    BY <1>1, <1>7, <2>1, <2>2, <2>3
  <2>4. CASE m # f.id
    <3>1. made[m].conn # k
      BY <1>6, <1>7, <2>1, <2>4
    <3> QED
      BY <1>1, <1>7, <2>1, <2>2, <2>4, <3>1
  <2> QED
    BY <2>3, <2>4
<1>12. ASSUME NEW m \in DOMAIN made, \A p \in Partitions : publishers[p] # m PROVE Over(made'[m], conns')
  <2>1. Over(made[m], conns)
    BY <1>5, <1>12 DEF Ending, Gone
  <2>2. ~conns'[made[m].conn].up
    BY <1>1, <1>7, <2>1 DEF Over
  <2> QED
    BY <1>1, <2>1, <2>2 DEF Over
<1>13. ASSUME NEW j \in DOMAIN conns', conns'[j].up
       PROVE  Owns(publishers, made', j, conns'[j].part) /\ conns'[j].part \in Partitions
  <2>1. j # k /\ conns'[j] = conns[j] /\ j \in DOMAIN conns /\ conns[j].part \in Partitions
    BY <1>1, <1>13, Points, ConnectionFacts DEF Good, TypeOK
  <2>2. Owns(publishers, made, j, conns[j].part)
    BY <1>5, <1>13, <2>1 DEF Ending
  <2> QED
    BY <1>1, <1>7, <2>1, <2>2 DEF Owns
<1>14. CASE over
  <2>1. ~Closes(calls') /\ \A j : ~Asks(calls', j)
    BY <1>1, <1>8, <1>14 DEF Closes, Asks
  <2>2. ASSUME NEW p \in Partitions, publishers[p] # 0 PROVE Over(made'[publishers[p]], conns')
    <3>1. made'[publishers[p]].state # "closing"
      BY <1>1, <1>7, <1>14, <2>2
    <3> QED
      BY <1>11, <2>2, <3>1 DEF Over
  <2>3. publishers' = ClosedMap /\ \A p \in Partitions : ClosedMap[p] = 0
    BY <1>1, <1>14 DEF ClosedMap
  <2>4. Gone(publishers', made', conns')
    <3> SUFFICES ASSUME NEW m \in DOMAIN made PROVE Over(made'[m], conns')
      BY <1>1 DEF Gone
    <3>1. m # 0
      BY Points DEF Good, TypeOK
    <3> QED
      BY <1>12, <2>2, <3>1
  <2>5. ASSUME NEW j \in DOMAIN conns', conns'[j].up PROVE FALSE
    <3>1. Owns(publishers, made', j, conns'[j].part) /\ conns'[j].part \in Partitions
      BY <1>13, <2>5
    <3> QED
      BY <2>2, <2>5, <3>1 DEF Owns, Over
  <2>6. \A j \in DOMAIN conns' : ~Has(conns'[j].frames, 0)
    <3>1. \A j \in DOMAIN conns' : ~conns'[j].up => conns'[j].frames = <<>>
      BY DEF Good, Base, Placed
    <3> QED
      BY <2>5, <3>1, NoFrames
  <2>7. Opened(publishers', made', conns', calls')
    BY <2>1, <2>3, <2>4, <2>5, <2>6 DEF Opened
  <2> QED
    BY <1>9, <1>10, <2>1, <2>7 DEF InTurn
<1>15. CASE ~over
  <2>1. publishers' = publishers
    BY <1>1, <1>15
  <2>2. Closes(calls')
    BY <1>1, <1>4, <1>15 DEF Closes
  <2>3. Gone(publishers, made', conns')
    BY <1>1, <1>12 DEF Gone
  <2>4. ASSUME NEW j \in DOMAIN conns', NEW i \in DOMAIN conns'[j].frames, conns'[j].frames[i].call = 0
        PROVE  i = Len(conns'[j].frames) /\ conns'[j].frames[i].id = publishers[conns'[j].part]
    <3>1. DOMAIN <<>> = {}
      OBVIOUS
    <3>2. j # k
      BY <1>1, <2>4, <3>1
    <3> QED
      BY <1>1, <1>5, <2>4, <3>2 DEF Ending
  <2>5. Ending(publishers', made', conns')
    BY <1>11, <1>13, <2>1, <2>3, <2>4 DEF Ending
  <2> QED
    BY <1>9, <1>10, <2>2, <2>5 DEF InTurn
<1> QED
  BY <1>14, <1>15

LEMMA ClosersWait ==
  ASSUME Good, InTurn(publishers, made, conns, calls), Opened(publishers, made, conns, calls)
  PROVE  /\ \A p \in Partitions : publishers[p] # 0 => publishers[p] \in Open
         /\ \A m \in Open : /\ m \in DOMAIN made /\ conns[made[m].conn].up /\ Waits(m)
                            /\ publishers[made[m].part] = m /\ made[m].part \in Partitions
<1>1. ASSUME NEW p \in Partitions, publishers[p] # 0 PROVE publishers[p] \in Open
  BY <1>1 DEF Open, InMap, Opened
<1>2. ASSUME NEW m \in Open
      PROVE  /\ m \in DOMAIN made /\ conns[made[m].conn].up /\ Waits(m)
             /\ publishers[made[m].part] = m /\ made[m].part \in Partitions
  <2>1. PICK p \in Partitions : publishers[p] = m /\ m # 0
    BY DEF Open, InMap
  <2>2. m \in DOMAIN made /\ made[m].part = p /\ conns[made[m].conn].up
    BY <2>1 DEF Good, Base, Placed, Opened
  <2>3. ASSUME NEW x \in DOMAIN made, made[x].conn = made[m].conn PROVE x = m
    <3>1. made[x].part = made[m].part
      BY <2>2, <2>3 DEF Good, Base, Placed
    <3>2. publishers[made[x].part] = x
      BY <2>2, <2>3, OneUser
    <3> QED
      BY <2>1, <2>2, <3>1, <3>2
  <2>4. Waits(m)
    BY <2>2, <2>3 DEF Waits
  <2> QED
    BY <2>1, <2>2, <2>4
<1> QED
  BY <1>1, <1>2

LEMMA ShutsSerial ==
  ASSUME Good, OnceOnly, Serial, Shuts
  PROVE  Serial'
<1> SUFFICES ASSUME plan'.serial PROVE InTurn(publishers', made', conns', calls')
  BY DEF Serial
<1> DEFINE c == Len(calls) + 1
<1>1. MayStart("close") /\ plan.serial /\ InTurn(publishers, made, conns, calls)
  BY DEF Shuts, chosen, Serial
<1>2. /\ Opened(publishers, made, conns, calls) /\ \A k : ~Asks(calls, k)
      /\ \A d \in DOMAIN calls : calls[d].at \notin Awaiting
  BY <1>1, Quiet
<1>3. PICK x \in Call :
       /\ OneCall(c, x) /\ c \notin DOMAIN calls
       /\ \/ x.at = "closing" /\ UNCHANGED publishers
          \/ x.at = "done" /\ (\A m \in Open : ~Waits(m)) /\ publishers' = ClosedMap
  BY DEF Shuts
<1> HIDE DEF c
<1>4. /\ calls'[c] = x /\ c = Len(calls') /\ c \in DOMAIN calls'
      /\ \A d \in DOMAIN calls' : d = c \/ (d \in DOMAIN calls /\ calls'[d] = calls[d])
  BY <1>3 DEF OneCall
<1>5. LastWaits(calls')
  BY <1>2, <1>4 DEF LastWaits
<1>6. AllMiss(calls', publishers')
  BY <1>2, <1>3, <1>4 DEF AllMiss, Missing, Awaiting
<1>7. (Closes(calls') <=> x.at = "closing") /\ \A k : ~Asks(calls', k)
  BY <1>2, <1>3, <1>4 DEF Closes, Asks, Awaiting
<1>8. /\ DOMAIN made' = DOMAIN made /\ DOMAIN conns' = DOMAIN conns
      /\ \A m \in DOMAIN made :
           /\ made'[m].part = made[m].part /\ made'[m].conn = made[m].conn
           /\ made'[m].queue = IF m \in Open /\ conns[made[m].conn].up THEN <<>> ELSE made[m].queue
           /\ made'[m].state = IF m \notin Open THEN made[m].state ELSE IF Waits(m) THEN "closing" ELSE "closed"
      /\ \A k \in DOMAIN conns :
           /\ conns'[k].part = conns[k].part /\ (conns'[k].up <=> conns[k].up)
           /\ \/ conns'[k] = conns[k]
              \/ \E m \in Open : /\ made[m].conn = k /\ conns[k].up
                                 /\ conns'[k].frames = conns[k].frames \o made[m].queue \o Goodbye(m)
  BY DEF Shuts
<1>9. /\ \A p \in Partitions : publishers[p] # 0 => publishers[p] \in Open
      /\ \A m \in Open : /\ m \in DOMAIN made /\ conns[made[m].conn].up /\ Waits(m)
                         /\ publishers[made[m].part] = m /\ made[m].part \in Partitions
  BY <1>1, <1>2, ClosersWait
<1>10. \A m \in DOMAIN made : made[m].conn \in DOMAIN conns
  BY DEF Good, Base, Placed
<1>11. ASSUME NEW m \in DOMAIN made, \A p \in Partitions : publishers[p] # m PROVE Over(made'[m], conns')
  <2>1. Over(made[m], conns) /\ m \notin Open
    BY <1>2, <1>9, <1>11 DEF Opened, Gone
  <2> QED
    BY <1>8, <1>10, <2>1 DEF Over
<1>12. CASE x.at = "done"
  <2>1. Open = {}
    BY <1>3, <1>9, <1>12
  <2>2. publishers' = ClosedMap /\ (\A p \in Partitions : publishers[p] = 0) /\ \A p \in Partitions : ClosedMap[p] = 0
    BY <1>3, <1>9, <1>12, <2>1 DEF ClosedMap
  <2>3. \A m \in DOMAIN made : m # 0
    BY Points DEF Good, TypeOK
  <2>4. Gone(publishers', made', conns')
    BY <1>8, <1>11, <2>2, <2>3 DEF Gone
  <2>5. \A k \in DOMAIN conns' : ~conns'[k].up /\ ~Has(conns'[k].frames, 0)
    <3> SUFFICES ASSUME NEW k \in DOMAIN conns PROVE ~conns'[k].up /\ ~Has(conns'[k].frames, 0)
      BY <1>8
    <3>1. conns'[k] = conns[k] /\ conns[k].part \in Partitions
      BY <1>8, <2>1, Points, ConnectionFacts DEF Good, TypeOK
    <3> QED
      BY <1>2, <2>2, <3>1 DEF Opened, Owns
  <2>6. Opened(publishers', made', conns', calls')
    BY <1>7, <2>2, <2>4, <2>5 DEF Opened
  <2> QED
    BY <1>5, <1>6, <1>7, <1>12, <2>6 DEF InTurn
<1>13. CASE x.at = "closing"
  <2>1. publishers' = publishers
    BY <1>3, <1>13
  <2>2. ASSUME NEW p \in Partitions, publishers[p] # 0
        PROVE  /\ made'[publishers[p]].queue = <<>>
               /\ made'[publishers[p]].state = IF conns'[made'[publishers[p]].conn].up THEN "closing" ELSE "closed"
    <3>1. PICK m \in Open : m = publishers[p]
      BY <1>9, <2>2
    <3>2. m \in DOMAIN made /\ conns[made[m].conn].up /\ Waits(m)
      BY <1>9
    <3>3. made'[m].queue = <<>> /\ made'[m].state = "closing" /\ conns'[made'[m].conn].up
      BY <1>8, <1>10, <3>2
    <3> QED
      BY <3>1, <3>3
  <2>3. Gone(publishers, made', conns')
    BY <1>8, <1>11 DEF Gone
  <2>4. ASSUME NEW k \in DOMAIN conns', conns'[k].up PROVE Owns(publishers, made', k, conns'[k].part)
    <3>1. k \in DOMAIN conns /\ conns[k].up /\ conns[k].part \in Partitions /\ conns'[k].part = conns[k].part
      BY <1>8, <2>4, Points, ConnectionFacts DEF Good, TypeOK
    <3>2. Owns(publishers, made, k, conns[k].part)
      BY <1>2, <3>1 DEF Opened
    <3> QED
      BY <1>8, <1>9, <3>1, <3>2 DEF Owns
  <2>5. ASSUME NEW k \in DOMAIN conns', NEW i \in DOMAIN conns'[k].frames, conns'[k].frames[i].call = 0
        PROVE  i = Len(conns'[k].frames) /\ conns'[k].frames[i].id = publishers[conns'[k].part]
    <3>1. k \in DOMAIN conns /\ ~Has(conns[k].frames, 0)
      BY <1>2, <1>8, <2>5 DEF Opened
    <3>2. conns'[k] # conns[k]
      BY <2>5, <3>1 DEF Has
    <3>3. PICK m \in Open : /\ made[m].conn = k /\ conns[k].up
                            /\ conns'[k].frames = conns[k].frames \o made[m].queue \o Goodbye(m)
      BY <1>8, <3>1, <3>2
    <3>4. m \in DOMAIN made /\ Goodbye(m) = <<CloseFrame(m)>> /\ publishers[made[m].part] = m
      BY <1>9 DEF Goodbye
    <3>5. PICK s, f : s = conns[k].frames \o made[m].queue /\ f = CloseFrame(m)
      OBVIOUS
    <3>6. m \in Nat
      BY <3>4, Points DEF Good, TypeOK
    <3>7. f \in Frames /\ f.id = m
      BY <3>5, <3>6, FrameFacts
    <3>8. s \in Seq(Frames) /\ ~Has(s, 0)
      <4>1. conns[k].frames \in Seq(Frames) /\ made[m].queue \in Seq(Frames)
        BY <3>1, <3>4, Points, ConnectionFacts, PublisherFacts DEF Good, TypeOK
      <4>2. ~Has(made[m].queue, 0)
        BY <3>4 DEF OnceOnly, OnceIn
      <4> QED
        BY <3>1, <3>5, <4>1, <4>2, AllMore
    <3>9. PICK t : t = Append(s, f)
      OBVIOUS
    <3>10. conns'[k].frames = t
      <4>1. s \o <<f>> = Append(s, f)
        BY <3>7, <3>8
      <4> QED
        BY <3>3, <3>4, <3>5, <3>9, <4>1
    <3>11. /\ Len(t) = Len(s) + 1 /\ DOMAIN s = 1 .. Len(s) /\ DOMAIN t = 1 .. Len(s) + 1 /\ Len(s) \in Nat
           /\ t[Len(s) + 1] = f /\ \A h \in DOMAIN s : t[h] = s[h]
      BY <3>7, <3>8, <3>9, Appended
    <3>12. i \in DOMAIN t /\ t[i].call = 0
      BY <2>5, <3>10
    <3>13. i \notin DOMAIN s
      BY <3>8, <3>11, <3>12 DEF Has
    <3>14. i = Len(t)
      BY <3>11, <3>12, <3>13
    <3>15. conns'[k].part = made[m].part
      <4>1. conns[k].part = made[m].part
        BY <3>3, <3>4 DEF Good, Base, Placed
      <4>2. conns'[k].part = conns[k].part
        BY <1>8, <3>1
      <4> QED
        BY <4>1, <4>2
    <3> QED
      BY <3>4, <3>7, <3>10, <3>11, <3>14, <3>15
  <2>6. Ending(publishers', made', conns')
    BY <2>1, <2>2, <2>3, <2>4, <2>5 DEF Ending
  <2> QED
    BY <1>5, <1>6, <1>7, <1>13, <2>6 DEF InTurn
<1> QED
  BY <1>3, <1>12, <1>13

LEMMA SerialStep ==
  ASSUME Good, Good', OnceOnly, Serial, Event
  PROVE  Serial'
<1>1. ASSUME NEW op, NEW keys, MayStart(op), Begins(op, keys), UNCHANGED <<chosen, binding, broker, used>>
      PROVE  Serial'
  BY <1>1, BeginsSerial
<1>2. CASE Shuts
  BY <1>2, ShutsSerial
<1>3. ASSUME NEW m \in DOMAIN made, Flushes(m) PROVE Serial'
  BY <1>3, FlushesSerial
<1>4. ASSUME NEW c \in DOMAIN calls, NEW p \in Partitions, NEW k \in Nat, Declares(c, p, k),
             UNCHANGED <<chosen, binding, cache, broker, used>>
      PROVE  Serial'
  BY <1>4, DeclaresSerial
<1>5. ASSUME NEW c \in DOMAIN calls, Refuses(c) PROVE Serial'
  BY <1>5, RefusesSerial
<1>6. ASSUME NEW c \in DOMAIN calls, NEW k \in Keys, Answers(c, k), UNCHANGED <<chosen, binding, broker, used>>
      PROVE  Serial'
  BY <1>6, AnswersSerial
<1>7. ASSUME NEW c \in DOMAIN calls, NEW p \in Partitions, Constructs(c, p),
             UNCHANGED <<chosen, binding, cache, broker, used>>
      PROVE  Serial'
  BY <1>7, ConstructsSerial
<1>8. ASSUME NEW k \in DOMAIN conns, Stores(k) PROVE Serial'
  BY <1>8, StoresSerial
<1>9. ASSUME NEW k \in DOMAIN conns, Finishes(k) PROVE Serial'
  BY <1>9, FinishesSerial
<1>10. CASE Idle
  BY <1>10, SameSerial DEF Idle, chosen
<1> QED
  BY <1>1, <1>2, <1>3, <1>4, <1>5, <1>6, <1>7, <1>8, <1>9, <1>10 DEF Event

-----------------------------------------------------------------------------
(* The order of the calls.  As long as calls are made in turn and no batch *)
(* overtakes, messages are everywhere in the order of the calls, those the *)
(* broker has stored before those on a connection, and these before the    *)
(* queued ones; the same holds for the ids of messages sent without one,   *)
(* unless there is a basicSend, and a publisher counts from the last.      *)

NoBasic(cs) == \A c \in DOMAIN cs : cs[c].op # "basic"
Numbered(cs) == {c \in DOMAIN cs : cs[c].op = "send" /\ NoBasic(cs)}
Past(s, lg, n, X) ==
  \A i \in DOMAIN s : s[i].call # 0 =>
    (\A j \in DOMAIN lg : lg[j] < s[i].call) /\ (s[i].call \in X => n < s[i].id)
Upto(s, n) == \A i \in DOMAIN s : s[i].call # 0 => s[i].id <= n
Lined(s, lg, n, X) == InOrder(s, X) /\ Past(s, lg, n, X)
Counts(x, k, n) == k.up => n <= x.id /\ Upto(x.queue, x.id) /\ Upto(k.frames, x.id)
OrderIn(lg, la, dd, mm, cc, X, nb) ==
  /\ \A p \in Partitions : Increasing(lg[p])
  /\ \A k \in DOMAIN cc : Lined(cc[k].frames, lg[cc[k].part], la[cc[k].part], X)
  /\ \A m \in DOMAIN mm : /\ Lined(mm[m].queue, lg[mm[m].part], la[mm[m].part], X)
                          /\ Ahead(cc[mm[m].conn].frames, mm[m].queue, X)
                          /\ nb => Counts(mm[m], cc[mm[m].conn], la[mm[m].part])
  /\ \A p \in Partitions, c \in Nat : <<p, c>> \in dd => c \notin X
Order ==
  plan.serial /\ ~overtaken => OrderIn(log, last, discarded, made, conns, Numbered(calls), NoBasic(calls))

LEMMA FirstIsOrder == Init => Order
<1>1. DOMAIN <<>> = {}
  OBVIOUS
<1> SUFFICES ASSUME Init PROVE Order
  OBVIOUS
<1>2. /\ made = <<>> /\ conns = <<>> /\ discarded = {} /\ \A p \in Partitions : log[p] = <<>>
  BY DEF Init
<1> QED
  BY <1>1, <1>2 DEF Order, OrderIn, Increasing

(* Every message that is anywhere is one of a call.                        *)
LEMMA Known ==
  ASSUME OnceOnly, Good
  PROVE  /\ \A k \in DOMAIN conns : \A i \in DOMAIN conns[k].frames :
              conns[k].frames[i].call # 0 => conns[k].frames[i].call \in DOMAIN calls
         /\ \A m \in DOMAIN made : \A i \in DOMAIN made[m].queue :
              made[m].queue[i].call # 0 => made[m].queue[i].call \in DOMAIN calls
         /\ \A p \in Partitions, c \in Nat : <<p, c>> \in discarded => c \in DOMAIN calls \/ c = 0
<1>1. \A p \in Partitions, c \in Nat \ {0} : \A x : Now(x, p, c) => c \in DOMAIN calls
  BY DEF OnceOnly, OnceIn, Now, Settled
<1>2. ASSUME NEW k \in DOMAIN conns, NEW i \in DOMAIN conns[k].frames, conns[k].frames[i].call # 0
      PROVE  conns[k].frames[i].call \in DOMAIN calls
  <2>1. PICK c, p : c = conns[k].frames[i].call /\ p = conns[k].part
    OBVIOUS
  <2>2. conns[k].frames \in Seq(Frames) /\ p \in Partitions
    BY <2>1, Points, ConnectionFacts DEF Good, TypeOK
  <2>3. c \in Nat \ {0}
    <3>1. conns[k].frames[i] \in Frames
      BY <2>2, Points
    <3> QED
      BY <1>2, <2>1, <3>1 DEF Frames
  <2>4. Now(OnConn(k), p, c)
    <3>1. Has(conns[k].frames, c)
      BY <2>1 DEF Has
    <3> QED
      BY <2>1, <3>1, NowAt
  <2> QED
    BY <1>1, <2>1, <2>2, <2>3, <2>4
<1>3. ASSUME NEW m \in DOMAIN made, NEW i \in DOMAIN made[m].queue, made[m].queue[i].call # 0
      PROVE  made[m].queue[i].call \in DOMAIN calls
  <2>1. PICK c, p : c = made[m].queue[i].call /\ p = made[m].part
    OBVIOUS
  <2>2. made[m].queue \in Seq(Frames) /\ p \in Partitions
    BY <2>1, Points, PublisherFacts DEF Good, TypeOK
  <2>3. c \in Nat \ {0}
    <3>1. made[m].queue[i] \in Frames
      BY <2>2, Points
    <3> QED
      BY <1>3, <2>1, <3>1 DEF Frames
  <2>4. Now(InQueue(m), p, c)
    <3>1. Has(made[m].queue, c)
      BY <2>1 DEF Has
    <3> QED
      BY <2>1, <3>1, NowAt
  <2> QED
    BY <1>1, <2>1, <2>2, <2>3, <2>4
<1>4. ASSUME NEW p \in Partitions, NEW c \in Nat, <<p, c>> \in discarded, c # 0
      PROVE  c \in DOMAIN calls
  <2>1. Now(InDiscarded, p, c)
    BY <1>4, NowAt
  <2> QED
    BY <1>1, <1>4, <2>1
<1> QED
  BY <1>2, <1>3, <1>4

(* A call that has just been made has no message anywhere.                 *)
LEMMA Renumber ==
  ASSUME Good, Good', OnceOnly, Further, Order, plan.serial, ~overtaken
  PROVE  OrderIn(log, last, discarded, made, conns, Numbered(calls'), NoBasic(calls'))
<1> DEFINE X == Numbered(calls)
           Y == Numbered(calls')
<1>1. NoBasic(calls') => NoBasic(calls)
  BY DEF NoBasic, Further, Same
<1>2. \A d \in DOMAIN calls : d \in Y => d \in X
  BY <1>1 DEF Numbered, Further, Same
<1>3. 0 \notin Y
  BY CallsAre DEF Good, TypeOK, Numbered
<1>4. OrderIn(log, last, discarded, made, conns, X, NoBasic(calls))
  BY DEF Order
<1> HIDE DEF X, Y
<1>5. ASSUME NEW k \in DOMAIN conns
      PROVE  Lined(conns[k].frames, log[conns[k].part], last[conns[k].part], Y)
  <2>1. Lined(conns[k].frames, log[conns[k].part], last[conns[k].part], X)
    BY <1>4 DEF OrderIn
  <2>2. \A i \in DOMAIN conns[k].frames : conns[k].frames[i].call # 0 => conns[k].frames[i].call \in DOMAIN calls
    BY Known
  <2> QED
    BY <1>2, <2>1, <2>2 DEF Lined, InOrder, Before, Past
<1>6. ASSUME NEW m \in DOMAIN made
      PROVE  /\ Lined(made[m].queue, log[made[m].part], last[made[m].part], Y)
             /\ Ahead(conns[made[m].conn].frames, made[m].queue, Y)
             /\ NoBasic(calls') => Counts(made[m], conns[made[m].conn], last[made[m].part])
  <2>1. /\ Lined(made[m].queue, log[made[m].part], last[made[m].part], X)
        /\ Ahead(conns[made[m].conn].frames, made[m].queue, X)
        /\ NoBasic(calls) => Counts(made[m], conns[made[m].conn], last[made[m].part])
    BY <1>4 DEF OrderIn
  <2>2. \A i \in DOMAIN made[m].queue : made[m].queue[i].call # 0 => made[m].queue[i].call \in DOMAIN calls
    BY Known
  <2>3. Lined(made[m].queue, log[made[m].part], last[made[m].part], Y)
    BY <1>2, <2>1, <2>2 DEF Lined, InOrder, Before, Past
  <2>4. Ahead(conns[made[m].conn].frames, made[m].queue, Y)
    BY <1>2, <2>1, <2>2 DEF Ahead, Before
  <2> QED
    BY <1>1, <2>1, <2>3, <2>4
<1>7. \A p \in Partitions, c \in Nat : <<p, c>> \in discarded => c \notin Y
  BY <1>2, <1>3, <1>4, Known DEF OrderIn
<1>8. \A p \in Partitions : Increasing(log[p])
  BY <1>4 DEF OrderIn
<1> QED
  BY <1>5, <1>6, <1>7, <1>8 DEF OrderIn, Y

LEMMA StillOrder ==
  ASSUME Good, NEW X, NEW nb, OrderIn(log, last, discarded, made, conns, X, nb), UNCHANGED <<made, broker>>,
         \A k \in DOMAIN conns : k \in DOMAIN conns' /\ conns'[k] = conns[k],
         \A k \in DOMAIN conns' : k \in DOMAIN conns \/ conns'[k].frames = <<>>
  PROVE  OrderIn(log', last', discarded', made', conns', X, nb)
<1>1. log' = log /\ last' = last /\ discarded' = discarded /\ made' = made
  BY DEF broker
<1>2. \A m \in DOMAIN made : made[m].conn \in DOMAIN conns
  BY DEF Good, Base, Placed
<1>3. DOMAIN <<>> = {}
  OBVIOUS
<1>4. \A lg, n : Lined(<<>>, lg, n, X)
  BY <1>3 DEF Lined, InOrder, Past
<1>5. \A k \in DOMAIN conns' : Lined(conns'[k].frames, log[conns'[k].part], last[conns'[k].part], X)
  BY <1>4 DEF OrderIn
<1>6. \A m \in DOMAIN made : conns'[made[m].conn] = conns[made[m].conn]
  BY <1>2
<1> QED
  BY <1>1, <1>5, <1>6 DEF OrderIn

(* A publisher takes the message of call c, which is later than all others.*)
LEMMA TakesLine ==
  ASSUME NEW x \in Publisher, NEW y \in Publisher, NEW k \in Connection, k.up, NEW lg, NEW n \in Int, NEW X, NEW nb,
         NEW c \in Nat \ {0}, NEW op, Takes(c, op, x, y), c \in X => nb /\ op = "send", nb => op # "basic",
         Lined(x.queue, lg, n, X), Ahead(k.frames, x.queue, X), nb => Counts(x, k, n),
         \A i \in DOMAIN x.queue : x.queue[i].call < c, \A i \in DOMAIN k.frames : k.frames[i].call < c,
         \A j \in DOMAIN lg : lg[j] < c
  PROVE  Lined(y.queue, lg, n, X) /\ Ahead(k.frames, y.queue, X) /\ (nb => Counts(y, k, n))
<1>1. PICK f \in Frames : f.call = c /\ y.queue = Append(x.queue, f) /\ Numbers(op, x.id, y.id, f.id)
  BY DEF Takes
<1>2. /\ x.queue \in Seq(Frames) /\ k.frames \in Seq(Frames) /\ x.id \in Nat /\ y.id \in Nat /\ f.id \in Nat
      /\ \A i \in DOMAIN x.queue : x.queue[i].id \in Nat /\ x.queue[i].call \in Nat
      /\ \A i \in DOMAIN k.frames : k.frames[i].id \in Nat /\ k.frames[i].call \in Nat
  <2>1. x.queue \in Seq(Frames) /\ k.frames \in Seq(Frames) /\ x.id \in Nat /\ y.id \in Nat
    BY PublisherFacts, ConnectionFacts
  <2>2. (\A i \in DOMAIN x.queue : x.queue[i] \in Frames) /\ \A i \in DOMAIN k.frames : k.frames[i] \in Frames
    BY <2>1, Points
  <2> QED
    BY <2>1, <2>2 DEF Frames
<1>3. c \in X => n <= x.id /\ f.id = x.id + 1 /\ Upto(x.queue, x.id) /\ Upto(k.frames, x.id)
  BY <1>1 DEF Counts, Numbers
<1>4. c \in X => n < f.id
  BY <1>2, <1>3
<1>5. /\ \A i \in DOMAIN x.queue : y.queue[i] = x.queue[i]
      /\ \A i \in DOMAIN y.queue : i \in DOMAIN x.queue \/ y.queue[i] = f
      /\ y.queue \in Seq(Frames)
  <2>1. PICK s, t : s = x.queue /\ t = y.queue /\ t = Append(s, f)
    BY <1>1
  <2>2. s \in Seq(Frames)
    BY <1>2, <2>1
  <2>3. /\ t \in Seq(Frames) /\ DOMAIN s = 1 .. Len(s) /\ DOMAIN t = 1 .. Len(s) + 1 /\ Len(s) \in Nat
        /\ t[Len(s) + 1] = f /\ \A h \in DOMAIN s : t[h] = s[h]
    BY <2>1, <2>2, Appended
  <2>4. \A h \in DOMAIN t : h \in DOMAIN s \/ h = Len(s) + 1
    BY <2>3
  <2> QED
    BY <2>1, <2>3, <2>4
<1>6. \A i \in DOMAIN x.queue : Before(x.queue[i], f, X)
  BY <1>1, <1>2, <1>3 DEF Before, Upto
<1>7. InOrder(y.queue, X)
  BY <1>1, <1>2, <1>6, OneMore DEF Lined
<1>8. Past(y.queue, lg, n, X)
  BY <1>1, <1>4, <1>5 DEF Lined, Past
<1>9. Ahead(k.frames, y.queue, X)
  <2>1. \A i \in DOMAIN k.frames : Before(k.frames[i], f, X)
    BY <1>1, <1>2, <1>3 DEF Before, Upto
  <2> QED
    BY <1>5, <2>1 DEF Ahead
<1>10. ASSUME nb PROVE Counts(y, k, n)
  <2>1. n <= x.id /\ Upto(x.queue, x.id) /\ Upto(k.frames, x.id)
    BY <1>10 DEF Counts
  <2>2. x.id <= y.id /\ f.id <= y.id
    BY <1>1, <1>2, <1>10 DEF Numbers
  <2>3. n <= y.id
    BY <1>2, <2>1, <2>2
  <2>4. Upto(y.queue, y.id)
    <3>1. \A i \in DOMAIN x.queue : x.queue[i].call # 0 => x.queue[i].id <= y.id
      BY <1>2, <2>1, <2>2 DEF Upto
    <3> QED
      BY <1>5, <2>2, <3>1 DEF Upto
  <2>5. Upto(k.frames, y.id)
    BY <1>2, <2>1, <2>2 DEF Upto
  <2> QED
    BY <2>3, <2>4, <2>5 DEF Counts
<1> QED
  BY <1>7, <1>8, <1>9, <1>10 DEF Lined

(* A batch is written at once, under the last id given.                    *)
LEMMA BatchLine ==
  ASSUME NEW k \in Connection, NEW h \in Connection, NEW x \in Publisher, NEW lg, NEW n \in Int, NEW X, NEW nb,
         NEW c \in Nat \ {0}, c \notin X, k.up, h.frames = Append(k.frames, Frame(c, x.id)), x.queue = <<>>,
         Lined(k.frames, lg, n, X), nb => Counts(x, k, n),
         \A i \in DOMAIN k.frames : k.frames[i].call < c, \A j \in DOMAIN lg : lg[j] < c
  PROVE  Lined(h.frames, lg, n, X) /\ (nb => Counts(x, h, n))
<1>1. x.id \in Nat /\ k.frames \in Seq(Frames)
  BY PublisherFacts, ConnectionFacts
<1>2. PICK f : f = Frame(c, x.id)
  OBVIOUS
<1>3. f \in Frames /\ f.call = c /\ f.id = x.id
  BY <1>1, <1>2, FrameFacts
<1>4. /\ \A i \in DOMAIN k.frames : h.frames[i] = k.frames[i]
      /\ \A i \in DOMAIN h.frames : i \in DOMAIN k.frames \/ h.frames[i] = f
  <2>1. PICK s, t : s = k.frames /\ t = h.frames /\ t = Append(s, f)
    BY <1>2
  <2>2. s \in Seq(Frames)
    BY <1>1, <2>1
  <2>3. /\ DOMAIN s = 1 .. Len(s) /\ DOMAIN t = 1 .. Len(s) + 1 /\ Len(s) \in Nat
        /\ t[Len(s) + 1] = f /\ \A j \in DOMAIN s : t[j] = s[j]
    BY <1>3, <2>1, <2>2, Appended
  <2>4. \A j \in DOMAIN t : j \in DOMAIN s \/ j = Len(s) + 1
    BY <2>3
  <2> QED
    BY <2>1, <2>3, <2>4
<1>5. \A i \in DOMAIN k.frames : Before(k.frames[i], f, X)
  BY <1>3 DEF Before
<1>6. InOrder(h.frames, X)
  BY <1>1, <1>2, <1>3, <1>5, OneMore DEF Lined
<1>7. Past(h.frames, lg, n, X)
  BY <1>3, <1>4 DEF Lined, Past
<1>8. ASSUME nb PROVE Counts(x, h, n)
  <2>1. n <= x.id /\ Upto(x.queue, x.id) /\ Upto(k.frames, x.id)
    BY <1>8 DEF Counts
  <2>2. Upto(h.frames, x.id)
    BY <1>1, <1>3, <1>4, <2>1 DEF Upto
  <2> QED
    BY <2>1, <2>2 DEF Counts
<1> QED
  BY <1>6, <1>7, <1>8 DEF Lined

(* A publisher on a connection that is up is the one of its partition.     *)
LEMMA SoleUser ==
  ASSUME NEW pubs, NEW all, Placed(pubs, all, conns), Gone(pubs, all, conns), 0 \notin DOMAIN all,
         NEW m \in DOMAIN all, conns[all[m].conn].up
  PROVE  all[m].part \in Partitions /\ pubs[all[m].part] = m
<1>1. PICK p \in Partitions : pubs[p] = m
  BY DEF Gone, Over
<1>2. all[m].part = p
  BY <1>1 DEF Placed
<1> QED
  BY <1>1, <1>2

(* Whatever a partition holds, in a queue, on a connection or in the log,  *)
(* is of an earlier call than one that has not come to it yet.             *)
LEMMA Earlier ==
  ASSUME Good, NEW all \in Seq(Publisher), OnceIn(log, discarded, all, conns, calls), NEW c \in Nat \ {0},
         NEW p \in Partitions, ~Settled(calls, p, c), \A d \in DOMAIN calls : d <= c
  PROVE  /\ \A j \in DOMAIN log[p] : log[p][j] < c
         /\ \A k \in DOMAIN conns : conns[k].part = p => \A i \in DOMAIN conns[k].frames : conns[k].frames[i].call < c
         /\ \A m \in DOMAIN all : all[m].part = p => \A i \in DOMAIN all[m].queue : all[m].queue[i].call < c
<1>1. ASSUME NEW d \in Nat, NEW y, d # 0 => Holds(log, discarded, all, conns, y, p, d) PROVE d < c
  <2>1. CASE d = 0
    BY <2>1
  <2>2. CASE d # 0
    <3>1. Settled(calls, p, d)
      BY <1>1, <2>2 DEF OnceIn
    <3>2. d \in DOMAIN calls /\ d # c
      BY <3>1 DEF Settled
    <3> QED
      BY <3>2
  <2> QED
    BY <2>1, <2>2
<1>2. ASSUME NEW j \in DOMAIN log[p] PROVE log[p][j] < c
  <2>1. log[p][j] \in Nat
    BY Points DEF Good, TypeOK
  <2>2. Holds(log, discarded, all, conns, InLog, p, log[p][j])
    BY HoldsAt
  <2> QED
    BY <1>1, <2>1, <2>2
<1>3. ASSUME NEW k \in DOMAIN conns, conns[k].part = p, NEW i \in DOMAIN conns[k].frames
      PROVE  conns[k].frames[i].call < c
  <2>1. conns[k].frames[i].call \in Nat
    <3>1. conns[k].frames[i] \in Frames
      BY Points, ConnectionFacts DEF Good, TypeOK
    <3> QED
      BY <3>1 DEF Frames
  <2>2. Holds(log, discarded, all, conns, OnConn(k), p, conns[k].frames[i].call)
    <3>1. Has(conns[k].frames, conns[k].frames[i].call)
      BY DEF Has
    <3> QED
      BY <1>3, <3>1, HoldsAt
  <2> QED
    BY <1>1, <2>1, <2>2
<1>4. ASSUME NEW m \in DOMAIN all, all[m].part = p, NEW i \in DOMAIN all[m].queue
      PROVE  all[m].queue[i].call < c
  <2>1. all[m].queue[i].call \in Nat
    <3>1. all[m].queue[i] \in Frames
      BY Points, PublisherFacts
    <3> QED
      BY <3>1 DEF Frames
  <2>2. Holds(log, discarded, all, conns, InQueue(m), p, all[m].queue[i].call)
    <3>1. Has(all[m].queue, all[m].queue[i].call)
      BY DEF Has
    <3> QED
      BY <1>4, <3>1, HoldsAt
  <2> QED
    BY <1>1, <2>1, <2>2
<1> QED
  BY <1>2, <1>3, <1>4

(* The publishers of P take the messages of call c, the last one.          *)
LEMMA HandsOrder ==
  ASSUME Good, Good', NEW c \in Nat \ {0}, NEW call, NEW P, NEW pubs, NEW all, NEW x,
         Hands(c, call, P, pubs, all, x), Placed(pubs, all, conns), all \in Seq(Publisher),
         OnceIn(log, discarded, all, conns, calls), \A p \in P : ~Settled(calls, p, c), UNCHANGED broker,
         \A d \in DOMAIN calls : d <= c, NEW cs, Opened(pubs, all, conns, cs), ~overtaken',
         NEW X, NEW nb, OrderIn(log, last, discarded, all, conns, X, nb),
         c \in X => nb /\ x.op = "send", nb => x.op # "basic"
  PROVE  OrderIn(log', last', discarded', made', conns', X, nb)
<1>1. log' = log /\ last' = last /\ discarded' = discarded
  BY DEF broker
<1>2. P \subseteq Partitions /\ Handing(c, x.op, P, pubs, all) /\ \A p \in P : pubs[p] \in DOMAIN all
  BY DEF Hands, Gets
<1>3. /\ DOMAIN made' = DOMAIN all /\ DOMAIN conns' = DOMAIN conns
      /\ \A m \in DOMAIN all : made'[m].part = all[m].part /\ made'[m].conn = all[m].conn
      /\ \A k \in DOMAIN conns : conns'[k].part = conns[k].part /\ (conns'[k].up <=> conns[k].up)
  BY <1>2 DEF Handing, SamePlace
<1>4. /\ \A m \in DOMAIN all : /\ all[m] \in Publisher /\ made'[m] \in Publisher /\ m # 0
                               /\ all[m].conn \in DOMAIN conns /\ conns[all[m].conn].part = all[m].part
                               /\ all[m].part \in Partitions
      /\ \A k \in DOMAIN conns : conns[k] \in Connection /\ conns'[k] \in Connection
      /\ \A p \in Partitions : last[p] \in Int
  <2>1. \A m \in DOMAIN all : all[m] \in Publisher /\ made'[m] \in Publisher /\ m # 0 /\ all[m].part \in Partitions
    BY <1>3, Points, PublisherFacts DEF Good, TypeOK
  <2>2. \A m \in DOMAIN all : all[m].conn \in DOMAIN conns /\ conns[all[m].conn].part = all[m].part
    BY DEF Placed
  <2>3. \A k \in DOMAIN conns : conns[k] \in Connection /\ conns'[k] \in Connection
    BY <1>3, Points DEF Good, TypeOK
  <2> QED
    BY <2>1, <2>2, <2>3 DEF Good, TypeOK
<1>5. \A p \in P : /\ all[pubs[p]].part = p /\ conns[all[pubs[p]].conn].up
                   /\ \A j \in DOMAIN log[p] : log[p][j] < c
                   /\ \A i \in DOMAIN conns[all[pubs[p]].conn].frames : conns[all[pubs[p]].conn].frames[i].call < c
                   /\ \A i \in DOMAIN all[pubs[p]].queue : all[pubs[p]].queue[i].call < c
  <2> SUFFICES ASSUME NEW p \in P
               PROVE  /\ all[pubs[p]].part = p /\ conns[all[pubs[p]].conn].up
                      /\ \A j \in DOMAIN log[p] : log[p][j] < c
                      /\ \A i \in DOMAIN conns[all[pubs[p]].conn].frames : conns[all[pubs[p]].conn].frames[i].call < c
                      /\ \A i \in DOMAIN all[pubs[p]].queue : all[pubs[p]].queue[i].call < c
    OBVIOUS
  <2>1. p \in Partitions /\ pubs[p] \in DOMAIN all /\ pubs[p] # 0
    BY <1>2, <1>4
  <2>2. all[pubs[p]].part = p /\ conns[all[pubs[p]].conn].up
    BY <2>1 DEF Placed, Opened
  <2>3. all[pubs[p]].conn \in DOMAIN conns /\ conns[all[pubs[p]].conn].part = p
    BY <1>4, <2>1, <2>2
  <2> QED
    BY <2>1, <2>2, <2>3, Earlier
<1>6. /\ \A p \in Partitions : Increasing(log[p])
      /\ \A p \in Partitions, d \in Nat : <<p, d>> \in discarded => d \notin X
  BY DEF OrderIn
<1>7. CASE x.op = "batch"
  <2>1. /\ made' = all /\ \A p \in P : all[pubs[p]].queue = <<>>
        /\ \A k \in DOMAIN conns :
             \/ conns'[k] = conns[k]
             \/ \E p \in P : /\ conns[k].up /\ all[pubs[p]].conn = k
                             /\ conns'[k].frames = Append(conns[k].frames, Frame(c, all[pubs[p]].id))
    BY <1>2, <1>7 DEF Handing
  <2>2. c \notin X
    BY <1>7
  <2>3. ASSUME NEW k \in DOMAIN conns, NEW p \in P, all[pubs[p]].conn = k,
               conns'[k].frames = Append(conns[k].frames, Frame(c, all[pubs[p]].id))
        PROVE  /\ Lined(conns'[k].frames, log[conns[k].part], last[conns[k].part], X)
               /\ nb => Counts(all[pubs[p]], conns'[k], last[conns[k].part])
    <3>1. PICK m \in DOMAIN all : m = pubs[p]
      BY <1>2
    <3>2. all[m].part = p /\ conns[k].up /\ conns[k].part = p
      BY <1>4, <1>5, <2>3, <3>1
    <3>3. /\ Lined(conns[k].frames, log[p], last[p], X)
          /\ nb => Counts(all[m], conns[k], last[p])
      BY <2>3, <3>1, <3>2 DEF OrderIn
    <3>4. all[m].queue = <<>> /\ p \in Partitions
      BY <1>2, <2>1, <3>1
    <3>5. (\A i \in DOMAIN conns[k].frames : conns[k].frames[i].call < c) /\ \A j \in DOMAIN log[p] : log[p][j] < c
      BY <1>5, <2>3
    <3>6. conns'[k].frames = Append(conns[k].frames, Frame(c, all[m].id))
      BY <2>3, <3>1
    <3>7. conns[k] \in Connection /\ conns'[k] \in Connection /\ all[m] \in Publisher /\ last[p] \in Int
      BY <1>4, <3>4
    <3>8. PICK a, b, z : a = conns[k] /\ b = conns'[k] /\ z = all[m]
      OBVIOUS
    <3>9. Lined(b.frames, log[p], last[p], X) /\ (nb => Counts(z, b, last[p]))
      BY <2>2, <3>2, <3>3, <3>4, <3>5, <3>6, <3>7, <3>8, BatchLine
    <3> QED
      BY <3>1, <3>2, <3>8, <3>9
  <2>4. \A k \in DOMAIN conns : Lined(conns'[k].frames, log[conns[k].part], last[conns[k].part], X)
    BY <2>1, <2>3 DEF OrderIn
  <2>5. ASSUME NEW m \in DOMAIN all
        PROVE  /\ Lined(all[m].queue, log[all[m].part], last[all[m].part], X)
               /\ Ahead(conns'[all[m].conn].frames, all[m].queue, X)
               /\ nb => Counts(all[m], conns'[all[m].conn], last[all[m].part])
    <3>1. /\ Lined(all[m].queue, log[all[m].part], last[all[m].part], X)
          /\ Ahead(conns[all[m].conn].frames, all[m].queue, X)
          /\ nb => Counts(all[m], conns[all[m].conn], last[all[m].part])
      BY DEF OrderIn
    <3>2. CASE conns'[all[m].conn] = conns[all[m].conn]
      BY <3>1, <3>2
    <3>3. ASSUME NEW p \in P, conns[all[m].conn].up, all[pubs[p]].conn = all[m].conn,
                 conns'[all[m].conn].frames = Append(conns[all[m].conn].frames, Frame(c, all[pubs[p]].id))
          PROVE  /\ Ahead(conns'[all[m].conn].frames, all[m].queue, X)
                 /\ nb => Counts(all[m], conns'[all[m].conn], last[all[m].part])
      <4>1. pubs[all[m].part] = m
        <5>1. Gone(pubs, all, conns) /\ 0 \notin DOMAIN all
          BY <1>4 DEF Opened
        <5> QED
          BY <3>3, <5>1, SoleUser
      <4>2. all[m].part = p
        <5>1. all[pubs[p]].part = p /\ pubs[p] \in DOMAIN all
          BY <1>2, <1>5
        <5> QED
          BY <1>4, <3>3, <5>1
      <4>3. pubs[p] = m
        BY <4>1, <4>2
      <4>4. Ahead(conns'[all[m].conn].frames, all[m].queue, X)
        BY <2>1, <4>3, NoFrames
      <4>5. all[m].conn \in DOMAIN conns /\ conns[all[m].conn].part = p
        BY <1>4, <4>2
      <4> QED
        BY <2>3, <3>3, <4>2, <4>3, <4>4, <4>5
    <3> QED
      BY <1>4, <2>1, <3>1, <3>2, <3>3
  <2> QED
    BY <1>1, <1>3, <1>6, <2>1, <2>4, <2>5 DEF OrderIn
<1>8. CASE x.op # "batch"
  <2>1. /\ conns' = conns
        /\ \A m \in DOMAIN all : made'[m] = all[m] \/ \E p \in P : pubs[p] = m /\ Takes(c, x.op, all[m], made'[m])
    BY <1>2, <1>8 DEF Handing
  <2>2. ASSUME NEW m \in DOMAIN all
        PROVE  /\ Lined(made'[m].queue, log[all[m].part], last[all[m].part], X)
               /\ Ahead(conns[all[m].conn].frames, made'[m].queue, X)
               /\ nb => Counts(made'[m], conns[all[m].conn], last[all[m].part])
    <3>1. /\ Lined(all[m].queue, log[all[m].part], last[all[m].part], X)
          /\ Ahead(conns[all[m].conn].frames, all[m].queue, X)
          /\ nb => Counts(all[m], conns[all[m].conn], last[all[m].part])
      BY DEF OrderIn
    <3>2. CASE made'[m] = all[m]
      BY <3>1, <3>2
    <3>3. ASSUME NEW p \in P, pubs[p] = m, Takes(c, x.op, all[m], made'[m])
          PROVE  /\ Lined(made'[m].queue, log[all[m].part], last[all[m].part], X)
                 /\ Ahead(conns[all[m].conn].frames, made'[m].queue, X)
                 /\ nb => Counts(made'[m], conns[all[m].conn], last[all[m].part])
      <4>1. /\ all[m].part = p /\ conns[all[m].conn].up /\ \A j \in DOMAIN log[p] : log[p][j] < c
            /\ \A i \in DOMAIN conns[all[m].conn].frames : conns[all[m].conn].frames[i].call < c
            /\ \A i \in DOMAIN all[m].queue : all[m].queue[i].call < c
        BY <1>5, <3>3
      <4>2. all[m] \in Publisher /\ made'[m] \in Publisher /\ conns[all[m].conn] \in Connection /\ last[p] \in Int
        BY <1>2, <1>4
      <4>3. PICK a, b, z : a = all[m] /\ b = made'[m] /\ z = conns[all[m].conn]
        OBVIOUS
      <4>4. PICK lg, n, op : lg = log[p] /\ n = last[p] /\ op = x.op
        OBVIOUS
      <4>5. /\ a \in Publisher /\ b \in Publisher /\ z \in Connection /\ n \in Int /\ z.up
            /\ Takes(c, op, a, b) /\ (c \in X => nb /\ op = "send") /\ (nb => op # "basic")
        BY <3>3, <4>1, <4>2, <4>3, <4>4
      <4>6. Lined(a.queue, lg, n, X) /\ Ahead(z.frames, a.queue, X) /\ (nb => Counts(a, z, n))
        BY <3>1, <4>1, <4>3, <4>4
      <4>7. /\ \A i \in DOMAIN a.queue : a.queue[i].call < c
            /\ \A i \in DOMAIN z.frames : z.frames[i].call < c
            /\ \A j \in DOMAIN lg : lg[j] < c
        BY <4>1, <4>3, <4>4
      <4>8. Lined(b.queue, lg, n, X) /\ Ahead(z.frames, b.queue, X) /\ (nb => Counts(b, z, n))
        BY <4>5, <4>6, <4>7, TakesLine
      <4> QED
        BY <4>1, <4>3, <4>4, <4>8
    <3> QED
      BY <2>1, <3>1, <3>2, <3>3
  <2>3. \A k \in DOMAIN conns : Lined(conns[k].frames, log[conns[k].part], last[conns[k].part], X)
    BY DEF OrderIn
  <2>4. \A m \in DOMAIN made' : /\ Lined(made'[m].queue, log[made'[m].part], last[made'[m].part], X)
                                /\ Ahead(conns[made'[m].conn].frames, made'[m].queue, X)
                                /\ nb => Counts(made'[m], conns[made'[m].conn], last[made'[m].part])
    BY <1>3, <2>2
  <2> QED
    BY <1>1, <1>6, <2>1, <2>3, <2>4 DEF OrderIn
<1> QED
  BY <1>7, <1>8

LEMMA OpsOf ==
  ASSUME NEW c \in DOMAIN calls', NEW x, calls'[c] = x
  PROVE  /\ c \in Numbered(calls') => NoBasic(calls') /\ x.op = "send"
         /\ NoBasic(calls') => x.op # "basic"
BY DEF Numbered, NoBasic

LEMMA SameOrder ==
  ASSUME Good, Good', OnceOnly, Further, Order, plan' = plan, UNCHANGED <<made, broker, overtaken>>,
         \A k \in DOMAIN conns : k \in DOMAIN conns' /\ conns'[k] = conns[k],
         \A k \in DOMAIN conns' : k \in DOMAIN conns \/ conns'[k].frames = <<>>
  PROVE  Order'
<1> SUFFICES ASSUME plan'.serial, ~overtaken'
             PROVE  OrderIn(log', last', discarded', made', conns', Numbered(calls'), NoBasic(calls'))
  BY DEF Order
<1>1. OrderIn(log, last, discarded, made, conns, Numbered(calls'), NoBasic(calls'))
  BY Renumber
<1> QED
  BY <1>1, StillOrder

LEMMA BeginsOrder ==
  ASSUME Good, Good', OnceOnly, Further, Serial, Order, NEW op, NEW keys, MayStart(op), Begins(op, keys),
         UNCHANGED <<chosen, binding, broker, used>>
  PROVE  Order'
<1> DEFINE c == Len(calls) + 1
<1>1. /\ c \notin DOMAIN calls /\ c \in Nat \ {0} /\ (\A d \in DOMAIN calls : d <= c) /\ plan' = plan
      /\ made \in Seq(Publisher) /\ Placed(publishers, made, conns)
  BY CallsAre DEF chosen, Good, TypeOK, Base
<1>2. PICK x \in Call :
        \/ Silent(c, x)
        \/ \E P \in SUBSET Partitions, y \in Call : Hands(c, x, P, publishers, made, y)
  BY DEF Begins
<1> HIDE DEF c
<1>3. CASE Silent(c, x)
  <2>1. UNCHANGED <<made, broker, overtaken>> /\ conns' = conns
    BY <1>3 DEF Silent
  <2> QED
    BY <1>1, <2>1, SameOrder
<1>4. ASSUME NEW P, NEW y \in Call, Hands(c, x, P, publishers, made, y) PROVE Order'
  <2> SUFFICES ASSUME plan'.serial, ~overtaken'
               PROVE  OrderIn(log', last', discarded', made', conns', Numbered(calls'), NoBasic(calls'))
    BY DEF Order
  <2>1. OneCall(c, y) /\ Handing(c, y.op, P, publishers, made)
    BY <1>4 DEF Hands, Gets
  <2>2. plan.serial /\ ~overtaken
    BY <1>1, <2>1 DEF Handing
  <2>3. OrderIn(log, last, discarded, made, conns, Numbered(calls'), NoBasic(calls'))
    BY <2>2, Renumber
  <2>4. Opened(publishers, made, conns, calls)
    BY <2>2, Quiet
  <2>5. \A p \in P : ~Settled(calls, p, c)
    BY <1>1 DEF Settled
  <2>6. OnceIn(log, discarded, made, conns, calls) /\ broker' = broker
    BY DEF OnceOnly
  <2>7. c \in DOMAIN calls' /\ calls'[c] = y
    BY <2>1 DEF OneCall
  <2>8. (c \in Numbered(calls') => NoBasic(calls') /\ y.op = "send") /\ (NoBasic(calls') => y.op # "basic")
    BY <2>7, OpsOf
  <2>9. PICK X, nb : X = Numbered(calls') /\ nb = NoBasic(calls')
    OBVIOUS
  <2> QED
    BY <1>1, <1>4, <2>3, <2>4, <2>5, <2>6, <2>8, <2>9, HandsOrder
<1> QED
  BY <1>2, <1>3, <1>4

LEMMA AnswersOrder ==
  ASSUME Good, Good', OnceOnly, Further, Serial, Order, NEW c \in DOMAIN calls, NEW k, Answers(c, k),
         UNCHANGED <<chosen, binding, broker, used>>
  PROVE  Order'
<1>1. /\ plan' = plan /\ made \in Seq(Publisher) /\ Placed(publishers, made, conns)
      /\ c \in Nat \ {0}
  BY CallsAre DEF chosen, Good, TypeOK, Base
<1>2. \/ \E x : Silent(c, x)
      \/ /\ calls[c].at = "routing"
         /\ \E x, P, y : Hands(c, x, P, publishers, made, y)
  BY DEF Answers
<1>3. ASSUME NEW x, Silent(c, x) PROVE Order'
  <2>1. UNCHANGED <<made, broker, overtaken>> /\ conns' = conns
    BY <1>3 DEF Silent
  <2> QED
    BY <1>1, <2>1, SameOrder
<1>4. ASSUME calls[c].at = "routing", NEW x, NEW P, NEW y, Hands(c, x, P, publishers, made, y) PROVE Order'
  <2> SUFFICES ASSUME plan'.serial, ~overtaken'
               PROVE  OrderIn(log', last', discarded', made', conns', Numbered(calls'), NoBasic(calls'))
    BY DEF Order
  <2>1. OneCall(c, y) /\ Handing(c, y.op, P, publishers, made)
    BY <1>4 DEF Hands, Gets
  <2>2. plan.serial /\ ~overtaken
    BY <1>1, <2>1 DEF Handing
  <2>3. OrderIn(log, last, discarded, made, conns, Numbered(calls'), NoBasic(calls'))
    BY <2>2, Renumber
  <2>4. InTurn(publishers, made, conns, calls)
    BY <2>2 DEF Serial
  <2>5. c = Len(calls) /\ \A d \in DOMAIN calls : d # c => calls[d].at \notin Awaiting
    BY <1>4, <2>4 DEF InTurn, LastWaits, Awaiting
  <2>6. Opened(publishers, made, conns, calls)
    BY <1>4, <2>4, <2>5 DEF InTurn, Closes, Awaiting
  <2>7. \A d \in DOMAIN calls : d <= c
    BY <2>5, CallsAre DEF Good, TypeOK
  <2>8. \A p \in P : ~Settled(calls, p, c)
    BY <1>4 DEF Settled
  <2>9. OnceIn(log, discarded, made, conns, calls) /\ broker' = broker
    BY DEF OnceOnly
  <2>10. c \in DOMAIN calls' /\ calls'[c] = y
    BY <2>1 DEF OneCall
  <2>11. (c \in Numbered(calls') => NoBasic(calls') /\ y.op = "send") /\ (NoBasic(calls') => y.op # "basic")
    BY <2>10, OpsOf
  <2>12. PICK X, nb : X = Numbered(calls') /\ nb = NoBasic(calls')
    OBVIOUS
  <2> QED
    BY <1>1, <1>4, <2>3, <2>6, <2>7, <2>8, <2>9, <2>11, <2>12, HandsOrder
<1> QED
  BY <1>2, <1>3, <1>4

LEMMA ConstructsOrder ==
  ASSUME Good, Good', OnceOnly, Further, Serial, Order, NEW c \in DOMAIN calls, NEW p \in Partitions, Constructs(c, p),
         UNCHANGED <<chosen, binding, cache, broker, used>>
  PROVE  Order'
<1> SUFFICES ASSUME plan'.serial, ~overtaken'
             PROVE  OrderIn(log', last', discarded', made', conns', Numbered(calls'), NoBasic(calls'))
  BY DEF Order
<1> DEFINE m == Len(made) + 1
           pubs == [publishers EXCEPT ![p] = m]
<1>1. PICK new \in Publisher, P \in SUBSET Partitions, y \in Call :
           /\ new.part = p /\ new.conn = calls[c].conn /\ new.queue = <<>> /\ new.state = "open" /\ last[p] <= new.id
           /\ Hands(c, calls[c], P, pubs, Append(made, new), y)
  BY DEF Constructs
<1>2. calls[c].at = "querying" /\ calls[c].todo[1] = p /\ c \in Nat \ {0}
  BY CallsAre DEF Constructs, Good, TypeOK
<1> DEFINE all == Append(made, new)
<1>3. PICK n, a, b : n = m /\ a = all /\ b = pubs
  OBVIOUS
<1>4. Hands(c, calls[c], P, b, a, y)
  BY <1>1, <1>3
<1>5. n = Len(made) + 1 /\ a = Append(made, new) /\ b = [publishers EXCEPT ![p] = n]
  BY <1>3
<1> HIDE DEF m, all, pubs
<1>6. Entered(p, new, n, a, b)
  <2>1. Enters(c, p, new, n, a, b)
    BY <1>1, <1>2, <1>5 DEF Enters
  <2> QED
    BY <2>1, EnteredIs
<1>7. /\ a \in Seq(Publisher) /\ DOMAIN a = DOMAIN made \cup {n} /\ n # 0 /\ n \notin DOMAIN made
      /\ a[n] = new /\ \A x \in DOMAIN made : a[x] = made[x]
      /\ b[p] = n /\ \A q \in Partitions : q # p => b[q] = publishers[q]
      /\ new.conn \in DOMAIN conns /\ conns[new.conn].part = p
      /\ Placed(b, a, conns)
  BY <1>6 DEF Entered
<1>8. OneCall(c, y) /\ Handing(c, y.op, P, b, a)
  BY <1>4 DEF Hands, Gets
<1>9. plan.serial /\ ~overtaken
  BY <1>8 DEF Handing, chosen
<1>10. PICK X, nb : X = Numbered(calls') /\ nb = NoBasic(calls')
  OBVIOUS
<1>11. OrderIn(log, last, discarded, made, conns, X, nb)
  BY <1>9, <1>10, Renumber
<1>12. InTurn(publishers, made, conns, calls)
  BY <1>9 DEF Serial
<1>13. c = Len(calls) /\ \A d \in DOMAIN calls : d # c => calls[d].at \notin Awaiting
  BY <1>2, <1>12 DEF InTurn, LastWaits, Awaiting
<1>14. ~Closes(calls) /\ Asks(calls, new.conn) /\ \A k : Asks(calls, k) => k = new.conn
  BY <1>1, <1>2, <1>13 DEF Closes, Asks, Awaiting
<1>15. Opened(publishers, made, conns, calls)
  BY <1>12, <1>14 DEF InTurn
<1>16. publishers[p] = 0
  BY <1>2, <1>12 DEF InTurn, AllMiss, Missing
<1>17. conns[new.conn].up /\ conns[new.conn].frames = <<>>
  BY <1>7, <1>14, <1>15, <1>16 DEF Opened, Owns
<1>18. \A q \in Partitions : publishers[q] # 0 => publishers[q] \in DOMAIN made
  BY DEF Good, Base, Placed
<1>19. Opened(b, a, conns, calls)
  <2>1. ASSUME NEW q \in Partitions, b[q] # 0 PROVE a[b[q]].state = "open" /\ conns[a[b[q]].conn].up
    <3>1. CASE q = p
      BY <1>1, <1>7, <1>17, <3>1
    <3>2. CASE q # p
      BY <1>7, <1>15, <1>18, <2>1, <3>2 DEF Opened
    <3> QED
      BY <3>1, <3>2
  <2>2. Gone(b, a, conns)
    <3> SUFFICES ASSUME NEW x \in DOMAIN a, \A q \in Partitions : b[q] # x PROVE Over(a[x], conns)
      BY DEF Gone
    <3>1. x \in DOMAIN made /\ a[x] = made[x] /\ x # 0
      BY <1>7, Points, SMTT(30) DEF Good, TypeOK
    <3>2. \A q \in Partitions : publishers[q] # x
      BY <1>7, <1>16, <3>1
    <3> QED
      BY <1>15, <3>1, <3>2 DEF Opened, Gone
  <2>3. ASSUME NEW k \in DOMAIN conns, conns[k].up PROVE Owns(b, a, k, conns[k].part)
    <3>1. conns[k].part \in Partitions
      BY Points, ConnectionFacts DEF Good, TypeOK
    <3>2. CASE Owns(publishers, made, k, conns[k].part)
      <4>1. conns[k].part # p
        BY <1>16, <3>2 DEF Owns
      <4> QED
        BY <1>7, <1>18, <3>1, <3>2, <4>1 DEF Owns
    <3>3. CASE Asks(calls, k)
      <4>1. k = new.conn
        BY <1>14, <3>3
      <4> QED
        BY <1>7, <4>1 DEF Owns
    <3> QED
      BY <1>15, <2>3, <3>2, <3>3 DEF Opened
  <2> QED
    BY <1>15, <2>1, <2>2, <2>3 DEF Opened
<1>20. OrderIn(log, last, discarded, a, conns, X, nb)
  <2>1. DOMAIN <<>> = {}
    OBVIOUS
  <2>2. Lined(new.queue, log[p], last[p], X) /\ Ahead(conns[new.conn].frames, new.queue, X)
        /\ Counts(new, conns[new.conn], last[p])
    BY <1>1, <1>17, <2>1 DEF Lined, InOrder, Past, Ahead, Counts, Upto
  <2>3. ASSUME NEW x \in DOMAIN a
        PROVE  /\ Lined(a[x].queue, log[a[x].part], last[a[x].part], X)
               /\ Ahead(conns[a[x].conn].frames, a[x].queue, X)
               /\ nb => Counts(a[x], conns[a[x].conn], last[a[x].part])
    <3>1. CASE x = n
      BY <1>1, <1>7, <2>2, <3>1
    <3>2. CASE x # n
      BY <1>7, <1>11, <3>2 DEF OrderIn
    <3> QED
      BY <3>1, <3>2
  <2> QED
    BY <1>11, <2>3 DEF OrderIn
<1>21. OnceIn(log, discarded, a, conns, calls)
  <2>1. \A y1, q, d : Holds(log, discarded, a, conns, y1, q, d) => Holds(log, discarded, made, conns, y1, q, d)
    BY <1>1, <1>7, NoFrames DEF Holds
  <2>2. \A x \in DOMAIN a : Distinct(a[x].queue) /\ ~Has(a[x].queue, 0)
    BY <1>1, <1>7, NoFrames DEF OnceOnly, OnceIn
  <2>3. \A q \in Partitions, d \in Nat \ {0} : \A x, z :
          Holds(log, discarded, a, conns, x, q, d) /\ Holds(log, discarded, a, conns, z, q, d) => x = z
    BY <2>1 DEF OnceOnly, OnceIn
  <2>4. \A q \in Partitions, d \in Nat \ {0} : \A x : Holds(log, discarded, a, conns, x, q, d) => Settled(calls, q, d)
    BY <2>1 DEF OnceOnly, OnceIn
  <2> QED
    BY <2>2, <2>3, <2>4 DEF OnceOnly, OnceIn
<1>22. \A q \in P : ~Settled(calls, q, c)
  BY <1>4 DEF Settled, Hands, Gets
<1>23. (\A d \in DOMAIN calls : d <= c) /\ broker' = broker
  BY <1>13, CallsAre DEF Good, TypeOK
<1>24. (c \in X => nb /\ y.op = "send") /\ (nb => y.op # "basic")
  <2>1. c \in DOMAIN calls' /\ calls'[c] = y
    BY <1>8 DEF OneCall
  <2> QED
    BY <1>10, <2>1, OpsOf
<1> QED
  BY <1>2, <1>4, <1>7, <1>10, <1>19, <1>20, <1>21, <1>22, <1>23, <1>24, HandsOrder

LEMMA NoLine ==
  ASSUME NEW lg, NEW n, NEW X
  PROVE  Lined(<<>>, lg, n, X) /\ (\A s : Ahead(s, <<>>, X)) /\ \A v : Upto(<<>>, v)
<1>1. DOMAIN <<>> = {}
  OBVIOUS
<1> QED
  BY <1>1 DEF Lined, InOrder, Past, Ahead, Upto

LEMMA JoinLine ==
  ASSUME NEW s \in Seq(Frames), NEW t \in Seq(Frames), NEW lg, NEW n, NEW X,
         Lined(s, lg, n, X), Lined(t, lg, n, X), Ahead(s, t, X)
  PROVE  /\ s \o t \in Seq(Frames) /\ Lined(s \o t, lg, n, X)
         /\ \A v : Upto(s, v) /\ Upto(t, v) => Upto(s \o t, v)
<1>1. PICK u : u = s \o t
  OBVIOUS
<1>2. /\ u \in Seq(Frames) /\ InOrder(u, X)
      /\ \A i \in DOMAIN u : (\E j \in DOMAIN s : u[i] = s[j]) \/ \E j \in DOMAIN t : u[i] = t[j]
  BY <1>1, AllMore DEF Lined
<1>3. Past(u, lg, n, X)
  BY <1>2 DEF Lined, Past
<1>4. \A v : Upto(s, v) /\ Upto(t, v) => Upto(u, v)
  BY <1>2 DEF Upto
<1> QED
  BY <1>1, <1>2, <1>3, <1>4 DEF Lined

(* The Close at the end carries no message.                                *)
LEMMA GoodbyeLine ==
  ASSUME NEW m \in Nat, NEW lg, NEW n, NEW X
  PROVE  /\ Goodbye(m) \in Seq(Frames) /\ Lined(Goodbye(m), lg, n, X) /\ (\A v : Upto(Goodbye(m), v))
         /\ \A s : Ahead(s, Goodbye(m), X)
<1>1. CloseFrame(m) \in Frames /\ CloseFrame(m).call = 0
  BY FrameFacts
<1>2. Goodbye(m) \in Seq(Frames) /\ \A i \in DOMAIN Goodbye(m) : Goodbye(m)[i].call = 0
  BY <1>1 DEF Goodbye
<1> QED
  BY <1>2 DEF Lined, InOrder, Before, Past, Upto, Ahead

LEMMA FlushesOrder ==
  ASSUME Good, Good', OnceOnly, Further, Serial, Order, NEW m \in DOMAIN made, Flushes(m)
  PROVE  Order'
<1> SUFFICES ASSUME plan'.serial, ~overtaken'
             PROVE  OrderIn(log', last', discarded', made', conns', Numbered(calls'), NoBasic(calls'))
  BY DEF Order
<1> DEFINE k == made[m].conn
           p == made[m].part
<1>1. /\ plan.serial /\ ~overtaken /\ k \in DOMAIN conns /\ conns[k].up
      /\ DOMAIN made' = DOMAIN made /\ DOMAIN conns' = DOMAIN conns
      /\ made'[m].part = p /\ made'[m].conn = k /\ made'[m].queue = <<>> /\ made'[m].id = made[m].id
      /\ \A x \in DOMAIN made : x # m => made'[x] = made[x]
      /\ conns'[k].part = conns[k].part /\ conns'[k].up /\ conns'[k].frames = conns[k].frames \o made[m].queue
      /\ \A j \in DOMAIN conns : j # k => conns'[j] = conns[j]
      /\ log' = log /\ last' = last /\ discarded' = discarded
  BY DEF Flushes, chosen, broker, SamePlace
<1>2. InTurn(publishers, made, conns, calls)
  BY <1>1 DEF Serial
<1>3. PICK X, nb : X = Numbered(calls') /\ nb = NoBasic(calls')
  OBVIOUS
<1>4. OrderIn(log, last, discarded, made, conns, X, nb)
  BY <1>1, <1>3, Renumber
<1>5. conns[k].part = p
  BY DEF Good, Base, Placed
<1>6. /\ Lined(conns[k].frames, log[p], last[p], X) /\ Lined(made[m].queue, log[p], last[p], X)
      /\ Ahead(conns[k].frames, made[m].queue, X) /\ (nb => Counts(made[m], conns[k], last[p]))
  BY <1>1, <1>4, <1>5 DEF OrderIn
<1>7. conns[k].frames \in Seq(Frames) /\ made[m].queue \in Seq(Frames)
  BY <1>1, Points, PublisherFacts, ConnectionFacts DEF Good, TypeOK
<1>8. \A x \in DOMAIN made : x # m => made[x].conn # k
  <2> SUFFICES ASSUME NEW x \in DOMAIN made, made[x].conn = k PROVE x = m
    OBVIOUS
  <2>1. publishers[made[m].part] = m /\ publishers[made[x].part] = x
    BY <1>1, <1>2, OneUser
  <2>2. made[x].part = made[m].part
    BY DEF Good, Base, Placed
  <2> QED
    BY <2>1, <2>2
<1>9. /\ Lined(conns'[k].frames, log[p], last[p], X)
      /\ \A v : Upto(conns[k].frames, v) /\ Upto(made[m].queue, v) => Upto(conns'[k].frames, v)
  BY <1>1, <1>6, <1>7, JoinLine
<1>10. /\ Lined(made'[m].queue, log[p], last[p], X) /\ Ahead(conns'[k].frames, made'[m].queue, X)
       /\ nb => Counts(made'[m], conns'[k], last[p])
  BY <1>1, <1>6, <1>9, NoLine, ZenonT(30) DEF Counts
<1> HIDE DEF k, p
<1>11. \A j \in DOMAIN conns' : Lined(conns'[j].frames, log[conns'[j].part], last[conns'[j].part], X)
  BY <1>1, <1>4, <1>5, <1>9 DEF OrderIn
<1>12. ASSUME NEW x \in DOMAIN made
       PROVE  /\ Lined(made'[x].queue, log[made'[x].part], last[made'[x].part], X)
              /\ Ahead(conns'[made'[x].conn].frames, made'[x].queue, X)
              /\ nb => Counts(made'[x], conns'[made'[x].conn], last[made'[x].part])
  <2>1. CASE x = m
    BY <1>1, <1>10, <2>1
  <2>2. CASE x # m
    <3>1. made'[x] = made[x] /\ conns'[made[x].conn] = conns[made[x].conn]
      BY <1>1, <1>8, <2>2 DEF Good, Base, Placed
    <3> QED
      BY <1>4, <3>1 DEF OrderIn
  <2> QED
    BY <2>1, <2>2
<1> QED
  BY <1>1, <1>3, <1>4, <1>11, <1>12 DEF OrderIn

LEMMA ShutsOrder ==
  ASSUME Good, Good', OnceOnly, Further, Serial, Order, Shuts
  PROVE  Order'
<1> SUFFICES ASSUME plan'.serial, ~overtaken'
             PROVE  OrderIn(log', last', discarded', made', conns', Numbered(calls'), NoBasic(calls'))
  BY DEF Order
<1>1. /\ plan.serial /\ ~overtaken /\ MayStart("close")
      /\ log' = log /\ last' = last /\ discarded' = discarded
      /\ DOMAIN made' = DOMAIN made /\ DOMAIN conns' = DOMAIN conns
      /\ \A m \in DOMAIN made :
           /\ made'[m].part = made[m].part /\ made'[m].conn = made[m].conn /\ made'[m].id = made[m].id
           /\ made'[m].queue = IF m \in Open /\ conns[made[m].conn].up THEN <<>> ELSE made[m].queue
      /\ \A k \in DOMAIN conns :
           /\ conns'[k].part = conns[k].part /\ (conns'[k].up <=> conns[k].up)
           /\ \/ conns'[k] = conns[k]
              \/ \E m \in Open : /\ made[m].conn = k /\ conns[k].up
                                 /\ conns'[k].frames = conns[k].frames \o made[m].queue \o Goodbye(m)
  BY DEF Shuts, chosen, broker
<1>2. InTurn(publishers, made, conns, calls) /\ Opened(publishers, made, conns, calls)
  BY <1>1, Quiet DEF Serial
<1>3. PICK X, nb : X = Numbered(calls') /\ nb = NoBasic(calls')
  OBVIOUS
<1>4. OrderIn(log, last, discarded, made, conns, X, nb)
  BY <1>1, <1>3, Renumber
<1>5. \A m \in Open : m \in DOMAIN made /\ m \in Nat /\ conns[made[m].conn].up /\ publishers[made[m].part] = m
  BY <1>2, ClosersWait, Points, SMTT(30) DEF Good, TypeOK
<1>6. \A m \in DOMAIN made : made[m].conn \in DOMAIN conns /\ conns[made[m].conn].part = made[m].part
  BY DEF Good, Base, Placed
<1>7. ASSUME NEW m \in Open, conns'[made[m].conn].frames = conns[made[m].conn].frames \o made[m].queue \o Goodbye(m)
      PROVE  /\ Lined(conns'[made[m].conn].frames, log[made[m].part], last[made[m].part], X)
             /\ \A v : Upto(conns[made[m].conn].frames, v) /\ Upto(made[m].queue, v) => Upto(conns'[made[m].conn].frames, v)
  <2>1. PICK s, q, g, lg, n : /\ s = conns[made[m].conn].frames /\ q = made[m].queue /\ g = Goodbye(m)
                              /\ lg = log[made[m].part] /\ n = last[made[m].part]
    OBVIOUS
  <2>2. s \in Seq(Frames) /\ q \in Seq(Frames)
    BY <1>5, <1>6, <2>1, Points, PublisherFacts, ConnectionFacts DEF Good, TypeOK
  <2>3. Lined(s, lg, n, X) /\ Lined(q, lg, n, X) /\ Ahead(s, q, X)
    BY <1>4, <1>5, <1>6, <2>1 DEF OrderIn
  <2>4. /\ g \in Seq(Frames) /\ Lined(g, lg, n, X) /\ (\A v : Upto(g, v)) /\ Ahead(s \o q, g, X)
    BY <1>5, <2>1, GoodbyeLine
  <2>5. /\ s \o q \in Seq(Frames) /\ Lined(s \o q, lg, n, X)
        /\ \A v : Upto(s, v) /\ Upto(q, v) => Upto(s \o q, v)
    BY <2>2, <2>3, JoinLine
  <2>6. PICK u : u = s \o q
    OBVIOUS
  <2>7. Lined(u \o g, lg, n, X) /\ \A v : Upto(u, v) /\ Upto(g, v) => Upto(u \o g, v)
    BY <2>4, <2>5, <2>6, JoinLine
  <2>8. conns'[made[m].conn].frames = u \o g
    BY <1>7, <2>1, <2>6, ZenonT(30)
  <2> QED
    BY <2>1, <2>4, <2>5, <2>6, <2>7, <2>8, ZenonT(30)
<1>8. \A k \in DOMAIN conns' : Lined(conns'[k].frames, log[conns'[k].part], last[conns'[k].part], X)
  <2> SUFFICES ASSUME NEW k \in DOMAIN conns
               PROVE  Lined(conns'[k].frames, log[conns[k].part], last[conns[k].part], X)
    BY <1>1
  <2>1. CASE conns'[k] = conns[k]
    BY <1>4, <2>1, SMTT(30) DEF OrderIn
  <2>2. ASSUME NEW m \in Open, made[m].conn = k,
               conns'[k].frames = conns[k].frames \o made[m].queue \o Goodbye(m)
        PROVE  Lined(conns'[k].frames, log[conns[k].part], last[conns[k].part], X)
    <3>1. conns[k].part = made[m].part
      BY <1>5, <1>6, <2>2
    <3> QED
      BY <1>7, <2>2, <3>1
  <2> QED
    BY <1>1, <2>1, <2>2
<1>9. ASSUME NEW x \in DOMAIN made
      PROVE  /\ Lined(made'[x].queue, log[made'[x].part], last[made'[x].part], X)
             /\ Ahead(conns'[made'[x].conn].frames, made'[x].queue, X)
             /\ nb => Counts(made'[x], conns'[made'[x].conn], last[made'[x].part])
  <2>1. /\ Lined(made[x].queue, log[made[x].part], last[made[x].part], X)
        /\ Ahead(conns[made[x].conn].frames, made[x].queue, X)
        /\ nb => Counts(made[x], conns[made[x].conn], last[made[x].part])
    BY <1>4 DEF OrderIn
  <2>2. /\ made'[x].part = made[x].part /\ made'[x].conn = made[x].conn /\ made'[x].id = made[x].id
        /\ made'[x].queue = <<>> \/ made'[x].queue = made[x].queue
    BY <1>1
  <2>3. CASE conns'[made[x].conn] = conns[made[x].conn]
    BY <2>1, <2>2, <2>3, NoLine DEF Counts
  <2>4. ASSUME NEW m \in Open, made[m].conn = made[x].conn, conns[made[x].conn].up,
               conns'[made[x].conn].frames = conns[made[x].conn].frames \o made[m].queue \o Goodbye(m)
        PROVE  /\ Lined(made'[x].queue, log[made'[x].part], last[made'[x].part], X)
               /\ Ahead(conns'[made'[x].conn].frames, made'[x].queue, X)
               /\ nb => Counts(made'[x], conns'[made'[x].conn], last[made'[x].part])
    <3>1. x = m
      <4>1. publishers[made[x].part] = x
        BY <1>2, <2>4, OneUser
      <4> QED
        BY <1>5, <1>6, <2>4, <4>1
    <3>2. made'[x].queue = <<>>
      BY <1>1, <2>4, <3>1, SMTT(30)
    <3>3. \A v : Upto(conns[made[x].conn].frames, v) /\ Upto(made[x].queue, v) => Upto(conns'[made[x].conn].frames, v)
      BY <1>7, <2>4, <3>1
    <3> QED
      BY <2>1, <2>2, <2>4, <3>2, <3>3, NoLine DEF Counts
  <2> QED
    BY <1>1, <1>6, <2>3, <2>4, ZenonT(30)
<1> QED
  BY <1>1, <1>3, <1>4, <1>8, <1>9 DEF OrderIn

LEMMA FinishesOrder ==
  ASSUME Good, Good', OnceOnly, Further, Serial, Order, NEW k \in DOMAIN conns, Finishes(k)
  PROVE  Order'
<1> SUFFICES ASSUME plan'.serial, ~overtaken'
             PROVE  OrderIn(log', last', discarded', made', conns', Numbered(calls'), NoBasic(calls'))
  BY DEF Order
<1>1. /\ plan.serial /\ ~overtaken
      /\ log' = log /\ last' = last /\ discarded' = discarded
      /\ DOMAIN conns' = DOMAIN conns /\ ~conns'[k].up /\ conns'[k].frames = <<>>
      /\ \A j \in DOMAIN conns : j # k => conns'[j] = conns[j]
      /\ DOMAIN made' = DOMAIN made
      /\ \A m \in DOMAIN made : /\ made'[m].part = made[m].part /\ made'[m].conn = made[m].conn
                                /\ made'[m].id = made[m].id /\ made'[m].queue = made[m].queue
  BY DEF Finishes, chosen, broker
<1>2. PICK X, nb : X = Numbered(calls') /\ nb = NoBasic(calls')
  OBVIOUS
<1>3. OrderIn(log, last, discarded, made, conns, X, nb)
  BY <1>1, <1>2, Renumber
<1>4. \A j \in DOMAIN conns' : Lined(conns'[j].frames, log[conns'[j].part], last[conns'[j].part], X)
  BY <1>1, <1>3, NoLine DEF OrderIn
<1>5. ASSUME NEW x \in DOMAIN made
      PROVE  /\ Lined(made'[x].queue, log[made'[x].part], last[made'[x].part], X)
             /\ Ahead(conns'[made'[x].conn].frames, made'[x].queue, X)
             /\ nb => Counts(made'[x], conns'[made'[x].conn], last[made'[x].part])
  <2>1. /\ Lined(made[x].queue, log[made[x].part], last[made[x].part], X)
        /\ Ahead(conns[made[x].conn].frames, made[x].queue, X)
        /\ nb => Counts(made[x], conns[made[x].conn], last[made[x].part])
    BY <1>3 DEF OrderIn
  <2>2. CASE made[x].conn = k
    <3>1. DOMAIN <<>> = {}
      OBVIOUS
    <3> QED
      BY <1>1, <2>1, <2>2, <3>1 DEF Ahead, Counts
  <2>3. CASE made[x].conn # k
    <3>1. conns'[made[x].conn] = conns[made[x].conn]
      BY <1>1, <2>3 DEF Good, Base, Placed
    <3> QED
      BY <1>1, <2>1, <3>1 DEF Counts
  <2> QED
    BY <2>2, <2>3
<1> QED
  BY <1>1, <1>2, <1>3, <1>4, <1>5 DEF OrderIn

(* The broker has read the first frame of s.                               *)
LEMMA ReadLine ==
  ASSUME NEW s \in Seq(Frames), s # <<>>, NEW f, f = Head(s), f.call # 0, NEW X, NEW lg, NEW n, Lined(s, lg, n, X)
  PROVE  /\ Lined(Tail(s), lg, n, X) /\ f.call \in Nat /\ f.id \in Nat
         /\ \A v : Upto(s, v) => Upto(Tail(s), v) /\ f.id <= v
         /\ \A t : Ahead(s, t, X) => /\ Ahead(Tail(s), t, X)
                                     /\ \A j \in DOMAIN t : Before(f, t[j], X)
         /\ \A j \in DOMAIN Tail(s) : Before(f, Tail(s)[j], X)
         /\ (\A j \in DOMAIN lg : lg[j] < f.call) /\ (f.call \in X => n < f.id)
<1>1. PICK t : t = Tail(s)
  OBVIOUS
<1>2. /\ InOrder(t, X) /\ f \in Frames /\ (\A j \in DOMAIN t : Before(f, t[j], X))
      /\ (\A j \in DOMAIN t : \E i \in DOMAIN s : t[j] = s[i]) /\ 1 \in DOMAIN s /\ f = s[1]
  BY <1>1, OneLess DEF Lined, Of
<1>3. Past(s, lg, n, X)
  BY DEF Lined
<1>4. Past(t, lg, n, X)
  BY <1>2, <1>3 DEF Past
<1>5. \A v : Upto(s, v) => Upto(t, v) /\ f.id <= v
  BY <1>2 DEF Upto
<1>6. \A u : Ahead(s, u, X) => Ahead(t, u, X) /\ \A j \in DOMAIN u : Before(f, u[j], X)
  BY <1>2 DEF Ahead
<1>7. f.call \in Nat /\ f.id \in Nat
  BY <1>2 DEF Frames
<1>8. (\A j \in DOMAIN lg : lg[j] < f.call) /\ (f.call \in X => n < f.id)
  BY <1>2, <1>3 DEF Past
<1> QED
  BY <1>1, <1>2, <1>4, <1>5, <1>6, <1>7, <1>8 DEF Lined

(* The broker has stored it: what follows is still later.                  *)
LEMMA StoredLine ==
  ASSUME NEW f, f.call \in Nat, f.call # 0, NEW X, NEW lg \in Seq(Nat), NEW n, NEW t \in Seq(Frames), Lined(t, lg, n, X),
         \A j \in DOMAIN t : Before(f, t[j], X)
  PROVE  Lined(t, Append(lg, f.call), f.id, X)
<1>1. PICK l : l = Append(lg, f.call)
  OBVIOUS
<1>2. \A j \in DOMAIN l : l[j] = f.call \/ (j \in DOMAIN lg /\ l[j] = lg[j])
  <2>1. /\ DOMAIN lg = 1 .. Len(lg) /\ DOMAIN l = 1 .. Len(lg) + 1 /\ Len(lg) \in Nat
        /\ l[Len(lg) + 1] = f.call /\ \A j \in DOMAIN lg : l[j] = lg[j]
    BY <1>1, Appended
  <2>2. \A j \in DOMAIN l : j \in DOMAIN lg \/ j = Len(lg) + 1
    BY <2>1
  <2> QED
    BY <2>1, <2>2
<1>3. Past(t, l, f.id, X)
  BY <1>2 DEF Lined, Past, Before
<1> QED
  BY <1>1, <1>3 DEF Lined

LEMMA StoresOrder ==
  ASSUME Good, Good', OnceOnly, Further, Serial, Order, NEW k \in DOMAIN conns, Stores(k)
  PROVE  Order'
<1> SUFFICES ASSUME plan'.serial, ~overtaken'
             PROVE  OrderIn(log', last', discarded', made', conns', Numbered(calls'), NoBasic(calls'))
  BY DEF Order
<1>1. PICK f, p, s : f = Head(conns[k].frames) /\ p = conns[k].part /\ s = conns[k].frames
  OBVIOUS
<1>2. /\ plan.serial /\ ~overtaken /\ conns[k].up /\ s # <<>> /\ f.call # 0 /\ f = Head(s)
      /\ DOMAIN conns' = DOMAIN conns
      /\ conns'[k].part = p /\ (conns'[k].up <=> conns[k].up) /\ conns'[k].frames = Tail(s)
      /\ \A j \in DOMAIN conns : j # k => conns'[j] = conns[j]
      /\ \A q \in Partitions : q # p => last'[q] = last[q] /\ log'[q] = log[q]
      /\ \/ /\ f.id > last[p] /\ last'[p] = f.id /\ log'[p] = Append(log[p], f.call)
            /\ UNCHANGED discarded
         \/ /\ f.id <= last[p] /\ discarded' = discarded \cup {<<p, f.call>>}
            /\ UNCHANGED <<last, log>>
      /\ made' = made
  BY <1>1 DEF Stores, chosen
<1>3. PICK X, nb : X = Numbered(calls') /\ nb = NoBasic(calls')
  OBVIOUS
<1>4. OrderIn(log, last, discarded, made, conns, X, nb)
  BY <1>2, <1>3, Renumber
<1>5. InTurn(publishers, made, conns, calls)
  BY <1>2 DEF Serial
<1>6. /\ s \in Seq(Frames) /\ p \in Partitions /\ log[p] \in Seq(Nat) /\ last[p] \in Int
      /\ \A j \in DOMAIN conns : conns[j].part \in Partitions
      /\ \A m \in DOMAIN made : made[m].part \in Partitions /\ made[m].queue \in Seq(Frames)
  BY <1>1, Points, PublisherFacts, ConnectionFacts DEF Good, TypeOK
<1>7. \A m \in DOMAIN made : made[m].conn \in DOMAIN conns /\ conns[made[m].conn].part = made[m].part
  BY DEF Good, Base, Placed
<1>8. Lined(s, log[p], last[p], X)
  BY <1>1, <1>4 DEF OrderIn
<1>9. /\ Lined(Tail(s), log[p], last[p], X) /\ f.call \in Nat /\ f.id \in Nat
      /\ \A v : Upto(s, v) => Upto(Tail(s), v) /\ f.id <= v
      /\ \A t : Ahead(s, t, X) => Ahead(Tail(s), t, X) /\ \A j \in DOMAIN t : Before(f, t[j], X)
      /\ \A j \in DOMAIN Tail(s) : Before(f, Tail(s)[j], X)
      /\ (\A j \in DOMAIN log[p] : log[p][j] < f.call) /\ (f.call \in X => last[p] < f.id)
  BY <1>2, <1>6, <1>8, ReadLine
<1>10. \/ /\ last'[p] = f.id /\ log'[p] = Append(log[p], f.call) /\ discarded' = discarded
       \/ /\ last' = last /\ log' = log /\ discarded' = discarded \cup {<<p, f.call>>} /\ f.call \notin X
  BY <1>2, <1>6, <1>9
<1>11. \A t \in Seq(Frames) : Lined(t, log[p], last[p], X) /\ (\A j \in DOMAIN t : Before(f, t[j], X)) =>
         Lined(t, log'[p], last'[p], X)
  <2> SUFFICES ASSUME NEW t \in Seq(Frames), Lined(t, log[p], last[p], X), \A j \in DOMAIN t : Before(f, t[j], X)
               PROVE  Lined(t, log'[p], last'[p], X)
    OBVIOUS
  <2>1. PICK lg, n : lg = log[p] /\ n = last[p]
    OBVIOUS
  <2>2. lg \in Seq(Nat) /\ Lined(t, lg, n, X)
    BY <1>6, <2>1
  <2>3. Lined(t, Append(lg, f.call), f.id, X)
    BY <1>2, <1>9, <2>2, StoredLine
  <2>4. CASE last'[p] = f.id /\ log'[p] = Append(log[p], f.call)
    BY <2>1, <2>3, <2>4
  <2>5. CASE last' = last /\ log' = log
    BY <2>5, SMTT(30)
  <2> QED
    BY <1>10, <2>4, <2>5
<1>12. Owns(publishers, made, k, p)
  <2>1. /\ k \in DOMAIN conns /\ conns[k].up /\ conns[k].part = p /\ conns[k].frames # <<>>
    BY <1>1, <1>2
  <2>2. CASE Opened(publishers, made, conns, calls)
    BY <2>1, <2>2 DEF Opened
  <2>3. CASE Ending(publishers, made, conns)
    BY <2>1, <2>3 DEF Ending
  <2> QED
    BY <1>5, <2>2, <2>3 DEF InTurn
<1>13. \A j \in DOMAIN conns : j # k /\ conns[j].part = p => conns[j].frames = <<>>
  <2> SUFFICES ASSUME NEW j \in DOMAIN conns, j # k, conns[j].part = p, conns[j].up PROVE FALSE
    BY DEF Good, Base, Placed
  <2> QED
    BY <1>5, <1>12 DEF InTurn, Opened, Ending, Owns
<1>14. \A m \in DOMAIN made : m # publishers[p] /\ made[m].part = p => made[m].queue = <<>> /\ ~conns[made[m].conn].up
  <2> SUFFICES ASSUME NEW m \in DOMAIN made, m # publishers[p], made[m].part = p
               PROVE  made[m].queue = <<>> /\ ~conns[made[m].conn].up
    OBVIOUS
  <2>1. \A q \in Partitions : publishers[q] # m
    <3>1. m # 0
      BY Points DEF Good, TypeOK
    <3> QED
      BY <3>1 DEF Good, Base, Placed
  <2> QED
    BY <1>5, <2>1 DEF InTurn, Opened, Ending, Gone, Over
<1>15. Tail(s) \in Seq(Frames)
  BY <1>2, <1>6, OneLess
<1>16. ASSUME NEW j \in DOMAIN conns'
       PROVE  Lined(conns'[j].frames, log'[conns'[j].part], last'[conns'[j].part], X)
  <2>1. CASE j = k
    BY <1>2, <1>9, <1>11, <1>15, <2>1
  <2>2. CASE j # k /\ conns[j].part = p
    BY <1>2, <1>13, <2>2, NoLine
  <2>3. CASE j # k /\ conns[j].part # p
    <3>1. conns'[j] = conns[j] /\ j \in DOMAIN conns
      BY <1>2, <2>3
    <3>2. last'[conns[j].part] = last[conns[j].part] /\ log'[conns[j].part] = log[conns[j].part]
      BY <1>2, <1>6, <2>3, <3>1
    <3> QED
      BY <1>4, <3>1, <3>2 DEF OrderIn
  <2> QED
    BY <2>1, <2>2, <2>3
<1>17. ASSUME NEW m \in DOMAIN made
       PROVE  /\ Lined(made[m].queue, log'[made[m].part], last'[made[m].part], X)
              /\ Ahead(conns'[made[m].conn].frames, made[m].queue, X)
              /\ nb => Counts(made[m], conns'[made[m].conn], last'[made[m].part])
  <2>1. /\ Lined(made[m].queue, log[made[m].part], last[made[m].part], X)
        /\ Ahead(conns[made[m].conn].frames, made[m].queue, X)
        /\ nb => Counts(made[m], conns[made[m].conn], last[made[m].part])
    BY <1>4 DEF OrderIn
  <2>2. CASE made[m].part # p
    <3>1. last'[made[m].part] = last[made[m].part] /\ log'[made[m].part] = log[made[m].part]
      BY <1>2, <1>6, <2>2
    <3>2. conns'[made[m].conn] = conns[made[m].conn]
      BY <1>1, <1>2, <1>7, <2>2
    <3> QED
      BY <2>1, <3>1, <3>2
  <2>3. CASE made[m].part = p /\ m # publishers[p]
    <3>1. made[m].queue = <<>> /\ made[m].conn # k
      BY <1>2, <1>14, <2>3
    <3>2. conns'[made[m].conn] = conns[made[m].conn] /\ ~conns[made[m].conn].up
      BY <1>2, <1>7, <1>14, <2>3, <3>1
    <3> QED
      BY <3>1, <3>2, NoLine DEF Counts
  <2>4. CASE made[m].part = p /\ m = publishers[p]
    <3>1. made[m].conn = k
      BY <1>12, <2>4 DEF Owns
    <3>2. Ahead(s, made[m].queue, X) /\ (nb => Counts(made[m], conns[k], last[p])) /\ Lined(made[m].queue, log[p], last[p], X)
      BY <1>1, <2>1, <2>4, <3>1
    <3>3. Lined(made[m].queue, log'[p], last'[p], X) /\ Ahead(Tail(s), made[m].queue, X)
      BY <1>6, <1>9, <1>11, <3>2
    <3>4. nb => Counts(made[m], conns'[k], last'[p])
      <4>1. SUFFICES ASSUME nb PROVE last'[p] <= made[m].id /\ Upto(made[m].queue, made[m].id) /\ Upto(Tail(s), made[m].id)
        BY <1>2 DEF Counts
      <4>2. last[p] <= made[m].id /\ Upto(made[m].queue, made[m].id) /\ Upto(s, made[m].id)
        BY <1>1, <1>2, <3>2, <4>1 DEF Counts
      <4> QED
        BY <1>9, <1>10, <4>2
    <3> QED
      BY <1>2, <2>4, <3>1, <3>3, <3>4
  <2> QED
    BY <2>2, <2>3, <2>4
<1>18. ASSUME NEW q \in Partitions PROVE Increasing(log'[q])
  <2>1. Increasing(log[q])
    BY <1>4 DEF OrderIn
  <2>2. CASE log'[q] = log[q]
    BY <2>1, <2>2
  <2>3. CASE q = p /\ log'[p] = Append(log[p], f.call)
    <3>1. PICK l, h : l = log'[p] /\ h = log[p] /\ l = Append(h, f.call)
      BY <2>3
    <3>2. /\ DOMAIN h = 1 .. Len(h) /\ DOMAIN l = 1 .. Len(h) + 1 /\ Len(h) \in Nat
          /\ l[Len(h) + 1] = f.call /\ \A j \in DOMAIN h : l[j] = h[j]
      BY <1>6, <1>9, <3>1, Appended
    <3>3. Increasing(h) /\ \A j \in DOMAIN h : h[j] < f.call
      BY <1>9, <2>1, <2>3, <3>1
    <3>4. ASSUME NEW i \in DOMAIN l, NEW j \in DOMAIN l, i < j PROVE l[i] < l[j]
      <4>1. i \in DOMAIN h
        BY <3>2, <3>4
      <4>2. j \in DOMAIN h \/ j = Len(h) + 1
        BY <3>2
      <4> QED
        BY <3>2, <3>3, <3>4, <4>1, <4>2 DEF Increasing
    <3> QED
      BY <2>3, <3>1, <3>4 DEF Increasing
  <2> QED
    BY <1>2, <1>10, <2>2, <2>3
<1>19. \A q \in Partitions, c \in Nat : <<q, c>> \in discarded' => c \notin X
  BY <1>4, <1>10 DEF OrderIn
<1> QED
  BY <1>2, <1>3, <1>16, <1>17, <1>18, <1>19 DEF OrderIn

LEMMA OrderStep ==
  ASSUME Good, Good', OnceOnly, Further, Serial, Order, Event
  PROVE  Order'
<1>1. ASSUME NEW op, NEW keys, MayStart(op), Begins(op, keys), UNCHANGED <<chosen, binding, broker, used>>
      PROVE  Order'
  BY <1>1, BeginsOrder
<1>2. CASE Shuts
  BY <1>2, ShutsOrder
<1>3. ASSUME NEW m \in DOMAIN made, Flushes(m) PROVE Order'
  BY <1>3, FlushesOrder
<1>4. ASSUME NEW c \in DOMAIN calls, NEW p \in Partitions, NEW k \in Nat, Declares(c, p, k),
             UNCHANGED <<chosen, binding, cache, broker, used>>
      PROVE  Order'
  <2>1. /\ \A j \in DOMAIN conns : j \in DOMAIN conns' /\ conns'[j] = conns[j]
        /\ \A j \in DOMAIN conns' : j \in DOMAIN conns \/ conns'[j].frames = <<>>
        /\ UNCHANGED <<made, broker, overtaken>> /\ plan' = plan
    BY <1>4 DEF Declares, chosen
  <2> QED
    BY <2>1, SameOrder
<1>5. ASSUME NEW c \in DOMAIN calls, Refuses(c) PROVE Order'
  <2>1. conns' = conns /\ UNCHANGED <<made, broker, overtaken>> /\ plan' = plan
    BY <1>5 DEF Refuses, Silent, chosen
  <2> QED
    BY <2>1, SameOrder
<1>6. ASSUME NEW c \in DOMAIN calls, NEW k \in Keys, Answers(c, k), UNCHANGED <<chosen, binding, broker, used>>
      PROVE  Order'
  BY <1>6, AnswersOrder
<1>7. ASSUME NEW c \in DOMAIN calls, NEW p \in Partitions, Constructs(c, p),
             UNCHANGED <<chosen, binding, cache, broker, used>>
      PROVE  Order'
  BY <1>7, ConstructsOrder
<1>8. ASSUME NEW k \in DOMAIN conns, Stores(k) PROVE Order'
  BY <1>8, StoresOrder
<1>9. ASSUME NEW k \in DOMAIN conns, Finishes(k) PROVE Order'
  BY <1>9, FinishesOrder
<1>10. CASE Idle
  <2>1. conns' = conns /\ UNCHANGED <<made, broker, overtaken>> /\ plan' = plan
    BY <1>10 DEF Idle, chosen
  <2> QED
    BY <2>1, SameOrder
<1> QED
  BY <1>1, <1>2, <1>3, <1>4, <1>5, <1>6, <1>7, <1>8, <1>9, <1>10 DEF Event

(* What the broker discards is the message of a call.                      *)
Named == \A p \in Partitions : <<p, 0>> \notin discarded

LEMMA NamedStep ==
  ASSUME Named, Event
  PROVE  Named'
<1>1. CASE UNCHANGED broker
  BY <1>1 DEF Named, broker
<1>2. ASSUME NEW k \in DOMAIN conns, Stores(k) PROVE Named'
  <2>1. \/ discarded' = discarded
        \/ /\ discarded' = discarded \cup {<<conns[k].part, Head(conns[k].frames).call>>}
           /\ Head(conns[k].frames).call # 0
    BY <1>2 DEF Stores
  <2>2. PICK q, n : q = conns[k].part /\ n = Head(conns[k].frames).call
    OBVIOUS
  <2>3. \A p \in Partitions : <<p, 0>> = <<q, n>> => n = 0
    OBVIOUS
  <2> QED
    BY <2>1, <2>2, <2>3 DEF Named
<1>3. ASSUME NEW k \in DOMAIN conns, Finishes(k) PROVE UNCHANGED broker
  BY <1>3 DEF Finishes
<1>4. ASSUME NEW m \in DOMAIN made, Flushes(m) PROVE UNCHANGED broker
  BY <1>4 DEF Flushes
<1>5. ASSUME NEW c, Refuses(c) PROVE UNCHANGED broker
  BY <1>5 DEF Refuses
<1>6. Shuts \/ Idle => UNCHANGED broker
  BY DEF Shuts, Idle
<1> QED
  BY <1>1, <1>2, <1>3, <1>4, <1>5, <1>6 DEF Event

Numbering == Good /\ OnceOnly /\ Serial /\ Order /\ Named

LEMMA FirstNumbering == Init => Numbering
BY FirstIsGood, FirstIsOnce, FirstIsSerial, FirstIsOrder DEF Numbering, Named, Init

LEMMA NumberingStep == Numbering /\ [Next]_vars => Numbering'
<1> SUFFICES ASSUME Numbering, [Next]_vars PROVE Numbering'
  OBVIOUS
<1>1. Good /\ OnceOnly /\ Serial /\ Order /\ Named
  BY DEF Numbering
<1>2. Good' /\ Further /\ Event
  BY <1>1, StepIs
<1>3. OnceOnly'
  BY <1>1, OnceStep
<1>4. Serial'
  BY <1>1, <1>2, SerialStep
<1>5. Order'
  BY <1>1, <1>2, OrderStep
<1>6. Named'
  BY <1>1, <1>2, NamedStep
<1> QED
  BY <1>2, <1>3, <1>4, <1>5, <1>6 DEF Numbering

(* A message of a call to send, in a partition of its own, is not among    *)
(* the discarded ones, as no number a publisher counts is given twice.     *)
LEMMA NoneIsDiscarded == Numbering => NextIdIsValid
<1> SUFFICES ASSUME Numbering, Orderly, NEW d \in discarded PROVE calls[d[2]].op # "send"
  BY DEF NextIdIsValid
<1>1. Good /\ OnceOnly /\ Order /\ Named
  BY DEF Numbering
<1>2. PICK p \in Partitions, c \in Nat : d = <<p, c>>
  BY <1>1 DEF Good, TypeOK
<1>3. c # 0 /\ d[2] = c
  BY <1>1, <1>2 DEF Named
<1>4. c \in DOMAIN calls
  BY <1>1, <1>2, <1>3, Known
<1>5. c \notin Numbered(calls)
  BY <1>1, <1>2 DEF Order, OrderIn, Orderly
<1> QED
  BY <1>3, <1>4, <1>5 DEF Numbered, NoBasic, Orderly

(* Publishing ids: a message sent without one, by calls made in turn, is   *)
(* never taken for a duplicate by the broker, over any number of closes    *)
(* and of publishers that count from what the broker has.                  *)
THEOREM CountedIdsAreNew == Spec => []NextIdIsValid
<1>1. Numbering => NextIdIsValid
  BY NoneIsDiscarded
<1> QED
  BY <1>1, FirstNumbering, NumberingStep, PTL DEF Spec

(* Calls to a super stream publisher made in turn are stored in their      *)
(* order, in each partition, whatever is closed and opened between them.   *)
THEOREM StoredAsSent == Spec => []StoredInCallOrder
<1>1. Numbering => StoredInCallOrder
  BY DEF Numbering, Order, OrderIn, Increasing, StoredInCallOrder
<1> QED
  BY <1>1, FirstNumbering, NumberingStep, PTL DEF Spec

-----------------------------------------------------------------------------
(* The outbox of the example.                                              *)

(* An increasing sequence has as many elements as members.                 *)
LEMMA CountsThem ==
  ASSUME NEW s \in Seq(Nat), Increasing(s)
  PROVE  IsFiniteSet(ToSet(s)) /\ Cardinality(ToSet(s)) = Len(s)
<1>1. Len(s) \in Nat /\ DOMAIN s = 1 .. Len(s) /\ \A i \in 1 .. Len(s) : s[i] \in Nat
  OBVIOUS
<1>2. s \in Surjection(1 .. Len(s), ToSet(s))
  BY <1>1 DEF Surjection, ToSet
<1>3. \A i, j \in 1 .. Len(s) : s[i] = s[j] => i = j
  BY <1>1 DEF Increasing
<1>4. s \in Injection(1 .. Len(s), ToSet(s))
  BY <1>1, <1>3 DEF Injection, IsInjective, ToSet
<1>5. IsFiniteSet(1 .. Len(s)) /\ Cardinality(1 .. Len(s)) = Len(s)
  BY <1>1, FS_Interval
<1> QED
  BY <1>2, <1>4, <1>5, FS_Surjection

(* Of an increasing sequence, what is smaller than the rest comes first.   *)
LEMMA ComesFirst ==
  ASSUME NEW s \in Seq(Nat), Increasing(s), NEW P, P \subseteq ToSet(s),
         \A x \in P : \A y \in ToSet(s) \ P : x < y
  PROVE  /\ IsFiniteSet(P) /\ Cardinality(P) \in 0 .. Len(s)
         /\ \A i \in DOMAIN s : (i <= Cardinality(P) <=> s[i] \in P)
<1> DEFINE l == Len(s)
<1>1. l \in Nat /\ DOMAIN s = 1 .. l /\ \A i \in 1 .. l : s[i] \in Nat /\ s[i] \in ToSet(s)
  BY DEF ToSet
<1>2. \A i, j \in 1 .. l : i < j /\ s[j] \in P => s[i] \in P
  BY <1>1, SMTT(30) DEF Increasing
<1>3. PICK k \in 0 .. l : \A i \in 1 .. l : (i <= k <=> s[i] \in P)
  <2>1. CASE \A i \in 1 .. l : s[i] \in P
    <3>1. l \in 0 .. l /\ \A i \in 1 .. l : i <= l
      BY <1>1
    <3> QED
      BY <2>1, <3>1
  <2>2. CASE \E i \in 1 .. l : s[i] \notin P
    <3> DEFINE T == {i \in 1 .. l : s[i] \notin P}
    <3>1. T \subseteq Nat /\ T # {}
      BY <2>2
    <3>2. PICK m \in T : \A i \in T : m <= i
      BY <3>1, Least
    <3>3. m \in 1 .. l /\ s[m] \notin P /\ m - 1 \in 0 .. l
      BY <1>1, <3>2
    <3>4. ASSUME NEW i \in 1 .. l PROVE (i <= m - 1 <=> s[i] \in P)
      <4>1. s[i] \in P => i < m
        BY <1>2, <3>3
      <4>2. s[i] \notin P => m <= i
        BY <3>2
      <4> QED
        BY <3>3, <4>1, <4>2
    <3> QED
      BY <3>3, <3>4
  <2> QED
    BY <2>1, <2>2
<1>4. /\ IsFiniteSet(1 .. k) /\ Cardinality(1 .. k) = k
  BY <1>1, FS_Interval
<1> DEFINE f == [i \in 1 .. k |-> s[i]]
<1>5. P = {s[i] : i \in 1 .. k}
  <2>1. ASSUME NEW x \in P PROVE \E i \in 1 .. k : x = s[i]
    <3>1. PICK i \in 1 .. l : x = s[i]
      BY <1>1 DEF ToSet
    <3>2. i <= k /\ i \in 1 .. k
      BY <1>1, <1>3, <3>1
    <3> QED
      BY <3>1, <3>2
  <2>2. ASSUME NEW i \in 1 .. k PROVE s[i] \in P
    <3>1. i \in 1 .. l /\ i <= k
      BY <1>1
    <3> QED
      BY <1>3, <3>1
  <2> QED
    BY <2>1, <2>2
<1>6. f \in Surjection(1 .. k, P)
  BY <1>5 DEF Surjection
<1>7. f \in Injection(1 .. k, P)
  <2>1. \A i, j \in 1 .. k : f[i] = f[j] => i = j
    BY <1>1, <1>3 DEF Increasing
  <2> QED
    BY <1>5, <2>1 DEF Injection, IsInjective
<1> HIDE DEF f
<1>8. IsFiniteSet(P) /\ Cardinality(P) = k
  BY <1>4, <1>6, <1>7, FS_Surjection
<1> QED
  BY <1>1, <1>3, <1>8

-----------------------------------------------------------------------------
(* The invariant.                                                          *)

Pending == [message : Nat, id : Nat]
SentOnes == ToSet(sent)
Waiting == ToSet(messageIds)

OutboxTypes ==
  /\ neighbour \in BOOLEAN /\ maxChunkLength \in Nat \ {0}
  /\ messageIds \in Seq(Nat) /\ offset \in Int
  /\ lastId \in Nat /\ sent \in Seq(Nat) /\ Len(sent) = lastId
  /\ ticks \in Seq(Pending) /\ queue \in Seq(1 .. lastId)
  /\ wire \in Seq(Seq(1 .. lastId)) /\ stored \subseteq 1 .. lastId
  /\ confirms \in Seq(SUBSET Nat) /\ waited \in BOOLEAN

(* The outbox holds what was generated in order, and what is not in it was *)
(* sent; what an id stands for, in the map and in a tick that waits, is    *)
(* what was sent under it.                                                 *)
UpTo(n) == Waiting \cup SentOnes = 1 .. n
OutboxInv ==
  /\ OutboxTypes
  /\ Increasing(messageIds) /\ messages = Waiting
  /\ \E n \in Nat : UpTo(n)
  /\ \A p \in DOMAIN publishingIds : p \in 1 .. lastId /\ publishingIds[p] = sent[p]
  /\ \A i \in DOMAIN ticks : ticks[i].id \in 1 .. lastId /\ sent[ticks[i].id] = ticks[i].message

(* Without a neighbour, a confirm is for what is stored.                   *)
Forgets ==
  ~neighbour => /\ \A i \in DOMAIN confirms : confirms[i] \subseteq stored
                /\ \A m \in SentOnes : m \in Waiting \cup StoredMessages

(* While no tick had to wait, the offset counts the messages in the outbox *)
(* that were sent, and they come before the others.                        *)
Parts ==
  ~waited => /\ ticks = <<>>
             /\ offset = Cardinality(Waiting \cap SentOnes)
             /\ \A x \in Waiting \cap SentOnes : \A y \in Waiting \ SentOnes : x < y

Inv == OutboxInv /\ Forgets /\ Parts

LEMMA GeneratedIs ==
  ASSUME OutboxInv, NEW n \in Nat, UpTo(n)
  PROVE  Generated = n
<1>1. IsFiniteSet(Waiting) /\ Cardinality(Waiting) = Len(messageIds)
  BY CountsThem DEF OutboxInv, OutboxTypes, Waiting
<1>2. IsFiniteSet(1 .. n) /\ Cardinality(1 .. n) = n
  BY FS_Interval
<1> DEFINE gone == SentOnes \ Waiting
<1>3. gone \subseteq 1 .. n /\ (1 .. n) \ Waiting = gone /\ (1 .. n) \cap Waiting = Waiting
  BY DEF UpTo
<1>4. Cardinality(gone) = n - Len(messageIds)
  <2>1. Cardinality((1 .. n) \ Waiting) = Cardinality(1 .. n) - Cardinality((1 .. n) \cap Waiting)
    BY <1>2, FS_Difference
  <2> HIDE DEF gone
  <2> QED
    BY <1>1, <1>2, <1>3, <2>1
<1> QED
  BY <1>4 DEF Generated, SentOnes, Waiting, OutboxInv, OutboxTypes

LEMMA InitInv == OutboxInit => Inv
<1> SUFFICES ASSUME OutboxInit PROVE Inv
  OBVIOUS
<1>1. /\ messageIds = <<>> /\ messages = {} /\ publishingIds = <<>> /\ offset = 0
      /\ ticks = <<>> /\ lastId = 0 /\ queue = <<>> /\ sent = <<>>
      /\ wire = <<>> /\ stored = {} /\ confirms = <<>> /\ waited = FALSE
  BY DEF OutboxInit
<1>2. DOMAIN <<>> = {} /\ <<>> \in Seq(Nat) /\ Len(<<>>) = 0
  OBVIOUS
<1>3. OutboxTypes
  <2>1. neighbour \in BOOLEAN /\ maxChunkLength \in Nat \ {0}
    BY OutboxAssumption DEF OutboxInit
  <2>2. \A S : <<>> \in Seq(S)
    OBVIOUS
  <2>3. /\ messageIds \in Seq(Nat) /\ sent \in Seq(Nat) /\ ticks \in Seq(Pending)
        /\ queue \in Seq(1 .. lastId) /\ wire \in Seq(Seq(1 .. lastId)) /\ confirms \in Seq(SUBSET Nat)
    BY <1>1, <2>2, Zenon
  <2>4. offset \in Int /\ lastId \in Nat /\ Len(sent) = lastId /\ stored \subseteq 1 .. lastId
    BY <1>1, <1>2
  <2>5. waited \in BOOLEAN
    BY <1>1, Zenon
  <2> QED
    BY <2>1, <2>3, <2>4, <2>5 DEF OutboxTypes
<1>4. Waiting = {} /\ SentOnes = {}
  BY <1>1, <1>2 DEF Waiting, SentOnes, ToSet
<1>5. \E n \in Nat : UpTo(n)
  <2>1. 1 .. 0 = {}
    OBVIOUS
  <2> QED
    BY <1>4, <2>1 DEF UpTo
<1>6. OutboxInv
  BY <1>1, <1>2, <1>3, <1>4, <1>5 DEF OutboxInv, Increasing
<1>7. Forgets
  BY <1>1, <1>2, <1>4 DEF Forgets
<1>8. Parts
  BY <1>1, <1>4, FS_EmptySet DEF Parts
<1> QED
  BY <1>6, <1>7, <1>8 DEF Inv

-----------------------------------------------------------------------------
(* The steps.                                                              *)

(* Steps that neither send nor confirm: what is on its way changes.        *)
LEMMA OnTheWayKept ==
  ASSUME Inv, UNCHANGED <<maxChunkLength, neighbour, outbox, lastId, sent, waited>>,
         ticks' \in Seq(Pending), \A i \in DOMAIN ticks' : \E j \in DOMAIN ticks : ticks'[i] = ticks[j],
         queue' \in Seq(1 .. lastId), wire' \in Seq(Seq(1 .. lastId)),
         stored \subseteq stored', stored' \subseteq 1 .. lastId, confirms' \in Seq(SUBSET Nat),
         ~neighbour => \A i \in DOMAIN confirms' : confirms'[i] \subseteq stored',
         ticks = <<>> => ticks' = <<>>
  PROVE  Inv'
<1>1. /\ messageIds' = messageIds /\ messages' = messages /\ publishingIds' = publishingIds
      /\ offset' = offset /\ Waiting' = Waiting /\ SentOnes' = SentOnes
  BY DEF outbox, Waiting, SentOnes
<1>2. OutboxInv /\ Forgets /\ Parts
  BY DEF Inv
<1>3. OutboxTypes'
  BY <1>1, <1>2 DEF OutboxInv, OutboxTypes
<1>4. OutboxInv'
  <2>1. \A i \in DOMAIN ticks' : ticks'[i].id \in 1 .. lastId /\ sent[ticks'[i].id] = ticks'[i].message
    BY <1>2 DEF OutboxInv
  <2>2. \E n \in Nat : UpTo(n)'
    BY <1>1, <1>2 DEF OutboxInv, UpTo
  <2> QED
    BY <1>1, <1>2, <1>3, <2>1, <2>2 DEF OutboxInv, Increasing
<1>5. Forgets'
  BY <1>1, <1>2 DEF Forgets, StoredMessages
<1>6. Parts'
  BY <1>1, <1>2 DEF Parts
<1> QED
  BY <1>4, <1>5, <1>6 DEF Inv

(* A new message goes behind all the others.                               *)
LEMMA ProductionKept == Inv /\ scheduleMessageProduction => Inv'
<1> SUFFICES ASSUME Inv, scheduleMessageProduction PROVE Inv'
  OBVIOUS
<1>1. OutboxInv /\ Forgets /\ Parts /\ OutboxTypes
  BY DEF Inv, OutboxInv
<1>2. PICK n \in Nat : UpTo(n)
  BY <1>1 DEF OutboxInv
<1> DEFINE x == n + 1
           l == Len(messageIds)
<1>3. /\ messageIds' = Append(messageIds, x) /\ messages' = messages \cup {x}
      /\ UNCHANGED <<maxChunkLength, neighbour, publishingIds, offset, ticks, publisher, link, wire,
                     stored, confirms, waited, drops>>
  BY <1>1, <1>2, GeneratedIs DEF scheduleMessageProduction
<1>4. lastId' = lastId /\ queue' = queue /\ sent' = sent /\ SentOnes' = SentOnes
  BY <1>3 DEF publisher, SentOnes
<1>5. /\ messageIds' \in Seq(Nat) /\ l \in Nat /\ DOMAIN messageIds = 1 .. l
      /\ DOMAIN messageIds' = 1 .. l + 1 /\ messageIds'[l + 1] = x
      /\ \A i \in 1 .. l : messageIds'[i] = messageIds[i]
  BY <1>1, <1>3, AppendProperties DEF OutboxTypes
<1>6. Waiting' = Waiting \cup {x}
  <2>1. \A i \in 1 .. l + 1 : i \in 1 .. l \/ i = l + 1
    BY <1>5
  <2>2. 1 .. l \subseteq 1 .. l + 1 /\ l + 1 \in 1 .. l + 1
    BY <1>5
  <2> HIDE DEF x, l
  <2> QED
    BY <1>5, <2>1, <2>2 DEF Waiting, ToSet
<1>7. \A y \in Waiting \cup SentOnes : y \in Nat /\ y < x
  BY <1>2 DEF UpTo
<1>8. Increasing(messageIds')
  <2> SUFFICES ASSUME NEW i \in 1 .. l + 1, NEW j \in 1 .. l + 1, i < j PROVE messageIds'[i] < messageIds'[j]
    BY <1>5 DEF Increasing
  <2>1. i \in 1 .. l /\ messageIds'[i] = messageIds[i] /\ messageIds[i] \in Waiting
    BY <1>5, SMTT(30) DEF Waiting, ToSet
  <2>2. CASE j \in 1 .. l
    BY <1>1, <1>5, <2>1, <2>2 DEF OutboxInv, Increasing
  <2>3. CASE j = l + 1
    BY <1>5, <1>7, <2>1, <2>3
  <2> QED
    BY <1>5, <2>2, <2>3
<1>9. UpTo(x)'
  <2>1. 1 .. n + 1 = (1 .. n) \cup {n + 1}
    OBVIOUS
  <2> QED
    BY <1>2, <1>4, <1>6, <2>1 DEF UpTo
<1>10. OutboxTypes'
  BY <1>1, <1>3, <1>4, <1>5 DEF OutboxTypes
<1>11. OutboxInv'
  <2>1. messages' = Waiting'
    BY <1>1, <1>3, <1>6 DEF OutboxInv
  <2>2. x \in Nat
    OBVIOUS
  <2> QED
    BY <1>1, <1>3, <1>4, <1>8, <1>9, <1>10, <2>1, <2>2 DEF OutboxInv
<1>12. Forgets'
  BY <1>1, <1>3, <1>4, <1>6 DEF Forgets, StoredMessages
<1>13. Parts'
  <2>1. x \notin SentOnes /\ x \notin Waiting
    BY <1>7
  <2>2. Waiting' \cap SentOnes' = Waiting \cap SentOnes /\ Waiting' \ SentOnes' = (Waiting \ SentOnes) \cup {x}
    BY <1>4, <1>6, <2>1
  <2>3. \A y \in Waiting \cap SentOnes : y < x
    BY <1>7
  <2> QED
    BY <1>1, <1>3, <2>2, <2>3 DEF Parts
<1> QED
  BY <1>11, <1>12, <1>13 DEF Inv

(* A message is sent, again or for the first time.                         *)
LEMMA DeliveryKept == Inv /\ scheduleMessageDelivery => Inv'
<1> SUFFICES ASSUME Inv, scheduleMessageDelivery PROVE Inv'
  OBVIOUS
<1> DEFINE m == messageIds[offset + 1]
           p == lastId + 1
<1>1. OutboxInv /\ Forgets /\ Parts /\ OutboxTypes
  BY DEF Inv, OutboxInv
<1>2. /\ offset + 1 \in DOMAIN messageIds
      /\ lastId' = p /\ sent' = Append(sent, m)
      /\ UNCHANGED <<maxChunkLength, neighbour, messageIds, messages, link, stored, confirms, drops>>
  BY DEF scheduleMessageDelivery
<1>3. Waiting' = Waiting /\ m \in Waiting /\ m \in Nat /\ p \in Nat /\ p # 0 /\ 1 .. lastId \subseteq 1 .. p
  BY <1>1, <1>2 DEF Waiting, ToSet, OutboxTypes
<1>4. /\ sent' \in Seq(Nat) /\ Len(sent') = p /\ DOMAIN sent = 1 .. lastId /\ DOMAIN sent' = 1 .. p
      /\ sent'[p] = m /\ \A q \in 1 .. lastId : sent'[q] = sent[q]
  <2>1. sent \in Seq(Nat) /\ Len(sent) = lastId /\ lastId \in Nat
    BY <1>1 DEF OutboxTypes
  <2> HIDE DEF m
  <2>2. /\ sent' \in Seq(Nat) /\ Len(sent') = Len(sent) + 1
        /\ \A i \in 1 .. Len(sent) + 1 : sent'[i] = IF i <= Len(sent) THEN sent[i] ELSE m
    BY <1>2, <1>3, <2>1, AppendProperties
  <2>3. DOMAIN sent = 1 .. Len(sent) /\ DOMAIN sent' = 1 .. Len(sent')
    BY <2>1, <2>2
  <2> QED
    BY <2>1, <2>2, <2>3
<1>5. SentOnes' = SentOnes \cup {m}
  <2>1. \A q \in 1 .. p : q \in 1 .. lastId \/ q = p
    BY <1>1 DEF OutboxTypes
  <2>2. p \in 1 .. p
    BY <1>3
  <2> HIDE DEF m, p
  <2> QED
    BY <1>3, <1>4, <2>1, <2>2 DEF SentOnes, ToSet
<1>6. \A n \in Nat : UpTo(n) => UpTo(n)'
  BY <1>3, <1>5 DEF UpTo
<1> DEFINE long == Append(queue, p)
<1>7. long \in Seq(1 .. p)
  <2>1. queue \in Seq(1 .. p) /\ p \in 1 .. p
    BY <1>1, <1>3, SeqMonotonic DEF OutboxTypes
  <2> HIDE DEF p
  <2> QED
    BY <2>1, AppendProperties
<1>8. ASSUME NEW s, s \in Seq(1 .. p) PROVE Chunk(s) \in Seq(1 .. p) /\ Rest(s) \in Seq(1 .. p)
  <2> HIDE DEF p
  <2>1. maxChunkLength \in Nat \ {0} /\ Len(s) \in Nat
    BY <1>1, <1>8 DEF OutboxTypes
  <2>2. \A i \in 1 .. Len(s) : s[i] \in 1 .. p
    BY <1>8, ElementOfSeq
  <2>3. Rest(s) \in Seq(1 .. p)
    <3>1. \A i \in maxChunkLength + 1 .. Len(s) : i \in 1 .. Len(s) /\ s[i] \in 1 .. p
      BY <2>1, <2>2
    <3> QED
      BY <1>8, <2>1, <3>1, SubSeqProperties DEF Rest
  <2>4. PICK k \in {Len(s), maxChunkLength} : Min({Len(s), maxChunkLength}) = k /\ k <= Len(s)
    BY <2>1 DEF Min
  <2>5. Chunk(s) \in Seq(1 .. p)
    <3>1. Chunk(s) = SubSeq(s, 1, k) /\ k \in Nat /\ k <= Len(s)
      BY <2>1, <2>4 DEF Chunk
    <3>2. \A i \in 1 .. k : i \in 1 .. Len(s) /\ s[i] \in 1 .. p
      BY <2>1, <2>2, <3>1
    <3> QED
      BY <1>8, <2>1, <3>1, <3>2, SubSeqProperties
  <2> QED
    BY <2>3, <2>5
<1>9. wire \in Seq(Seq(1 .. p))
  <2>1. Seq(1 .. lastId) \subseteq Seq(1 .. p)
    BY <1>3, SeqMonotonic
  <2> HIDE DEF p
  <2> QED
    BY <1>1, <2>1, SeqMonotonic DEF OutboxTypes
<1>10. Forgets'
  <2>1. \A q \in stored : sent'[q] = sent[q]
    BY <1>1, <1>4 DEF OutboxTypes
  <2>2. StoredMessages' = StoredMessages
    BY <1>2, <2>1 DEF StoredMessages
  <2> QED
    BY <1>1, <1>2, <1>3, <1>5, <2>2 DEF Forgets
<1>11. /\ neighbour' \in BOOLEAN /\ maxChunkLength' \in Nat \ {0} /\ messageIds' \in Seq(Nat)
       /\ lastId' \in Nat /\ sent' \in Seq(Nat) /\ Len(sent') = lastId' /\ stored' \subseteq 1 .. lastId'
       /\ confirms' \in Seq(SUBSET Nat) /\ Increasing(messageIds') /\ messages' = Waiting'
       /\ \E n \in Nat : UpTo(n)'
  BY <1>1, <1>2, <1>3, <1>4, <1>6 DEF OutboxTypes, OutboxInv
<1>12. CASE /\ queue' = long /\ Sent(m, p) /\ UNCHANGED <<ticks, wire, waited>>
  <2>1. offset' = offset + 1
    BY <1>12 DEF Sent
  <2>2. OutboxTypes'
    BY <1>1, <1>2, <1>7, <1>9, <1>11, <1>12, <2>1 DEF OutboxTypes
  <2>3. \A q \in DOMAIN publishingIds' : q \in 1 .. lastId' /\ publishingIds'[q] = sent'[q]
    <3>1. /\ DOMAIN publishingIds' = DOMAIN publishingIds \cup {p} /\ publishingIds'[p] = m
          /\ \A q \in DOMAIN publishingIds : q # p => publishingIds'[q] = publishingIds[q]
      BY <1>12 DEF Sent
    <3>2. \A q \in DOMAIN publishingIds : q \in 1 .. lastId /\ publishingIds[q] = sent[q]
      BY <1>1 DEF OutboxInv
    <3> HIDE DEF m
    <3> QED
      BY <1>2, <1>3, <1>4, <3>1, <3>2
  <2>4. \A i \in DOMAIN ticks' : ticks'[i].id \in 1 .. lastId' /\ sent'[ticks'[i].id] = ticks'[i].message
    BY <1>1, <1>2, <1>3, <1>4, <1>12 DEF OutboxInv
  <2>5. OutboxInv'
    BY <1>11, <2>2, <2>3, <2>4 DEF OutboxInv
  <2>6. Parts'
    <3> SUFFICES ASSUME ~waited PROVE Parts'
      BY <1>12 DEF Parts
    <3> DEFINE P == Waiting \cap SentOnes
    <3>1. ticks = <<>> /\ offset = Cardinality(P) /\ \A x \in P : \A y \in Waiting \ P : x < y
      BY <1>1 DEF Parts
    <3>2. P \subseteq Waiting
      OBVIOUS
    <3>3. IsFiniteSet(P) /\ \A i \in DOMAIN messageIds : (i <= Cardinality(P) <=> messageIds[i] \in P)
      <4> HIDE DEF P
      <4> QED
        BY <1>1, <3>1, <3>2, ComesFirst DEF OutboxInv, OutboxTypes, Waiting
    <3>4. m \notin P
      <4> HIDE DEF P
      <4> QED
        BY <1>1, <1>2, <3>1, <3>3 DEF OutboxTypes
    <3>5. Waiting' \cap SentOnes' = P \cup {m} /\ Waiting' \ SentOnes' = (Waiting \ P) \ {m}
      BY <1>3, <1>5
    <3>6. Cardinality(P \cup {m}) = offset + 1
      BY <3>1, <3>3, <3>4, FS_AddElement
    <3>7. ASSUME NEW y \in (Waiting \ P) \ {m} PROVE m < y
      <4>1. PICK i \in DOMAIN messageIds : messageIds[i] = y
        BY DEF Waiting, ToSet
      <4>2. ~(i <= offset) /\ i # offset + 1 /\ i \in Nat /\ offset \in Int
        <5> HIDE DEF P
        <5> QED
          BY <1>1, <3>1, <3>3, <3>7, <4>1 DEF OutboxTypes
      <4>3. offset + 1 < i
        BY <4>2
      <4> QED
        BY <1>1, <1>2, <4>1, <4>3 DEF OutboxInv, Increasing
    <3> HIDE DEF P, m
    <3>8. ticks' = <<>>
      BY <1>12, <3>1
    <3> QED
      BY <2>1, <3>1, <3>5, <3>6, <3>7, <3>8 DEF Parts
  <2> QED
    BY <1>10, <2>5, <2>6 DEF Inv
<1>13. CASE /\ queue' = Rest(long) /\ sendBuffer(Chunk(long))
            /\ ticks' = Append(ticks, [message |-> m, id |-> p]) /\ waited' = TRUE
            /\ UNCHANGED <<publishingIds, offset>>
  <2> DEFINE t == [message |-> m, id |-> p]
  <2>1. t \in Pending /\ t.message = m /\ t.id = p
    BY <1>3 DEF Pending
  <2> HIDE DEF t
  <2>2. /\ ticks' \in Seq(Pending) /\ DOMAIN ticks' = 1 .. Len(ticks) + 1 /\ ticks'[Len(ticks) + 1] = t
        /\ \A i \in DOMAIN ticks : ticks'[i] = ticks[i]
        /\ DOMAIN ticks = 1 .. Len(ticks) /\ Len(ticks) \in Nat
    BY <1>1, <1>13, <2>1, AppendProperties, SMTT(30) DEF OutboxTypes, t
  <2>3. wire' \in Seq(Seq(1 .. p)) /\ queue' \in Seq(1 .. p)
    <3> HIDE DEF p, long
    <3>1. Chunk(long) \in Seq(1 .. p) /\ Rest(long) \in Seq(1 .. p)
      BY <1>7, <1>8
    <3>2. wire' = Append(wire, Chunk(long)) \/ wire' = wire
      BY <1>13 DEF sendBuffer
    <3>3. \A T, c : wire \in Seq(T) /\ c \in T => Append(wire, c) \in Seq(T)
      OBVIOUS
    <3> QED
      BY <1>9, <1>13, <3>1, <3>2, <3>3
  <2>4. OutboxTypes'
    BY <1>1, <1>2, <1>11, <1>13, <2>2, <2>3 DEF OutboxTypes
  <2>5. \A i \in DOMAIN ticks' : ticks'[i].id \in 1 .. lastId' /\ sent'[ticks'[i].id] = ticks'[i].message
    <3> SUFFICES ASSUME NEW i \in DOMAIN ticks'
                 PROVE  ticks'[i].id \in 1 .. p /\ sent'[ticks'[i].id] = ticks'[i].message
      BY <1>2
    <3>1. CASE i \in DOMAIN ticks
      BY <1>1, <1>3, <1>4, <2>2, <3>1 DEF OutboxInv
    <3>2. CASE i = Len(ticks) + 1
      BY <1>3, <1>4, <2>1, <2>2, <3>2
    <3> QED
      BY <2>2, <3>1, <3>2
  <2>6. \A q \in DOMAIN publishingIds' : q \in 1 .. lastId' /\ publishingIds'[q] = sent'[q]
    BY <1>1, <1>2, <1>3, <1>4, <1>13 DEF OutboxInv
  <2>7. OutboxInv'
    BY <1>11, <2>4, <2>5, <2>6 DEF OutboxInv
  <2>8. Parts'
    BY <1>13 DEF Parts
  <2> QED
    BY <1>10, <2>7, <2>8 DEF Inv
<1> QED
  BY <1>12, <1>13 DEF scheduleMessageDelivery

(* A tick that waited goes on.                                             *)
LEMMA WriteDoneKept == Inv /\ WriteDone => Inv'
<1> SUFFICES ASSUME Inv, WriteDone PROVE Inv'
  OBVIOUS
<1> DEFINE m == Head(ticks).message
           p == Head(ticks).id
<1>1. OutboxInv /\ Forgets /\ Parts /\ OutboxTypes
  BY DEF Inv, OutboxInv
<1>2. /\ ticks # <<>> /\ ticks' = Tail(ticks) /\ Sent(m, p)
      /\ UNCHANGED <<maxChunkLength, neighbour, messageIds, messages, publisher, link, wire, stored,
                     confirms, waited, drops>>
  BY DEF WriteDone
<1>3. lastId' = lastId /\ queue' = queue /\ sent' = sent /\ SentOnes' = SentOnes /\ Waiting' = Waiting
  BY <1>2 DEF publisher, SentOnes, Waiting
<1>4. /\ Head(ticks) = ticks[1] /\ 1 \in DOMAIN ticks /\ ticks' \in Seq(Pending)
      /\ \A i \in DOMAIN ticks' : \E j \in DOMAIN ticks : ticks'[i] = ticks[j]
  <2>1. ticks \in Seq(Pending) /\ ticks # <<>>
    BY <1>1, <1>2 DEF OutboxTypes
  <2>2. /\ ticks' \in Seq(Pending) /\ Len(ticks') = Len(ticks) - 1 /\ Len(ticks) \in Nat /\ Len(ticks) # 0
        /\ \A i \in 1 .. Len(ticks') : ticks'[i] = ticks[i + 1]
    BY <1>2, <2>1, HeadTailProperties
  <2>3. DOMAIN ticks = 1 .. Len(ticks) /\ DOMAIN ticks' = 1 .. Len(ticks')
    BY <2>1, <2>2
  <2>4. \A i \in 1 .. Len(ticks') : i + 1 \in 1 .. Len(ticks)
    BY <2>2
  <2>5. Head(ticks) = ticks[1] /\ 1 \in 1 .. Len(ticks)
    BY <2>1, <2>2
  <2> QED
    BY <2>2, <2>3, <2>4, <2>5
<1>5. p \in 1 .. lastId /\ sent[p] = m
  BY <1>1, <1>4 DEF OutboxInv
<1> HIDE DEF m, p
<1>6. OutboxTypes'
  BY <1>1, <1>2, <1>3, <1>4 DEF OutboxTypes, Sent
<1>7. \A q \in DOMAIN publishingIds' : q \in 1 .. lastId' /\ publishingIds'[q] = sent'[q]
  <2>1. /\ DOMAIN publishingIds' = DOMAIN publishingIds \cup {p} /\ publishingIds'[p] = m
        /\ \A q \in DOMAIN publishingIds : q # p => publishingIds'[q] = publishingIds[q]
    BY <1>2 DEF Sent
  <2>2. \A q \in DOMAIN publishingIds : q \in 1 .. lastId /\ publishingIds[q] = sent[q]
    BY <1>1 DEF OutboxInv
  <2> QED
    BY <1>3, <1>5, <2>1, <2>2
<1>8. \A i \in DOMAIN ticks' : ticks'[i].id \in 1 .. lastId' /\ sent'[ticks'[i].id] = ticks'[i].message
  BY <1>1, <1>3, <1>4 DEF OutboxInv
<1>9. OutboxInv'
  <2>1. \E n \in Nat : UpTo(n)'
    BY <1>1, <1>3 DEF OutboxInv, UpTo
  <2> QED
    BY <1>1, <1>2, <1>3, <1>6, <1>7, <1>8, <2>1 DEF OutboxInv
<1>10. Forgets'
  BY <1>1, <1>2, <1>3 DEF Forgets, StoredMessages
<1>11. Parts'
  BY <1>1, <1>2 DEF Parts
<1> QED
  BY <1>9, <1>10, <1>11 DEF Inv

(* What is confirmed leaves the outbox: it was sent, so it came before     *)
(* what was not, and the offset goes back with it.                         *)
LEMMA ConfirmKept == Inv /\ on => Inv'
<1> SUFFICES ASSUME Inv, on PROVE Inv'
  OBVIOUS
<1> DEFINE ids == Head(confirms)
           known == ids \cap DOMAIN publishingIds
           confirmed == {publishingIds[p] : p \in known}
<1>1. OutboxInv /\ Forgets /\ Parts /\ OutboxTypes
  BY DEF Inv, OutboxInv
<1>2. /\ confirms # <<>> /\ confirms' = Tail(confirms)
      /\ publishingIds' = [p \in DOMAIN publishingIds \ known |-> publishingIds[p]]
      /\ messageIds' = Without(messageIds, confirmed)
      /\ messages' = messages \ confirmed
      /\ offset' = offset - Cardinality(messages \cap confirmed)
      /\ UNCHANGED <<maxChunkLength, neighbour, ticks, publisher, link, wire, stored, waited, drops>>
  BY DEF on, publisherConfirmCallback
<1>3. lastId' = lastId /\ queue' = queue /\ sent' = sent /\ SentOnes' = SentOnes
  BY <1>2 DEF publisher, SentOnes
<1>4. /\ ids = confirms[1] /\ 1 \in DOMAIN confirms /\ confirms' \in Seq(SUBSET Nat)
      /\ \A i \in DOMAIN confirms' : \E j \in DOMAIN confirms : confirms'[i] = confirms[j]
  <2>1. confirms \in Seq(SUBSET Nat) /\ confirms # <<>>
    BY <1>1, <1>2 DEF OutboxTypes
  <2>2. /\ confirms' \in Seq(SUBSET Nat) /\ Len(confirms') = Len(confirms) - 1
        /\ Len(confirms) \in Nat /\ Len(confirms) # 0
        /\ \A i \in 1 .. Len(confirms') : confirms'[i] = confirms[i + 1]
    BY <1>2, <2>1, HeadTailProperties
  <2>3. DOMAIN confirms = 1 .. Len(confirms) /\ DOMAIN confirms' = 1 .. Len(confirms')
    BY <2>1, <2>2
  <2>4. \A i \in 1 .. Len(confirms') : i + 1 \in 1 .. Len(confirms)
    BY <2>2
  <2>5. Head(confirms) = confirms[1] /\ 1 \in 1 .. Len(confirms)
    BY <2>1, <2>2
  <2> QED
    BY <2>2, <2>3, <2>4, <2>5
<1>5. confirmed \subseteq SentOnes /\ (~neighbour => confirmed \subseteq StoredMessages)
  <2>1. \A p \in DOMAIN publishingIds : p \in 1 .. lastId /\ publishingIds[p] = sent[p] /\ p \in DOMAIN sent
    BY <1>1 DEF OutboxInv, OutboxTypes
  <2>2. ~neighbour => ids \subseteq stored
    BY <1>1, <1>4 DEF Forgets
  <2> HIDE DEF ids
  <2> QED
    BY <2>1, <2>2 DEF SentOnes, ToSet, StoredMessages
<1>6. DOMAIN publishingIds' \subseteq DOMAIN publishingIds
      /\ \A p \in DOMAIN publishingIds' : publishingIds'[p] = publishingIds[p]
  BY <1>2
<1> HIDE DEF ids, known, confirmed
<1>7. messageIds' \in Seq(Nat) /\ Increasing(messageIds') /\ Waiting' = Waiting \ confirmed
  BY <1>1, <1>2, WithoutFacts DEF OutboxInv, OutboxTypes, Waiting
<1>8. messages = Waiting /\ IsFiniteSet(Waiting)
  BY <1>1, CountsThem DEF OutboxInv, OutboxTypes, Waiting
<1>9. IsFiniteSet(Waiting \cap confirmed) /\ Cardinality(Waiting \cap confirmed) \in Nat
  <2>1. Waiting \cap confirmed \in SUBSET Waiting
    OBVIOUS
  <2>2. IsFiniteSet(Waiting \cap confirmed)
    BY <1>8, <2>1, FS_Subset
  <2> QED
    BY <2>2, FS_CardinalityType
<1>10. OutboxTypes'
  <2>1. offset' \in Int
    BY <1>1, <1>2, <1>8, <1>9 DEF OutboxTypes
  <2> QED
    BY <1>1, <1>2, <1>3, <1>4, <1>7, <2>1 DEF OutboxTypes
<1>11. OutboxInv'
  <2>1. \E n \in Nat : UpTo(n)'
    BY <1>1, <1>3, <1>5, <1>7 DEF OutboxInv, UpTo
  <2>2. messages' = Waiting'
    BY <1>2, <1>7, <1>8
  <2>3. \A p \in DOMAIN publishingIds' : p \in 1 .. lastId' /\ publishingIds'[p] = sent'[p]
    BY <1>1, <1>3, <1>6 DEF OutboxInv
  <2>4. \A i \in DOMAIN ticks' : ticks'[i].id \in 1 .. lastId' /\ sent'[ticks'[i].id] = ticks'[i].message
    BY <1>1, <1>2, <1>3 DEF OutboxInv
  <2> QED
    BY <1>7, <1>10, <2>1, <2>2, <2>3, <2>4 DEF OutboxInv
<1>12. Forgets'
  <2> SUFFICES ASSUME ~neighbour
               PROVE  /\ \A i \in DOMAIN confirms' : confirms'[i] \subseteq stored
                      /\ \A m \in SentOnes : m \in (Waiting \ confirmed) \cup StoredMessages
    BY <1>2, <1>3, <1>7 DEF Forgets, StoredMessages
  <2> QED
    BY <1>1, <1>4, <1>5 DEF Forgets
<1>13. Parts'
  <2> SUFFICES ASSUME ~waited PROVE Parts'
    BY <1>2 DEF Parts
  <2> DEFINE P == Waiting \cap SentOnes
  <2>1. ticks = <<>> /\ offset = Cardinality(P) /\ \A x \in P : \A y \in Waiting \ SentOnes : x < y
    BY <1>1 DEF Parts
  <2>2. Waiting' \cap SentOnes' = P \ confirmed /\ Waiting' \ SentOnes' = Waiting \ SentOnes
    BY <1>3, <1>5, <1>7
  <2>3. P \cap confirmed = messages \cap confirmed
    BY <1>5, <1>8
  <2>4. Cardinality(P \ confirmed) = Cardinality(P) - Cardinality(P \cap confirmed)
    <3>1. P \in SUBSET Waiting
      OBVIOUS
    <3>2. IsFiniteSet(P)
      BY <1>8, <3>1, FS_Subset
    <3> QED
      BY <3>2, FS_Difference
  <2> HIDE DEF P
  <2>5. offset' = Cardinality(P \ confirmed)
    BY <1>2, <2>1, <2>3, <2>4
  <2>6. \A x \in P \ confirmed : \A y \in Waiting \ SentOnes : x < y
    BY <2>1
  <2>7. ticks' = <<>>
    BY <1>2, <2>1
  <2> QED
    BY <2>2, <2>5, <2>6, <2>7 DEF Parts
<1> QED
  BY <1>11, <1>12, <1>13 DEF Inv

(* A part of a queue, and the rest.                                        *)
LEMMA ChunkFacts ==
  ASSUME maxChunkLength \in Nat \ {0}, NEW S, NEW s \in Seq(S)
  PROVE  Chunk(s) \in Seq(S) /\ Rest(s) \in Seq(S)
<1>1. Len(s) \in Nat /\ \A i \in 1 .. Len(s) : s[i] \in S
  BY ElementOfSeq, LenProperties
<1>2. Rest(s) \in Seq(S)
  <2>1. \A i \in maxChunkLength + 1 .. Len(s) : i \in 1 .. Len(s) /\ s[i] \in S
    BY <1>1
  <2> QED
    BY <1>1, <2>1, SubSeqProperties DEF Rest
<1>3. PICK k \in {Len(s), maxChunkLength} : Min({Len(s), maxChunkLength}) = k /\ k <= Len(s)
  BY <1>1 DEF Min
<1>4. Chunk(s) \in Seq(S)
  <2>1. Chunk(s) = SubSeq(s, 1, k) /\ k \in Nat /\ k <= Len(s)
    BY <1>1, <1>3 DEF Chunk
  <2>2. \A i \in 1 .. k : i \in 1 .. Len(s) /\ s[i] \in S
    BY <1>1, <2>1
  <2> QED
    BY <1>1, <2>1, <2>2, SubSeqProperties
<1> QED
  BY <1>2, <1>4

LEMMA FlushKept == Inv /\ FlushChunk => Inv'
<1> SUFFICES ASSUME Inv, FlushChunk PROVE Inv'
  OBVIOUS
<1> DEFINE Q == Seq(1 .. lastId)
<1>1. OutboxTypes
  BY DEF Inv, OutboxInv
<1>2. /\ queue' = Rest(queue) /\ wire' = (IF link = "up" THEN Append(wire, Chunk(queue)) ELSE wire)
      /\ UNCHANGED <<maxChunkLength, neighbour, outbox, ticks, lastId, sent, stored, confirms, waited>>
  BY DEF FlushChunk, sendBuffer
<1>3. Chunk(queue) \in Q /\ Rest(queue) \in Q /\ wire \in Seq(Q)
  BY <1>1, ChunkFacts DEF OutboxTypes
<1> HIDE DEF Q
<1>4. \A c : c \in Q => Append(wire, c) \in Seq(Q)
  BY <1>3
<1>5. queue' \in Q /\ wire' \in Seq(Q)
  BY <1>2, <1>3, <1>4
<1>6. /\ ticks' = ticks /\ stored' = stored /\ confirms' = confirms
      /\ ticks \in Seq(Pending) /\ stored \subseteq 1 .. lastId /\ confirms \in Seq(SUBSET Nat)
  BY <1>1, <1>2 DEF OutboxTypes
<1>7. ~neighbour => \A i \in DOMAIN confirms : confirms[i] \subseteq stored
  BY DEF Inv, Forgets
<1> QED
  BY <1>2, <1>5, <1>6, <1>7, OnTheWayKept DEF Q

LEMMA BrokerStoresKept == Inv /\ ChunkStored => Inv'
<1> SUFFICES ASSUME Inv, ChunkStored PROVE Inv'
  OBVIOUS
<1> DEFINE Q == Seq(1 .. lastId)
           new == ToSet(Head(wire))
<1>1. OutboxTypes
  BY DEF Inv, OutboxInv
<1>2. /\ wire # <<>> /\ wire' = Tail(wire)
      /\ stored' = stored \cup new /\ confirms' = Append(confirms, new)
      /\ UNCHANGED <<maxChunkLength, neighbour, outbox, ticks, lastId, queue, sent, waited>>
  BY DEF ChunkStored, publisher
<1>3. wire \in Seq(Q)
  BY <1>1 DEF OutboxTypes
<1>4. Head(wire) \in Q /\ wire' \in Seq(Q)
  <2> HIDE DEF Q
  <2> QED
    BY <1>2, <1>3, HeadTailProperties
<1>5. new \subseteq 1 .. lastId /\ new \subseteq Nat
  <2>1. ASSUME NEW h \in Q PROVE \A i \in DOMAIN h : h[i] \in 1 .. lastId
    <3> DEFINE S == 1 .. lastId
    <3> HIDE DEF S
    <3>1. h \in Seq(S)
      BY <2>1 DEF S
    <3>2. \A i \in DOMAIN h : h[i] \in S
      BY <3>1, ElementOfSeq, LenProperties
    <3> QED
      BY <3>2 DEF S
  <2>2. 1 .. lastId \subseteq Nat
    BY <1>1 DEF OutboxTypes
  <2> DEFINE h == Head(wire)
  <2>3. h \in Q
    BY <1>4
  <2> HIDE DEF h, Q
  <2>4. \A i \in DOMAIN h : h[i] \in 1 .. lastId
    BY <2>1, <2>3
  <2> QED
    BY <2>2, <2>4 DEF ToSet, h
<1> HIDE DEF new
<1>6. /\ confirms \in Seq(SUBSET Nat) /\ stored \subseteq 1 .. lastId
      /\ ticks \in Seq(Pending) /\ queue \in Q
  BY <1>1 DEF OutboxTypes
<1>7. /\ confirms' \in Seq(SUBSET Nat) /\ DOMAIN confirms = 1 .. Len(confirms) /\ Len(confirms) \in Nat
      /\ DOMAIN confirms' = 1 .. Len(confirms) + 1 /\ confirms'[Len(confirms) + 1] = new
      /\ \A i \in 1 .. Len(confirms) : confirms'[i] = confirms[i]
  <2>1. new \in SUBSET Nat
    BY <1>5
  <2> QED
    BY <1>2, <1>6, <2>1, AppendProperties
<1>8. ~neighbour => \A i \in DOMAIN confirms' : confirms'[i] \subseteq stored'
  <2>1. ~neighbour => \A i \in DOMAIN confirms : confirms[i] \subseteq stored
    BY DEF Inv, Forgets
  <2>2. \A i \in DOMAIN confirms' : i \in DOMAIN confirms \/ i = Len(confirms) + 1
    BY <1>7
  <2> QED
    BY <1>2, <1>7, <2>1, <2>2
<1>9. /\ stored \subseteq stored' /\ stored' \subseteq 1 .. lastId /\ queue' \in Q /\ ticks' = ticks
  BY <1>2, <1>5, <1>6
<1> QED
  BY <1>2, <1>4, <1>6, <1>7, <1>8, <1>9, OnTheWayKept DEF Q

LEMMA NeighbourKept == Inv /\ NeighbourStored => Inv'
<1> SUFFICES ASSUME Inv, NeighbourStored PROVE Inv'
  OBVIOUS
<1>1. OutboxTypes
  BY DEF Inv, OutboxInv
<1>2. PICK p \in 1 .. NumIds : confirms' = Append(confirms, {p})
  BY DEF NeighbourStored
<1>3. neighbour /\ UNCHANGED <<maxChunkLength, neighbour, outbox, ticks, lastId, queue, sent, wire, stored, waited>>
  BY DEF NeighbourStored, publisher
<1>4. confirms' \in Seq(SUBSET Nat)
  <2>1. {p} \in SUBSET Nat /\ confirms \in Seq(SUBSET Nat)
    BY <1>1, OutboxAssumption DEF OutboxTypes
  <2> QED
    BY <1>2, <2>1, AppendProperties
<1>5. /\ ticks \in Seq(Pending) /\ queue \in Seq(1 .. lastId) /\ wire \in Seq(Seq(1 .. lastId))
      /\ stored \subseteq 1 .. lastId
  BY <1>1 DEF OutboxTypes
<1> QED
  BY <1>3, <1>4, <1>5, OnTheWayKept

(* What the connection does to what is on its way: nothing, or it is lost. *)
LEMMA ConnectionKept ==
  ASSUME Inv, UNCHANGED <<maxChunkLength, neighbour, outbox, lastId, queue, sent, stored, waited>>,
         \/ wire' = <<>> /\ confirms' = <<>> /\ ticks' = <<>>
         \/ UNCHANGED <<wire, confirms, ticks>>
  PROVE  Inv'
<1>1. OutboxTypes
  BY DEF Inv, OutboxInv
<1>2. \A S : <<>> \in Seq(S)
  OBVIOUS
<1>3. DOMAIN <<>> = {}
  OBVIOUS
<1>4. /\ ticks \in Seq(Pending) /\ queue' \in Seq(1 .. lastId) /\ wire \in Seq(Seq(1 .. lastId))
      /\ stored' \subseteq 1 .. lastId /\ confirms \in Seq(SUBSET Nat)
  BY <1>1 DEF OutboxTypes
<1>5. ~neighbour => \A i \in DOMAIN confirms : confirms[i] \subseteq stored
  BY DEF Inv, Forgets
<1>6. /\ ticks' \in Seq(Pending) /\ wire' \in Seq(Seq(1 .. lastId)) /\ confirms' \in Seq(SUBSET Nat)
  BY <1>2, <1>4
<1>7. ~neighbour => \A i \in DOMAIN confirms' : confirms'[i] \subseteq stored'
  BY <1>3, <1>5
<1>8. \A i \in DOMAIN ticks' : \E j \in DOMAIN ticks : ticks'[i] = ticks[j]
  BY <1>3
<1> QED
  BY <1>4, <1>6, <1>7, <1>8, OnTheWayKept

LEMMA StepInv == Inv /\ [OutboxNext]_outboxVars => Inv'
<1> SUFFICES ASSUME Inv, [OutboxNext]_outboxVars PROVE Inv'
  OBVIOUS
<1>1. CASE Drop
  BY <1>1, ConnectionKept DEF Drop, publisher
<1>2. CASE connectionClosedCallback
  BY <1>2, ConnectionKept DEF connectionClosedCallback, publisher
<1>3. CASE Restarted
  BY <1>3, ConnectionKept DEF Restarted, publisher
<1>4. CASE UNCHANGED outboxVars
  BY <1>4, ConnectionKept DEF outboxVars, publisher
<1> QED
  BY <1>1, <1>2, <1>3, <1>4, ProductionKept, DeliveryKept, WriteDoneKept, FlushKept, BrokerStoresKept,
     ConfirmKept, NeighbourKept DEF OutboxNext

LEMMA InvHolds == OutboxSpec => []Inv
  BY InitInv, StepInv, PTL DEF OutboxSpec

(* What the example takes out of its outbox is in the stream, whatever     *)
(* failed and however often it was sent, when its publisher is alone on    *)
(* the connection.                                                         *)
THEOREM OutboxForgetsNothing == OutboxSpec => []NothingForgotten
<1>1. Inv => NothingForgotten
  <2> SUFFICES ASSUME Inv, ~neighbour, NEW m \in 1 .. Generated PROVE m \in messages \cup StoredMessages
    BY DEF NothingForgotten
  <2>1. PICK n \in Nat : UpTo(n)
    BY DEF Inv, OutboxInv
  <2>2. m \in Waiting \cup SentOnes
    BY <2>1, GeneratedIs DEF Inv, UpTo
  <2> QED
    BY <2>2 DEF Inv, OutboxInv, Forgets
<1> QED
  BY InvHolds, <1>1, PTL

(* While no tick has had to wait for a write, the offset parts the outbox  *)
(* into what was sent and what was not, through confirms and failures.     *)
THEOREM OffsetParts == OutboxSpec => []NonePassedOver
<1>1. Inv => NonePassedOver
  <2> SUFFICES ASSUME Inv, ~waited
               PROVE  \A i \in DOMAIN messageIds : (i <= offset <=> messageIds[i] \in SentOnes)
    BY DEF NonePassedOver, SentOnes
  <2> DEFINE P == Waiting \cap SentOnes
  <2>1. offset = Cardinality(P) /\ \A x \in P : \A y \in Waiting \ P : x < y
    BY DEF Inv, Parts
  <2>2. P \subseteq Waiting /\ \A i \in DOMAIN messageIds : (messageIds[i] \in P <=> messageIds[i] \in SentOnes)
    BY DEF Waiting, ToSet
  <2> HIDE DEF P
  <2> QED
    BY <2>1, <2>2, ComesFirst DEF Inv, OutboxInv, OutboxTypes, Waiting
<1> QED
  BY InvHolds, <1>1, PTL
=============================================================================
