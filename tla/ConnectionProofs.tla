-------------------------- MODULE ConnectionProofs --------------------------
(* Proofs about Connection, for all requests and any number of sockets.    *)
EXTENDS Connection, SequenceTheorems, TLAPS

-----------------------------------------------------------------------------
(* What stays of the elements of a sequence.                               *)

LEMMA Elements ==
  ASSUME NEW S, NEW s \in Seq(S)
  PROVE  /\ ToSet(s) = {s[i] : i \in 1 .. Len(s)} /\ ToSet(s) \subseteq S
         /\ \A i \in DOMAIN s : s[i] \in ToSet(s) /\ i \in 1 .. Len(s)
<1>1. DOMAIN s = 1 .. Len(s) /\ \A i \in 1 .. Len(s) : s[i] \in S
  BY LenProperties, ElementOfSeq
<1> QED
  BY <1>1 DEF ToSet

LEMMA OfEmpty ==
  ASSUME NEW S
  PROVE  <<>> \in Seq(S) /\ ToSet(<<>>) = {}
<1>1. <<>> \in Seq(S) /\ Len(<<>>) = 0
  BY EmptySeq
<1>2. ToSet(<<>>) = {<<>>[i] : i \in 1 .. 0}
  BY <1>1, Elements
<1>3. 1 .. 0 = {}
  OBVIOUS
<1> QED
  BY <1>1, <1>2, <1>3

LEMMA OfAppend ==
  ASSUME NEW S, NEW s \in Seq(S), NEW e \in S
  PROVE  Append(s, e) \in Seq(S) /\ ToSet(Append(s, e)) \subseteq ToSet(s) \cup {e}
<1> DEFINE t == Append(s, e)
<1>1. /\ t \in Seq(S) /\ Len(t) = Len(s) + 1
      /\ \A i \in 1 .. Len(s) : t[i] = s[i]
      /\ t[Len(s) + 1] = e
  BY AppendProperties
<1>2. Len(s) \in Nat
  BY LenProperties
<1> HIDE DEF t
<1>3. ASSUME NEW i \in 1 .. Len(t) PROVE t[i] \in ToSet(s) \cup {e}
  <2>1. i \in 1 .. Len(s) \/ i = Len(s) + 1
    BY <1>1, <1>2
  <2> QED
    BY <2>1, <1>1, Elements
<1>4. ToSet(t) \subseteq ToSet(s) \cup {e}
  BY <1>1, <1>3, Elements
<1> QED
  BY <1>1, <1>4 DEF t

LEMMA OfSubSeq ==
  ASSUME NEW S, NEW s \in Seq(S), NEW m \in 1 .. Len(s) + 1, NEW n \in m - 1 .. Len(s)
  PROVE  SubSeq(s, m, n) \in Seq(S) /\ ToSet(SubSeq(s, m, n)) \subseteq ToSet(s)
<1> DEFINE t == SubSeq(s, m, n)
<1>0. Len(s) \in Nat /\ m \in Nat /\ n \in Int
  BY LenProperties
<1>1. /\ t \in Seq(S) /\ Len(t) = n - m + 1
      /\ \A i \in 1 .. n - m + 1 : t[i] = s[m + i - 1]
  BY <1>0, SubSeqProperties
<1> HIDE DEF t
<1>2. ASSUME NEW i \in 1 .. Len(t) PROVE t[i] \in ToSet(s)
  <2>1. m + i - 1 \in 1 .. Len(s) /\ i \in 1 .. n - m + 1
    BY <1>0, <1>1
  <2>2. t[i] = s[m + i - 1]
    BY <2>1, <1>1
  <2>3. s[m + i - 1] \in ToSet(s)
    BY <2>1, Elements, LenProperties
  <2> QED
    BY <2>2, <2>3
<1>3. ToSet(t) \subseteq ToSet(s)
  BY <1>1, <1>2, Elements
<1> QED
  BY <1>1, <1>3 DEF t

LEMMA OfConcat ==
  ASSUME NEW S, NEW s \in Seq(S), NEW t \in Seq(S)
  PROVE  s \o t \in Seq(S) /\ ToSet(s \o t) \subseteq ToSet(s) \cup ToSet(t)
<1> DEFINE u == s \o t
<1>0. Len(s) \in Nat /\ Len(t) \in Nat
  BY LenProperties
<1>1. /\ u \in Seq(S) /\ Len(u) = Len(s) + Len(t)
      /\ \A i \in 1 .. Len(s) + Len(t) : u[i] = IF i <= Len(s) THEN s[i] ELSE t[i - Len(s)]
  BY ConcatProperties
<1> HIDE DEF u
<1>2. ASSUME NEW i \in 1 .. Len(u) PROVE u[i] \in ToSet(s) \cup ToSet(t)
  <2>1. i \in 1 .. Len(s) \/ (i > Len(s) /\ i - Len(s) \in 1 .. Len(t))
    BY <1>0, <1>1
  <2>2. i \in 1 .. Len(s) => u[i] = s[i]
    BY <1>0, <1>1
  <2>3. i > Len(s) => u[i] = t[i - Len(s)]
    BY <1>0, <1>1
  <2> QED
    BY <2>1, <2>2, <2>3, Elements
<1>3. ToSet(u) \subseteq ToSet(s) \cup ToSet(t)
  BY <1>1, <1>2, Elements
<1> QED
  BY <1>1, <1>3 DEF u

LEMMA OfTail ==
  ASSUME NEW S, NEW s \in Seq(S), s # <<>>
  PROVE  /\ Head(s) \in S /\ Head(s) \in ToSet(s)
         /\ Tail(s) \in Seq(S) /\ ToSet(Tail(s)) \subseteq ToSet(s)
<1>0. Len(s) \in Nat /\ Len(s) # 0
  BY LenProperties, EmptySeq
<1>1. /\ Head(s) \in S /\ Tail(s) \in Seq(S)
      /\ Len(Tail(s)) = Len(s) - 1 /\ \A i \in 1 .. Len(Tail(s)) : Tail(s)[i] = s[i + 1]
  BY HeadTailProperties
<1>2. Head(s) = s[1] /\ 1 \in 1 .. Len(s)
  BY <1>0
<1>3. Head(s) \in ToSet(s)
  BY <1>2, Elements, LenProperties
<1>4. ASSUME NEW i \in 1 .. Len(Tail(s)) PROVE Tail(s)[i] \in ToSet(s)
  <2>1. i + 1 \in 1 .. Len(s)
    BY <1>0, <1>1
  <2>2. Tail(s)[i] = s[i + 1]
    BY <1>1
  <2>3. s[i + 1] \in ToSet(s)
    <3>1. i + 1 \in DOMAIN s
      BY <2>1, LenProperties
    <3> QED
      BY <3>1 DEF ToSet
  <2> QED
    BY <2>2, <2>3
<1>5. ToSet(Tail(s)) \subseteq ToSet(s)
  <2> DEFINE t == Tail(s)
  <2>1. t \in Seq(S) /\ \A i \in 1 .. Len(t) : t[i] \in ToSet(s)
    BY <1>1, <1>4
  <2> HIDE DEF t
  <2>2. ToSet(t) = {t[i] : i \in 1 .. Len(t)}
    BY <2>1, Elements
  <2>3. ToSet(t) \subseteq ToSet(s)
    BY <2>1, <2>2
  <2> QED
    BY <2>3 DEF t
<1> QED
  BY <1>1, <1>3, <1>5

LEMMA OfRemoveAt ==
  ASSUME NEW S, NEW s \in Seq(S), NEW i \in DOMAIN s
  PROVE  RemoveAt(s, i) \in Seq(S) /\ ToSet(RemoveAt(s, i)) \subseteq ToSet(s)
<1>1. i \in 1 .. Len(s) /\ Len(s) \in Nat
  BY Elements, LenProperties
<1> DEFINE front == SubSeq(s, 1, i - 1)
           rest  == SubSeq(s, i + 1, Len(s))
<1>2. front \in Seq(S) /\ ToSet(front) \subseteq ToSet(s)
  <2>1. 1 \in 1 .. Len(s) + 1 /\ i - 1 \in 1 - 1 .. Len(s)
    BY <1>1
  <2> QED
    BY <2>1, OfSubSeq
<1>3. rest \in Seq(S) /\ ToSet(rest) \subseteq ToSet(s)
  <2>1. i + 1 \in 1 .. Len(s) + 1 /\ Len(s) \in (i + 1) - 1 .. Len(s)
    BY <1>1
  <2> QED
    BY <2>1, OfSubSeq
<1>4. RemoveAt(s, i) = front \o rest
  BY DEF RemoveAt
<1> HIDE DEF front, rest
<1> QED
  BY <1>2, <1>3, <1>4, OfConcat

-----------------------------------------------------------------------------
(* Messages.                                                               *)

LEMMA KeyFacts ==
  /\ Awaited = {"properties", "sasl", "authenticate", "tuned", "open", "versions", "tune"}
  /\ Steps = Awaited \cup {"none", "done", "failed"}
  /\ Keys = Awaited \cup {"query", "close"}
  /\ UserKeys = {"query", "close"}
<1>1. ToSet(Handshake) = {"properties", "sasl", "authenticate", "tuned", "open", "versions"}
  BY DEF ToSet, Handshake
<1> QED
  BY <1>1 DEF Awaited, Steps, Keys, UserKeys

LEMMA MessageFacts ==
  ASSUME NEW m \in Message
  PROVE  /\ m.corr \in Int /\ m.key \in Keys /\ m.by \in Nat /\ m.gen \in Sockets
         /\ m.corr >= -1 /\ (m.corr = -1 <=> m.key = "tune") /\ (m.corr = 0 <=> m.key = "tuned")
  BY DEF Message, TuneId

LEMMA IsMessage ==
  ASSUME NEW c \in Int, NEW key \in Keys, NEW by \in Nat, NEW g \in Sockets,
         c >= -1, c = -1 <=> key = "tune", c = 0 <=> key = "tuned"
  PROVE  [corr |-> c, key |-> key, by |-> by, gen |-> g] \in Message
  BY DEF Message, TuneId

LEMMA TuneIsMessage ==
  ASSUME NEW by \in Nat, NEW g \in Sockets
  PROVE  [corr |-> TuneId, key |-> "tune", by |-> by, gen |-> g] \in Message
  BY KeyFacts DEF Message, TuneId

LEMMA SocketIsNat == Sockets \subseteq Nat
  BY ConnectionAssumption DEF Sockets

(* write adds its frame to writing and, while the socket lives, toBroker.  *)
LEMMA WriteEffect ==
  ASSUME writing \in Seq(Message), toBroker \in Seq(Message), NEW m \in Message, write(m)
  PROVE  /\ writing' \in Seq(Message) /\ ToSet(writing') \subseteq ToSet(writing) \cup {m}
         /\ toBroker' \in Seq(Message) /\ ToSet(toBroker') \subseteq ToSet(toBroker) \cup {m}
<1>1. writing' = Append(writing, m) /\ (toBroker' = Append(toBroker, m) \/ toBroker' = toBroker)
  BY DEF write
<1>2. /\ Append(writing, m) \in Seq(Message)
      /\ ToSet(Append(writing, m)) \subseteq ToSet(writing) \cup {m}
  BY OfAppend
<1>3. /\ Append(toBroker, m) \in Seq(Message)
      /\ ToSet(Append(toBroker, m)) \subseteq ToSet(toBroker) \cup {m}
  BY OfAppend
<1> QED
  BY <1>1, <1>2, <1>3

(* A request has an id beyond all before it.                               *)
Request(r) ==
  /\ r \in Message /\ r.corr = corr + 1 /\ corr' = corr + 1
  /\ ToSet(writing') \subseteq ToSet(writing) \cup {r}
  /\ ToSet(toBroker') \subseteq ToSet(toBroker) \cup {r}

LEMMA SendEffect ==
  ASSUME TypeOK, NEW key \in Keys \ {"tune", "tuned"}, NEW by \in Nat, sendAndWait(key, by)
  PROVE  /\ corr' \in Nat /\ writing' \in Seq(Message) /\ toBroker' \in Seq(Message)
         /\ \E r : Request(r)
<1> DEFINE r == [corr |-> corr + 1, key |-> key, by |-> by, gen |-> gen]
<1>1. corr' = corr + 1 /\ write(r) /\ r.corr = corr + 1
  BY DEF sendAndWait
<1>2. corr \in Nat /\ gen \in Sockets /\ writing \in Seq(Message) /\ toBroker \in Seq(Message)
  BY DEF TypeOK
<1>3. r \in Message
  <2>1. corr + 1 \in Int /\ corr + 1 >= 1
    BY <1>2
  <2> QED
    BY <2>1, <1>2, IsMessage
<1> HIDE DEF r
<1>4. /\ writing' \in Seq(Message) /\ ToSet(writing') \subseteq ToSet(writing) \cup {r}
      /\ toBroker' \in Seq(Message) /\ ToSet(toBroker') \subseteq ToSet(toBroker) \cup {r}
  BY <1>1, <1>2, <1>3, WriteEffect
<1>5. Request(r)
  BY <1>1, <1>3, <1>4 DEF Request
<1> QED
  BY <1>1, <1>2, <1>4, <1>5

(* What is settled wrongly, in either of the two orders.                   *)
Confused(w, m) == m.corr = w.corr /\ w.corr # TuneId /\ m # w

LEMMA WaitEffect ==
  ASSUME TypeOK, NEW w \in Message, NEW q \in Seq(Message), waitResponse(w, q)
  PROVE  /\ waiting' \in Seq(Message) /\ ToSet(waiting') \subseteq ToSet(waiting) \cup {w}
         /\ received' \in Seq(Message) /\ ToSet(received') \subseteq ToSet(received)
         /\ micro' \in Seq(Message) /\ mixed' \in BOOLEAN
         /\ mixed' => mixed \/ \E m \in ToSet(received) : Confused(w, m)
<1>0. waiting \in Seq(Message) /\ received \in Seq(Message) /\ mixed \in BOOLEAN
  BY DEF TypeOK
<1>1. ASSUME NEW i \in DOMAIN received, First(received, w.corr, i),
             received' = RemoveAt(received, i), Settle(w, received[i], q), UNCHANGED waiting
      PROVE  /\ waiting' \in Seq(Message) /\ ToSet(waiting') \subseteq ToSet(waiting) \cup {w}
             /\ received' \in Seq(Message) /\ ToSet(received') \subseteq ToSet(received)
             /\ micro' \in Seq(Message) /\ mixed' \in BOOLEAN
             /\ mixed' => mixed \/ \E m \in ToSet(received) : Confused(w, m)
  <2>1. received' \in Seq(Message) /\ ToSet(received') \subseteq ToSet(received)
    BY <1>0, <1>1, OfRemoveAt
  <2>2. received[i] \in ToSet(received) /\ received[i].corr = w.corr
    BY <1>0, <1>1 DEF First, ToSet
  <2>3. micro' \in Seq(Message)
    BY <1>1, OfAppend DEF Settle
  <2>4. mixed' \in BOOLEAN /\ (mixed' => mixed \/ Confused(w, received[i]))
    BY <1>0, <1>1, <2>2 DEF Settle, Confused
  <2> QED
    BY <1>0, <1>1, <2>1, <2>2, <2>3, <2>4
<1>2. ASSUME waiting' = Append(waiting, w), micro' = q, UNCHANGED <<received, mixed>>
      PROVE  /\ waiting' \in Seq(Message) /\ ToSet(waiting') \subseteq ToSet(waiting) \cup {w}
             /\ received' \in Seq(Message) /\ ToSet(received') \subseteq ToSet(received)
             /\ micro' \in Seq(Message) /\ mixed' \in BOOLEAN
             /\ mixed' => mixed \/ \E m \in ToSet(received) : Confused(w, m)
  <2>1. waiting' \in Seq(Message) /\ ToSet(waiting') \subseteq ToSet(waiting) \cup {w}
    BY <1>0, <1>2, OfAppend
  <2> QED
    BY <1>0, <1>2, <2>1
<1> QED
  BY <1>1, <1>2 DEF waitResponse

LEMMA AnswerEffect ==
  ASSUME TypeOK, NEW m \in Message, responseReceived(m)
  PROVE  /\ waiting' \in Seq(Message) /\ ToSet(waiting') \subseteq ToSet(waiting)
         /\ received' \in Seq(Message) /\ ToSet(received') \subseteq ToSet(received) \cup {m}
         /\ micro' \in Seq(Message) /\ mixed' \in BOOLEAN
         /\ mixed' => mixed \/ \E w \in ToSet(waiting) : Confused(w, m)
<1>0. /\ waiting \in Seq(Message) /\ received \in Seq(Message) /\ mixed \in BOOLEAN
      /\ micro \in Seq(Message)
  BY DEF TypeOK
<1>1. ASSUME NEW i \in DOMAIN waiting, First(waiting, m.corr, i),
             waiting' = RemoveAt(waiting, i), Settle(waiting[i], m, micro), UNCHANGED received
      PROVE  /\ waiting' \in Seq(Message) /\ ToSet(waiting') \subseteq ToSet(waiting)
             /\ received' \in Seq(Message) /\ ToSet(received') \subseteq ToSet(received) \cup {m}
             /\ micro' \in Seq(Message) /\ mixed' \in BOOLEAN
             /\ mixed' => mixed \/ \E w \in ToSet(waiting) : Confused(w, m)
  <2>1. waiting' \in Seq(Message) /\ ToSet(waiting') \subseteq ToSet(waiting)
    BY <1>0, <1>1, OfRemoveAt
  <2>2. waiting[i] \in ToSet(waiting) /\ waiting[i].corr = m.corr
    BY <1>0, <1>1 DEF First, ToSet
  <2>3. waiting[i] \in Message
    BY <1>0, <2>2, Elements
  <2>4. micro' \in Seq(Message)
    BY <1>0, <1>1, <2>3, OfAppend DEF Settle
  <2>5. mixed' \in BOOLEAN /\ (mixed' => mixed \/ Confused(waiting[i], m))
    BY <1>0, <1>1, <2>2 DEF Settle, Confused
  <2> QED
    BY <1>0, <1>1, <2>1, <2>2, <2>4, <2>5
<1>2. ASSUME received' = Append(received, m), UNCHANGED <<waiting, micro, mixed>>
      PROVE  /\ waiting' \in Seq(Message) /\ ToSet(waiting') \subseteq ToSet(waiting)
             /\ received' \in Seq(Message) /\ ToSet(received') \subseteq ToSet(received) \cup {m}
             /\ micro' \in Seq(Message) /\ mixed' \in BOOLEAN
             /\ mixed' => mixed \/ \E w \in ToSet(waiting) : Confused(w, m)
  <2>1. received' \in Seq(Message) /\ ToSet(received') \subseteq ToSet(received) \cup {m}
    BY <1>0, <1>2, OfAppend
  <2> QED
    BY <1>0, <1>2, <2>1
<1> QED
  BY <1>1, <1>2 DEF responseReceived

-----------------------------------------------------------------------------
(* Types.                                                                  *)

LEMMA SpendType ==
  ASSUME TypeOK, NEW e \in Events, Spend(e)
  PROVE  used' \in [Events -> Nat]
  BY DEF TypeOK, Spend

LEMMA LostType ==
  ASSUME Lost
  PROVE  /\ toBroker' \in Seq(Message) /\ fromBroker' \in Seq(Message)
         /\ ToSet(toBroker') = {} /\ ToSet(fromBroker') = {}
<1>1. toBroker' = <<>> /\ fromBroker' = <<>>
  BY DEF Lost
<1>2. <<>> \in Seq(Message) /\ ToSet(<<>>) = {}
  BY OfEmpty
<1> QED
  BY <1>1, <1>2

(* The promise whose continuation runs.                                    *)
LEMMA SettledFacts ==
  ASSUME TypeOK, Running
  PROVE  /\ settled \in Message /\ Tail(micro) \in Seq(Message)
         /\ settled.by \in Nat /\ settled.key \in Keys
<1>1. micro \in Seq(Message) /\ micro # <<>>
  BY DEF TypeOK, Running
<1>2. Head(micro) \in Message /\ Tail(micro) \in Seq(Message)
  BY <1>1, OfTail
<1> QED
  BY <1>2, MessageFacts DEF settled

(* The write whose callback runs.                                          *)
LEMMA WrittenFacts ==
  ASSUME TypeOK, writing # <<>>
  PROVE  /\ Head(writing) \in Message /\ Head(writing) \in ToSet(writing)
         /\ Tail(writing) \in Seq(Message) /\ ToSet(Tail(writing)) \subseteq ToSet(writing)
<1>1. writing \in Seq(Message)
  BY DEF TypeOK
<1> QED
  BY <1>1, OfTail

LEMMA WriteDoneType == TypeOK /\ WriteDone => TypeOK'
<1> SUFFICES ASSUME TypeOK, WriteDone PROVE TypeOK'
  OBVIOUS
<1>1. /\ writing' \in Seq(Message) /\ Head(writing) \in Message /\ micro \in Seq(Message)
  BY WrittenFacts DEF WriteDone, TypeOK
<1>2. /\ waiting' \in Seq(Message) /\ received' \in Seq(Message)
      /\ micro' \in Seq(Message) /\ mixed' \in BOOLEAN
  <2>1. CASE /\ Head(writing).key = "tuned" /\ micro' = Append(micro, Head(writing))
             /\ UNCHANGED <<waiting, received, mixed>>
    <3>1. micro' \in Seq(Message)
      BY <1>1, <2>1, OfAppend
    <3> QED
      BY <2>1, <3>1 DEF TypeOK
  <2>2. CASE waitResponse(Head(writing), micro)
    BY <1>1, <2>2, WaitEffect
  <2> QED
    BY <2>1, <2>2 DEF WriteDone
<1> QED
  BY <1>1, <1>2 DEF TypeOK, WriteDone

LEMMA WriteFailsType == TypeOK /\ WriteFails => TypeOK'
<1> SUFFICES ASSUME TypeOK, WriteFails PROVE TypeOK'
  OBVIOUS
<1>1. writing' \in Seq(Message)
  BY WrittenFacts DEF WriteFails
<1>2. calls' \in [Requests -> {"idle", "called", "answered", "failed"}]
  BY DEF WriteFails, TypeOK
<1>3. step' \in [Sockets -> Steps]
  BY KeyFacts DEF WriteFails, TypeOK
<1> QED
  BY <1>1, <1>2, <1>3 DEF TypeOK, WriteFails, history

LEMMA DataEffect ==
  ASSUME TypeOK, Data
  PROVE  /\ batch' \in Seq(Message) /\ ToSet(batch') \subseteq ToSet(fromBroker)
         /\ fromBroker' \in Seq(Message) /\ ToSet(fromBroker') \subseteq ToSet(fromBroker)
         /\ lastData' \in {"empty", "part", "stale"}
<1>1. PICK n \in 0 .. Len(fromBroker), half \in BOOLEAN :
        /\ batch' = SubSeq(fromBroker, 1, n)
        /\ fromBroker' = SubSeq(fromBroker, n + 1, Len(fromBroker))
        /\ lastData' = IF half THEN "part" ELSE "empty"
  BY DEF Data
<1>2. fromBroker \in Seq(Message) /\ Len(fromBroker) \in Nat
  BY LenProperties DEF TypeOK
<1>3. /\ 1 \in 1 .. Len(fromBroker) + 1 /\ n \in 1 - 1 .. Len(fromBroker)
      /\ n + 1 \in 1 .. Len(fromBroker) + 1 /\ Len(fromBroker) \in (n + 1) - 1 .. Len(fromBroker)
  BY <1>2
<1>4. batch' \in Seq(Message) /\ ToSet(batch') \subseteq ToSet(fromBroker)
  BY <1>1, <1>2, <1>3, OfSubSeq
<1>5. fromBroker' \in Seq(Message) /\ ToSet(fromBroker') \subseteq ToSet(fromBroker)
  BY <1>1, <1>2, <1>3, OfSubSeq
<1> QED
  BY <1>1, <1>4, <1>5

LEMMA EmitEffect ==
  ASSUME TypeOK, Emit
  PROVE  /\ Head(batch) \in Message /\ Head(batch) \in ToSet(batch)
         /\ batch' \in Seq(Message) /\ ToSet(batch') \subseteq ToSet(batch)
         /\ responseReceived(Head(batch))
<1>1. batch \in Seq(Message) /\ batch # <<>> /\ batch' = Tail(batch)
  BY DEF TypeOK, Emit
<1>2. /\ Head(batch) \in Message /\ Head(batch) \in ToSet(batch)
      /\ Tail(batch) \in Seq(Message) /\ ToSet(Tail(batch)) \subseteq ToSet(batch)
  BY <1>1, OfTail
<1> QED
  BY <1>1, <1>2 DEF Emit

(* The answers of the broker to m: m itself, Tune, or nothing.             *)
LEMMA AnswerType ==
  ASSUME NEW m \in Message
  PROVE  /\ Answer(m) \in Seq(Message)
         /\ \A a \in ToSet(Answer(m)) : a = m \/ a.corr = -1
<1>1. Tune(m) \in Message /\ Tune(m).corr = -1
  <2>1. m.by \in Nat /\ m.gen \in Sockets
    BY MessageFacts
  <2> QED
    BY <2>1, TuneIsMessage DEF Tune, TuneId
<1> DEFINE t == Tune(m)
<1> HIDE DEF t
<1>2. <<m, t>> \in Seq(Message) /\ ToSet(<<m, t>>) = {m, t}
  BY <1>1 DEF t, ToSet
<1>3. <<m>> \in Seq(Message) /\ ToSet(<<m>>) = {m}
  BY DEF ToSet
<1>4. <<>> \in Seq(Message) /\ ToSet(<<>>) = {}
  BY OfEmpty
<1>5. Answer(m) \in {<<m, t>>, <<m>>, <<>>}
  BY DEF Answer, t
<1> QED
  BY <1>1, <1>2, <1>3, <1>4, <1>5 DEF t

LEMMA BrokerReadsEffect ==
  ASSUME TypeOK, BrokerReads
  PROVE  /\ toBroker' \in Seq(Message) /\ ToSet(toBroker') \subseteq ToSet(toBroker)
         /\ fromBroker' \in Seq(Message)
         /\ \A m \in ToSet(fromBroker') :
              m \in ToSet(fromBroker) \cup ToSet(toBroker) \/ m.corr = -1
<1> DEFINE m == Head(toBroker)
<1>1. /\ toBroker \in Seq(Message) /\ toBroker # <<>> /\ fromBroker \in Seq(Message)
      /\ toBroker' = Tail(toBroker) /\ fromBroker' = fromBroker \o Answer(m)
  BY DEF TypeOK, BrokerReads
<1>2. /\ m \in Message /\ m \in ToSet(toBroker)
      /\ toBroker' \in Seq(Message) /\ ToSet(toBroker') \subseteq ToSet(toBroker)
  BY <1>1, OfTail
<1>3. Answer(m) \in Seq(Message) /\ \A a \in ToSet(Answer(m)) : a = m \/ a.corr = -1
  BY <1>2, AnswerType
<1> HIDE DEF m
<1>4. /\ fromBroker' \in Seq(Message)
      /\ ToSet(fromBroker') \subseteq ToSet(fromBroker) \cup ToSet(Answer(m))
  BY <1>1, <1>3, OfConcat
<1> QED
  BY <1>2, <1>3, <1>4

LEMMA StepType == TypeOK /\ [Next]_vars => TypeOK'
<1> SUFFICES ASSUME TypeOK, [Next]_vars PROVE TypeOK'
  OBVIOUS
<1> USE DEF history, wires, client
<1>0. Sockets \subseteq Nat /\ gen \in Sockets
  BY SocketIsNat DEF TypeOK
<1>1. CASE UNCHANGED vars
  BY <1>1 DEF TypeOK, vars
<1>2. ASSUME NEW r \in Requests, Call(r) PROVE TypeOK'
  <2>1. PICK key \in UserKeys : sendAndWait(key, r)
    BY <1>2 DEF Call
  <2>2. key \in Keys \ {"tune", "tuned"} /\ r \in Nat
    BY KeyFacts, ConnectionAssumption
  <2>3. corr' \in Nat /\ writing' \in Seq(Message) /\ toBroker' \in Seq(Message)
    BY <2>1, <2>2, SendEffect
  <2>4. used' \in [Events -> Nat]
    BY <1>2, SpendType DEF Call, TypeOK, Events
  <2>5. calls' \in [Requests -> {"idle", "called", "answered", "failed"}]
    BY <1>2 DEF Call, TypeOK
  <2> QED
    BY <1>2, <2>3, <2>4, <2>5 DEF Call, TypeOK
<1>3. CASE WriteDone
  BY <1>3, WriteDoneType
<1>4. CASE WriteFails
  BY <1>4, WriteFailsType
<1>5. CASE Data
  BY <1>5, DataEffect DEF Data, TypeOK
<1>6. CASE DataGarbled
  <2>1. fromBroker' \in Seq(Message)
    BY <1>6, OfEmpty DEF DataGarbled
  <2> QED
    BY <1>6, <2>1 DEF DataGarbled, TypeOK
<1>7. CASE Emit
  <2>1. Head(batch) \in Message /\ batch' \in Seq(Message) /\ responseReceived(Head(batch))
    BY <1>7, EmitEffect
  <2>2. /\ waiting' \in Seq(Message) /\ received' \in Seq(Message)
        /\ micro' \in Seq(Message) /\ mixed' \in BOOLEAN
    BY <2>1, AnswerEffect
  <2> QED
    BY <1>7, <2>1, <2>2 DEF Emit, TypeOK
<1>8. CASE Answered
  <2>1. micro' \in Seq(Message)
    BY <1>8, SettledFacts DEF Answered
  <2>2. calls' \in [Requests -> {"idle", "called", "answered", "failed"}]
    BY <1>8 DEF Answered, TypeOK
  <2> QED
    BY <1>8, <2>1, <2>2 DEF Answered, TypeOK
<1>9. CASE CloseAnswered
  <2>1. micro' \in Seq(Message)
    BY <1>9, SettledFacts DEF CloseAnswered
  <2>2. calls' \in [Requests -> {"idle", "called", "answered", "failed"}]
    BY <1>9 DEF CloseAnswered, TypeOK
  <2> QED
    BY <1>9, <2>1, <2>2 DEF CloseAnswered, TypeOK
<1>10. CASE Advance
  <2>1. After(settled.key) \in Keys \ {"tune", "tuned"} /\ After(settled.key) \in Steps
    BY <1>10, KeyFacts DEF Advance, After
  <2>2. settled.by \in Nat /\ Tail(micro) \in Seq(Message)
    BY <1>10, SettledFacts DEF Advance
  <2>3. corr' \in Nat /\ writing' \in Seq(Message) /\ toBroker' \in Seq(Message)
    BY <1>10, <2>1, <2>2, SendEffect DEF Advance
  <2>4. step' \in [Sockets -> Steps]
    BY <1>10, <2>1 DEF Advance, TypeOK
  <2> QED
    BY <1>10, <2>2, <2>3, <2>4 DEF Advance, TypeOK
<1>11. CASE AwaitTune
  <2>1. settled.by \in Nat /\ Tail(micro) \in Seq(Message)
    BY <1>11, SettledFacts DEF AwaitTune
  <2> DEFINE w == [corr |-> TuneId, key |-> "tune", by |-> settled.by, gen |-> gen]
  <2>2. w \in Message
    BY <1>0, <2>1, TuneIsMessage
  <2>3. waitResponse(w, Tail(micro))
    BY <1>11 DEF AwaitTune
  <2> HIDE DEF w
  <2>4. /\ waiting' \in Seq(Message) /\ received' \in Seq(Message)
        /\ micro' \in Seq(Message) /\ mixed' \in BOOLEAN
    BY <2>1, <2>2, <2>3, WaitEffect
  <2>5. step' \in [Sockets -> Steps]
    BY <1>11, KeyFacts DEF AwaitTune, TypeOK
  <2> QED
    BY <1>11, <2>4, <2>5 DEF AwaitTune, TypeOK
<1>12. CASE AnswerTune
  <2>1. settled.by \in Nat /\ Tail(micro) \in Seq(Message)
    BY <1>12, SettledFacts DEF AnswerTune
  <2> DEFINE m == [corr |-> 0, key |-> "tuned", by |-> settled.by, gen |-> gen]
  <2>2. m \in Message
    <3>1. "tuned" \in Keys
      BY KeyFacts
    <3>2. gen \in Sockets /\ 0 \in Int /\ 0 >= -1 /\ ~(0 = -1) /\ "tuned" # "tune"
      BY <1>0
    <3> QED
      BY <2>1, <3>1, <3>2, IsMessage, SMTT(30)
  <2>3. write(m)
    BY <1>12 DEF AnswerTune
  <2> HIDE DEF m
  <2>4. writing' \in Seq(Message) /\ toBroker' \in Seq(Message)
    BY <2>2, <2>3, WriteEffect DEF TypeOK
  <2>5. step' \in [Sockets -> Steps]
    BY <1>12, KeyFacts DEF AnswerTune, TypeOK
  <2> QED
    BY <1>12, <2>1, <2>4, <2>5 DEF AnswerTune, TypeOK
<1>13. CASE SetupCompleted
  <2>1. micro' \in Seq(Message)
    BY <1>13, SettledFacts DEF SetupCompleted
  <2>2. step' \in [Sockets -> Steps]
    BY <1>13, KeyFacts DEF SetupCompleted, TypeOK
  <2> QED
    BY <1>13, <2>1, <2>2 DEF SetupCompleted, TypeOK
<1>14. CASE SocketConnects
  <2>1. "properties" \in Keys \ {"tune", "tuned"} /\ "properties" \in Steps
    BY KeyFacts
  <2>2. corr' \in Nat /\ writing' \in Seq(Message) /\ toBroker' \in Seq(Message)
    BY <1>0, <1>14, <2>1, SendEffect DEF SocketConnects
  <2>3. step' \in [Sockets -> Steps]
    BY <1>14, <2>1 DEF SocketConnects, TypeOK
  <2> QED
    BY <1>14, <2>2, <2>3 DEF SocketConnects, TypeOK
<1>15. CASE SocketCloses
  BY <1>15 DEF SocketCloses, TypeOK
<1>16. CASE BrokerReads
  <2>1. toBroker' \in Seq(Message) /\ fromBroker' \in Seq(Message)
    BY <1>16, BrokerReadsEffect
  <2>2. level' \in Nat
    BY <1>16 DEF BrokerReads, TypeOK, Closing, Handshake
  <2> QED
    BY <1>16, <2>1, <2>2 DEF BrokerReads, TypeOK
<1>17. CASE BrokerRefuses
  BY <1>17, LostType DEF BrokerRefuses, TypeOK
<1>18. CASE Drop
  <2>1. used' \in [Events -> Nat]
    BY <1>18, SpendType DEF Drop, Events
  <2> QED
    BY <1>18, <2>1, LostType DEF Drop, TypeOK
<1>19. CASE Restart
  <2>1. used' \in [Events -> Nat]
    BY <1>19, SpendType DEF Restart, Events, TypeOK
  <2>2. gen' \in Sockets
    BY <1>0, <1>19, ConnectionAssumption DEF Restart, Sockets
  <2> QED
    BY <1>19, <2>1, <2>2, LostType DEF Restart, TypeOK
<1> QED
  BY <1>1, <1>2, <1>3, <1>4, <1>5, <1>6, <1>7, <1>8, <1>9, <1>10, <1>11, <1>12, <1>13,
     <1>14, <1>15, <1>16, <1>17, <1>18, <1>19 DEF Next, Task, Broker

LEMMA InitType == Init => TypeOK
<1> SUFFICES ASSUME Init PROVE TypeOK
  OBVIOUS
<1>1. 1 \in Sockets
  BY ConnectionAssumption DEF Sockets
<1>2. <<>> \in Seq(Message)
  BY OfEmpty
<1>3. "none" \in Steps
  BY KeyFacts
<1> QED
  BY <1>1, <1>2, <1>3 DEF Init, TypeOK

(* The types: every frame, waiter and answer is a message, and only Tune   *)
(* and the answer to it have the two ids that are no request's.            *)
THEOREM TypeCorrect == Spec => []TypeOK
<1> QED
  BY InitType, StepType, PTL DEF Spec

-----------------------------------------------------------------------------
(* Correlation.  A request and its answer are one message on its way; an   *)
(* id belongs to one message, wherever it is and whatever socket it was    *)
(* written on, because the counter is never reset.                         *)

Traffic == ToSet(writing) \cup ToSet(toBroker) \cup ToSet(fromBroker) \cup ToSet(batch)
             \cup ToSet(waiting) \cup ToSet(received)

IdsBelow == \A m \in Traffic : m.corr <= corr
OneMessage == \A m, n \in Traffic : m.corr = n.corr /\ m.corr > 0 => m = n
WaitersHaveIds == \A w \in ToSet(waiting) : w.corr # 0
MatchInv == IdsBelow /\ OneMessage /\ WaitersHaveIds /\ ~mixed

(* Steps that send no request: messages move, and Tune or its answer come. *)
Moves == corr' = corr /\ \A m \in Traffic' : m \in Traffic \/ m.corr \in {-1, 0}

(* Steps that send one.                                                    *)
Sends == \E r : Request(r) /\ \A m \in Traffic' : m \in Traffic \/ m = r

LEMMA TrafficFacts ==
  ASSUME TypeOK, NEW m \in Traffic
  PROVE  m \in Message /\ m.corr \in Int /\ corr \in Nat
<1>1. m \in Message
  BY Elements DEF Traffic, TypeOK
<1> QED
  BY <1>1, MessageFacts DEF TypeOK

LEMMA MovesIds ==
  ASSUME TypeOK, IdsBelow, OneMessage, Moves
  PROVE  IdsBelow' /\ OneMessage'
<1>1. corr \in Nat /\ corr' = corr
  BY DEF TypeOK, Moves
<1>2. IdsBelow'
  BY <1>1 DEF Moves, IdsBelow
<1>3. OneMessage'
  BY DEF Moves, OneMessage
<1> QED
  BY <1>2, <1>3

LEMMA SendsIds ==
  ASSUME TypeOK, IdsBelow, OneMessage, Sends
  PROVE  IdsBelow' /\ OneMessage'
<1>1. PICK r : Request(r) /\ \A m \in Traffic' : m \in Traffic \/ m = r
  BY DEF Sends
<1>2. corr \in Nat /\ corr' = corr + 1 /\ r.corr = corr + 1
  BY <1>1 DEF TypeOK, Request
<1>3. \A m \in Traffic : m.corr \in Int /\ m.corr <= corr
  BY TrafficFacts DEF IdsBelow
<1>4. IdsBelow'
  <2> SUFFICES ASSUME NEW m \in Traffic' PROVE m.corr <= corr'
    BY DEF IdsBelow
  <2> QED
    BY <1>1, <1>2, <1>3
<1>5. OneMessage'
  <2> SUFFICES ASSUME NEW m \in Traffic', NEW n \in Traffic', m.corr = n.corr, m.corr > 0
               PROVE  m = n
    BY DEF OneMessage
  <2>1. CASE m \in Traffic /\ n \in Traffic
    BY <2>1 DEF OneMessage
  <2>2. CASE m = r /\ n \in Traffic
    BY <2>2, <1>2, <1>3
  <2>3. CASE m \in Traffic /\ n = r
    BY <2>3, <1>2, <1>3
  <2> QED
    BY <1>1, <2>1, <2>2, <2>3
<1> QED
  BY <1>4, <1>5

(* Nothing that is around can be confused.                                 *)
LEMMA NoConfusion ==
  ASSUME TypeOK, OneMessage, NEW w \in Traffic, NEW m \in Traffic, w.corr # 0
  PROVE  ~Confused(w, m)
<1>1. w \in Message /\ w.corr \in Int /\ w.corr >= -1
  BY TrafficFacts, MessageFacts
<1>2. w.corr = -1 \/ w.corr > 0
  BY <1>1
<1> QED
  BY <1>2 DEF Confused, TuneId, OneMessage

LEMMA Quiet ==
  ASSUME MatchInv, UNCHANGED <<corr, writing, toBroker, fromBroker, batch, waiting, received, mixed>>
  PROVE  MatchInv'
  BY DEF MatchInv, IdsBelow, OneMessage, WaitersHaveIds, Traffic

(* A step that moves messages, with no change to who waits.                *)
LEMMA MovesMatch ==
  ASSUME TypeOK, MatchInv, Moves \/ Sends, UNCHANGED <<waiting, mixed>>
  PROVE  MatchInv'
<1>1. IdsBelow' /\ OneMessage'
  BY MovesIds, SendsIds DEF MatchInv
<1> QED
  BY <1>1 DEF MatchInv, WaitersHaveIds

LEMMA SendsMatch ==
  ASSUME TypeOK, MatchInv, NEW key \in Keys \ {"tune", "tuned"}, NEW by \in Nat,
         sendAndWait(key, by), UNCHANGED <<waiting, received, batch, fromBroker, mixed>>
  PROVE  MatchInv'
<1>1. PICK r : Request(r)
  BY SendEffect
<1>2. Sends
  <2>1. \A m \in Traffic' : m \in Traffic \/ m = r
    BY <1>1 DEF Request, Traffic
  <2> QED
    BY <1>1, <2>1 DEF Sends
<1> QED
  BY <1>2, MovesMatch

LEMMA LosesMatch ==
  ASSUME TypeOK, MatchInv, Lost, UNCHANGED <<corr, writing, waiting, received, batch, mixed>>
  PROVE  MatchInv'
<1>1. Moves
  BY LostType DEF Moves, Traffic
<1> QED
  BY <1>1, MovesMatch

LEMMA WriteDoneMatch == TypeOK /\ MatchInv /\ WriteDone => MatchInv'
<1> SUFFICES ASSUME TypeOK, MatchInv, WriteDone PROVE MatchInv'
  OBVIOUS
<1> DEFINE w == Head(writing)
<1>1. /\ w \in Message /\ w \in ToSet(writing)
      /\ ToSet(writing') \subseteq ToSet(writing) /\ micro \in Seq(Message)
  BY WrittenFacts DEF WriteDone, TypeOK
<1>2. UNCHANGED <<corr, batch, toBroker, fromBroker>>
  BY DEF WriteDone
<1>3. CASE UNCHANGED <<waiting, received, mixed>>
  <2>1. Moves
    BY <1>1, <1>2, <1>3 DEF Moves, Traffic
  <2> QED
    BY <1>3, <2>1, MovesMatch
<1>4. CASE w.key # "tuned" /\ waitResponse(w, micro)
  <2>0. w.corr # 0 /\ w \in Traffic
    BY <1>1, <1>4, MessageFacts DEF Traffic
  <2> HIDE DEF w
  <2>1. /\ ToSet(waiting') \subseteq ToSet(waiting) \cup {w}
        /\ ToSet(received') \subseteq ToSet(received) /\ mixed' \in BOOLEAN
        /\ mixed' => mixed \/ \E m \in ToSet(received) : Confused(w, m)
    BY <1>1, <1>4, WaitEffect
  <2>2. Moves
    BY <1>1, <1>2, <2>1 DEF Moves, Traffic
  <2>3. IdsBelow' /\ OneMessage'
    BY <2>2, MovesIds DEF MatchInv
  <2>4. WaitersHaveIds'
    BY <2>0, <2>1 DEF MatchInv, WaitersHaveIds
  <2>5. \A m \in ToSet(received) : ~Confused(w, m)
    BY <2>0, NoConfusion DEF MatchInv, Traffic
  <2>6. ~mixed'
    BY <2>1, <2>5 DEF MatchInv
  <2> QED
    BY <2>3, <2>4, <2>6 DEF MatchInv
<1> QED
  BY <1>3, <1>4 DEF WriteDone

LEMMA EmitMatch == TypeOK /\ MatchInv /\ Emit => MatchInv'
<1> SUFFICES ASSUME TypeOK, MatchInv, Emit PROVE MatchInv'
  OBVIOUS
<1> DEFINE m == Head(batch)
<1>1. /\ m \in Message /\ m \in ToSet(batch)
      /\ ToSet(batch') \subseteq ToSet(batch) /\ responseReceived(m)
  BY EmitEffect
<1>2. UNCHANGED <<corr, writing, toBroker, fromBroker>>
  BY DEF Emit, wires
<1> HIDE DEF m
<1>3. /\ ToSet(waiting') \subseteq ToSet(waiting)
      /\ ToSet(received') \subseteq ToSet(received) \cup {m} /\ mixed' \in BOOLEAN
      /\ mixed' => mixed \/ \E w \in ToSet(waiting) : Confused(w, m)
  BY <1>1, AnswerEffect
<1>4. Moves
  BY <1>1, <1>2, <1>3 DEF Moves, Traffic
<1>5. IdsBelow' /\ OneMessage'
  BY <1>4, MovesIds DEF MatchInv
<1>6. \A w \in ToSet(waiting) : ~Confused(w, m)
  BY <1>1, NoConfusion DEF MatchInv, WaitersHaveIds, Traffic
<1>7. WaitersHaveIds'
  BY <1>3 DEF MatchInv, WaitersHaveIds
<1> QED
  BY <1>3, <1>5, <1>6, <1>7 DEF MatchInv

LEMMA AwaitTuneMatch == TypeOK /\ MatchInv /\ AwaitTune => MatchInv'
<1> SUFFICES ASSUME TypeOK, MatchInv, AwaitTune PROVE MatchInv'
  OBVIOUS
<1> DEFINE w == [corr |-> TuneId, key |-> "tune", by |-> settled.by, gen |-> gen]
<1>1. w \in Message /\ w.corr = -1 /\ Tail(micro) \in Seq(Message)
  <2>1. settled.by \in Nat /\ Tail(micro) \in Seq(Message) /\ gen \in Sockets
    BY SettledFacts DEF AwaitTune, TypeOK
  <2> QED
    BY <2>1, TuneIsMessage DEF TuneId
<1>2. waitResponse(w, Tail(micro)) /\ UNCHANGED <<corr, writing, toBroker, fromBroker, batch>>
  BY DEF AwaitTune, wires
<1> HIDE DEF w
<1>3. /\ ToSet(waiting') \subseteq ToSet(waiting) \cup {w}
      /\ ToSet(received') \subseteq ToSet(received) /\ mixed' \in BOOLEAN
      /\ mixed' => mixed \/ \E m \in ToSet(received) : Confused(w, m)
  BY <1>1, <1>2, WaitEffect
<1>4. Moves
  BY <1>1, <1>2, <1>3 DEF Moves, Traffic
<1>5. IdsBelow' /\ OneMessage'
  BY <1>4, MovesIds DEF MatchInv
<1>6. WaitersHaveIds'
  BY <1>1, <1>3 DEF MatchInv, WaitersHaveIds
<1>7. ~mixed'
  BY <1>1, <1>3 DEF MatchInv, Confused, TuneId
<1> QED
  BY <1>5, <1>6, <1>7 DEF MatchInv

LEMMA StepMatch == TypeOK /\ MatchInv /\ [Next]_vars => MatchInv'
<1> SUFFICES ASSUME TypeOK, MatchInv, [Next]_vars PROVE MatchInv'
  OBVIOUS
<1> USE DEF history, wires, client
<1>1. CASE UNCHANGED vars
  BY <1>1, Quiet DEF vars
<1>2. ASSUME NEW r \in Requests, Call(r) PROVE MatchInv'
  <2>1. PICK key \in UserKeys : sendAndWait(key, r)
    BY <1>2 DEF Call
  <2>2. key \in Keys \ {"tune", "tuned"} /\ r \in Nat
    BY KeyFacts, ConnectionAssumption
  <2> QED
    BY <1>2, <2>1, <2>2, SendsMatch DEF Call
<1>3. CASE WriteDone
  BY <1>3, WriteDoneMatch
<1>4. CASE WriteFails
  <2>1. ToSet(writing') \subseteq ToSet(writing)
    BY <1>4, WrittenFacts DEF WriteFails
  <2>2. Moves
    BY <1>4, <2>1 DEF WriteFails, Moves, Traffic
  <2> QED
    BY <1>4, <2>2, MovesMatch DEF WriteFails
<1>5. CASE Data
  <2>1. Moves
    BY <1>5, DataEffect DEF Data, Moves, Traffic
  <2> QED
    BY <1>5, <2>1, MovesMatch DEF Data
<1>6. CASE DataGarbled
  <2>1. ToSet(fromBroker') = {}
    BY <1>6, OfEmpty DEF DataGarbled
  <2>2. Moves
    BY <1>6, <2>1 DEF DataGarbled, Moves, Traffic
  <2> QED
    BY <1>6, <2>2, MovesMatch DEF DataGarbled
<1>7. CASE Emit
  BY <1>7, EmitMatch
<1>8. CASE Answered \/ CloseAnswered \/ SetupCompleted \/ SocketCloses
  BY <1>8, Quiet DEF Answered, CloseAnswered, SetupCompleted, SocketCloses
<1>9. CASE Advance
  <2>1. After(settled.key) \in Keys \ {"tune", "tuned"} /\ settled.by \in Nat
    BY <1>9, KeyFacts, SettledFacts DEF Advance, After
  <2> QED
    BY <1>9, <2>1, SendsMatch DEF Advance
<1>10. CASE AwaitTune
  BY <1>10, AwaitTuneMatch
<1>11. CASE AnswerTune
  <2> DEFINE m == [corr |-> 0, key |-> "tuned", by |-> settled.by, gen |-> gen]
  <2>1. m \in Message /\ m.corr = 0
    <3>1. settled.by \in Nat /\ gen \in Sockets /\ "tuned" \in Keys
      BY <1>11, SettledFacts, KeyFacts DEF AnswerTune, TypeOK
    <3> QED
      BY <3>1, IsMessage
  <2>2. write(m)
    BY <1>11 DEF AnswerTune
  <2> HIDE DEF m
  <2>3. /\ ToSet(writing') \subseteq ToSet(writing) \cup {m}
        /\ ToSet(toBroker') \subseteq ToSet(toBroker) \cup {m}
    BY <2>1, <2>2, WriteEffect DEF TypeOK
  <2>4. Moves
    BY <1>11, <2>1, <2>3 DEF AnswerTune, Moves, Traffic
  <2> QED
    BY <1>11, <2>4, MovesMatch DEF AnswerTune
<1>12. CASE SocketConnects
  <2>1. "properties" \in Keys \ {"tune", "tuned"} /\ gen \in Nat
    BY KeyFacts, SocketIsNat DEF TypeOK
  <2> QED
    BY <1>12, <2>1, SendsMatch DEF SocketConnects
<1>13. CASE BrokerReads
  <2>1. Moves
    BY <1>13, BrokerReadsEffect DEF BrokerReads, Moves, Traffic
  <2> QED
    BY <1>13, <2>1, MovesMatch DEF BrokerReads
<1>14. CASE BrokerRefuses
  BY <1>14, LosesMatch DEF BrokerRefuses
<1>15. CASE Drop
  BY <1>15, LosesMatch DEF Drop
<1>16. CASE Restart
  BY <1>16, LosesMatch DEF Restart
<1> QED
  BY <1>1, <1>2, <1>3, <1>4, <1>5, <1>6, <1>7, <1>8, <1>9, <1>10, <1>11, <1>12, <1>13,
     <1>14, <1>15, <1>16 DEF Next, Task, Broker

LEMMA InitMatch == Init => MatchInv
<1> SUFFICES ASSUME Init PROVE MatchInv
  OBVIOUS
<1>1. Traffic = {} /\ ToSet(waiting) = {}
  BY OfEmpty DEF Init, Traffic
<1> QED
  BY <1>1 DEF Init, MatchInv, IdsBelow, OneMessage, WaitersHaveIds

(* A request is settled by its own answer only, for any number of calls,   *)
(* sockets, drops and restarts, and requests at any time.                  *)
THEOREM AnswersAreMatched == Spec => []AnswersMatch
<1>1. Init => TypeOK /\ MatchInv
  BY InitType, InitMatch
<1>2. TypeOK /\ MatchInv /\ [Next]_vars => (TypeOK /\ MatchInv)'
  BY StepType, StepMatch
<1>3. MatchInv => AnswersMatch
  BY DEF MatchInv, AnswersMatch
<1> QED
  BY <1>1, <1>2, <1>3, PTL DEF Spec

-----------------------------------------------------------------------------
(* The order of the handshake.                                             *)
(*                                                                         *)
(* A handshake cut off while it waits for Tune leaves a waiter behind,     *)
(* which takes the Tune of a later socket: then two continuations of tune  *)
(* are about, one with nothing to answer.  The broker is still asked in    *)
(* order, because of what Tuned says: once Tune was taken, or answered, on *)
(* a socket, no other Tune can reach a waiter on it.                       *)

(* The application does what HandshakeInOrder assumes of it.               *)
Orderly == used["early"] + used["restart"] = 0

(* Sequence s has a member of M; at most one.                              *)
Has(s, M) == \E i \in DOMAIN s : s[i] \in M
Single(s, M) == \A i, j \in DOMAIN s : s[i] \in M /\ s[j] \in M => i = j

(* The frames of step k of the current socket's handshake; who waits for   *)
(* their answers, or is about to; how many steps were sent to the broker.  *)
Frames(k) == {m \in Message : m.gen = gen /\ m.key = Handshake[k]}
Tunes == {m \in Message : m.key = "tune"}
Places == 1 .. 6

Wanted(M) == Has(writing, M) \/ Has(waiting, M) \/ Has(micro, M)
Asked(k) == Wanted(Frames(k))
sent == IF level >= 6 THEN 6 ELSE level + Len(toBroker)
(* A Tune is on its way to the client; or the broker still has to send it. *)
Offered == Has(fromBroker, Tunes) \/ Has(batch, Tunes)
Underway == Has(toBroker, Frames(3)) \/ Offered

(* Of any socket: nothing is of a later one, what is under way is of the   *)
(* current one, and only Tune, which is of none, ever crosses.             *)
Later == {m \in Message : m.gen > gen}
Foreign == {m \in Message : m.gen # gen}
Stray == {m \in Message : m.gen # gen /\ m.key # "tune"}
Current == {m \in Message : m.gen = gen}
Recent ==
  /\ ~Has(waiting, Later) /\ ~Has(received, Later)
  /\ ~Has(writing, Foreign) /\ ~Has(toBroker, Foreign)
  /\ ~Has(fromBroker, Foreign) /\ ~Has(batch, Foreign)
  /\ ~Has(writing, Tunes) /\ ~Has(toBroker, Tunes)
  /\ ~Has(micro, Stray)
OneSide == ~(Has(waiting, Tunes) /\ Has(received, Tunes))
(* Between two sockets, and before the first one opens, nothing runs.      *)
Resting ==
  sock \in {"connecting", "closed"} => ~ready /\ Idle /\ writing = <<>>
NewSocket ==
  sock = "connecting" =>
    /\ level = 0 /\ toBroker = <<>> /\ fromBroker = <<>>
    /\ ~Has(waiting, Current) /\ ~Has(received, Current)

(* Of an open socket: the frames on their way are the next of the          *)
(* handshake, or requests after it (InTurn); each is asked for once, and   *)
(* only the latest, but for authenticate, whose answer Tune may overtake   *)
(* (Asking); nothing is answered that was not read (Reached).              *)
ReadyLate == ready => level >= 6
InTurn ==
  \A i \in DOMAIN toBroker :
    \/ level + i <= 6 /\ toBroker[i].key = Handshake[level + i]
    \/ level >= 6 /\ toBroker[i].key \in UserKeys
OneAsks(M) ==
  /\ Single(writing, M) /\ Single(waiting, M) /\ Single(micro, M)
  /\ ~(Has(writing, M) /\ Has(waiting, M))
  /\ ~(Has(writing, M) /\ Has(micro, M))
  /\ ~(Has(waiting, M) /\ Has(micro, M))
Asking ==
  \A k \in Places :
    /\ OneAsks(Frames(k))
    /\ Asked(k) => IF k = 3 THEN sent >= 3 ELSE sent = k
Reached ==
  /\ \A k \in Places \ {4} :
       Has(fromBroker, Frames(k)) \/ Has(batch, Frames(k)) \/ Has(received, Frames(k))
         \/ Has(micro, Frames(k)) => level >= k
  /\ Offered => level >= 3
(* A socket has one Tune, and whoever takes it does so when it is due ...  *)
OneTune ==
  /\ Single(fromBroker, Tunes) /\ Single(batch, Tunes)
  /\ ~(Has(fromBroker, Tunes) /\ Has(batch, Tunes))
  /\ Single(micro, Tunes)
  /\ Has(micro, Tunes) => sent = 3
(* ... after which nobody can take another.                                *)
Tuned ==
  sent >= 4 \/ Has(micro, Tunes) =>
    /\ ~(Underway /\ Has(waiting, Tunes))
    /\ ~(Asked(3) /\ Has(received, Tunes))
    /\ ~(Asked(3) /\ Underway)
Ordered == ReadyLate /\ InTurn /\ Asking /\ Reached /\ OneTune /\ Tuned
Quietly == Recent /\ OneSide /\ Resting /\ NewSocket
Steadily == Quietly /\ (sock = "open" => Ordered)
OrderInv == Orderly => Steadily /\ ~disorder

-----------------------------------------------------------------------------
(* What is in a sequence, and whether once, as it grows and shrinks.       *)

LEMMA HasInSet ==
  ASSUME NEW s \in Seq(Message), NEW M
  PROVE  Has(s, M) <=> \E m \in ToSet(s) : m \in M
  BY DEF Has, ToSet

LEMMA HasEmpty ==
  ASSUME NEW s, s = <<>>, NEW M
  PROVE  ~Has(s, M) /\ Single(s, M)
  BY EmptySeq, LenProperties DEF Has, Single

LEMMA HasAppend ==
  ASSUME NEW s \in Seq(Message), NEW e \in Message, NEW t, t = Append(s, e), NEW M
  PROVE  /\ Has(t, M) <=> Has(s, M) \/ e \in M
         /\ Single(s, M) /\ ~(e \in M /\ Has(s, M)) => Single(t, M)
<1>1. /\ t \in Seq(Message) /\ Len(t) = Len(s) + 1 /\ Len(s) \in Nat
      /\ \A i \in 1 .. Len(s) : t[i] = s[i]
      /\ t[Len(s) + 1] = e
  BY AppendProperties, LenProperties
<1>2. DOMAIN t = 1 .. Len(s) + 1 /\ DOMAIN s = 1 .. Len(s)
  BY <1>1, LenProperties
<1>3. \A i \in DOMAIN t : i \in DOMAIN s \/ i = Len(s) + 1
  BY <1>1, <1>2
<1>4. DOMAIN s \subseteq DOMAIN t /\ Len(s) + 1 \in DOMAIN t
  BY <1>1, <1>2
<1>5. \A i \in DOMAIN s : t[i] = s[i]
  BY <1>1, <1>2
<1>6. Has(t, M) <=> Has(s, M) \/ e \in M
  BY <1>1, <1>3, <1>4, <1>5 DEF Has
<1>7. Single(s, M) /\ ~(e \in M /\ Has(s, M)) => Single(t, M)
  BY <1>1, <1>3, <1>5 DEF Has, Single
<1> QED
  BY <1>6, <1>7

LEMMA HasTail ==
  ASSUME NEW s \in Seq(Message), s # <<>>, NEW M
  PROVE  /\ Has(s, M) <=> Head(s) \in M \/ Has(Tail(s), M)
         /\ Single(s, M) => Single(Tail(s), M) /\ ~(Head(s) \in M /\ Has(Tail(s), M))
<1> DEFINE t == Tail(s)
           h == Head(s)
<1>0. Len(s) \in Nat /\ Len(s) # 0 /\ DOMAIN s = 1 .. Len(s)
  BY LenProperties, EmptySeq
<1>1. /\ t \in Seq(Message) /\ Len(t) = Len(s) - 1
      /\ \A i \in 1 .. Len(t) : t[i] = s[i + 1]
      /\ h = s[1]
  BY HeadTailProperties
<1> DEFINE n == Len(s)
<1>2. DOMAIN t = 1 .. n - 1 /\ DOMAIN s = 1 .. n /\ n \in Nat /\ n # 0
  BY <1>0, <1>1, LenProperties
<1>a. \A i \in DOMAIN t : t[i] = s[i + 1]
  BY <1>1, LenProperties
<1> HIDE DEF t, h, n
<1>3. \A i \in DOMAIN t : i + 1 \in DOMAIN s /\ i + 1 # 1 /\ t[i] = s[i + 1]
  <2> TAKE i \in DOMAIN t
  <2>1. i \in 1 .. n - 1
    BY <1>2
  <2>2. i + 1 \in 1 .. n /\ i + 1 # 1
    BY <2>1, <1>2
  <2> QED
    BY <2>2, <1>2, <1>a
<1>4. 1 \in DOMAIN s /\ \A i \in DOMAIN s : i = 1 \/ (i - 1 \in DOMAIN t /\ t[i - 1] = s[i])
  <2>1. 1 \in DOMAIN s
    BY <1>2
  <2>2. ASSUME NEW i \in DOMAIN s, i # 1 PROVE i - 1 \in DOMAIN t /\ t[i - 1] = s[i]
    <3>1. i \in 1 .. n
      BY <1>2
    <3>2. i - 1 \in 1 .. n - 1 /\ (i - 1) + 1 = i
      BY <3>1, <2>2, <1>2
    <3> QED
      BY <3>2, <1>2, <1>a
  <2> QED
    BY <2>1, <2>2
<1>5. Has(s, M) <=> h \in M \/ Has(t, M)
  BY <1>1, <1>3, <1>4 DEF Has
<1>6. ASSUME Single(s, M) PROVE Single(t, M)
  <2> SUFFICES ASSUME NEW i \in DOMAIN t, NEW j \in DOMAIN t, t[i] \in M, t[j] \in M PROVE i = j
    BY DEF Single
  <2>1. i + 1 = j + 1
    BY <1>3, <1>6 DEF Single
  <2> QED
    BY <2>1, <1>0, <1>2
<1>7. ASSUME Single(s, M), h \in M, Has(t, M) PROVE FALSE
  <2>1. PICK i \in DOMAIN t : t[i] \in M
    BY <1>7 DEF Has
  <2> QED
    BY <2>1, <1>1, <1>3, <1>4, <1>7 DEF Single
<1> QED
  BY <1>5, <1>6, <1>7 DEF t, h

(* The positions a sequence keeps when some are left out.                  *)
LEMMA HasPart ==
  ASSUME NEW s, NEW t, NEW f, \A i \in DOMAIN t : f[i] \in DOMAIN s /\ t[i] = s[f[i]],
         \A i, j \in DOMAIN t : f[i] = f[j] => i = j, NEW M
  PROVE  (Has(t, M) => Has(s, M)) /\ (Single(s, M) => Single(t, M))
  BY DEF Has, Single

LEMMA HasSubSeq ==
  ASSUME NEW s \in Seq(Message), NEW m \in 1 .. Len(s) + 1, NEW n \in m - 1 .. Len(s), NEW M
  PROVE  /\ Has(SubSeq(s, m, n), M) <=> \E i \in m .. n : s[i] \in M
         /\ Single(s, M) => Single(SubSeq(s, m, n), M)
<1> DEFINE t == SubSeq(s, m, n)
           f == [i \in 1 .. Len(t) |-> m + i - 1]
<1>0. Len(s) \in Nat /\ m \in Nat /\ n \in Int /\ DOMAIN s = 1 .. Len(s)
  BY LenProperties
<1>1. /\ t \in Seq(Message) /\ Len(t) = n - m + 1
      /\ \A i \in 1 .. n - m + 1 : t[i] = s[m + i - 1]
  BY <1>0, SubSeqProperties
<1>2. DOMAIN t = 1 .. n - m + 1
  BY <1>1, LenProperties
<1> HIDE DEF t
<1>3. \A i \in DOMAIN t : f[i] = m + i - 1 /\ f[i] \in DOMAIN s /\ t[i] = s[f[i]] /\ f[i] \in m .. n
  BY <1>0, <1>1, <1>2
<1>4. \A i, j \in DOMAIN t : f[i] = f[j] => i = j
  BY <1>0, <1>2, <1>3
<1>5. \A i \in m .. n : i - m + 1 \in DOMAIN t /\ t[i - m + 1] = s[i]
  <2> TAKE i \in m .. n
  <2>1. i - m + 1 \in DOMAIN t /\ m + (i - m + 1) - 1 = i
    BY <1>0, <1>2
  <2> QED
    BY <2>1, <1>3
<1> HIDE DEF f
<1>6. Single(s, M) => Single(t, M)
  BY <1>3, <1>4, HasPart
<1>7. Has(t, M) <=> \E i \in m .. n : s[i] \in M
  BY <1>3, <1>5 DEF Has
<1> QED
  BY <1>6, <1>7 DEF t

LEMMA HasConcat ==
  ASSUME NEW s \in Seq(Message), NEW t \in Seq(Message), NEW M
  PROVE  /\ Has(s \o t, M) <=> Has(s, M) \/ Has(t, M)
         /\ Single(s, M) /\ Single(t, M) /\ ~(Has(s, M) /\ Has(t, M)) => Single(s \o t, M)
<1> DEFINE u == s \o t
           l == Len(s)
<1>0. Len(s) \in Nat /\ Len(t) \in Nat /\ DOMAIN s = 1 .. Len(s) /\ DOMAIN t = 1 .. Len(t)
  BY LenProperties
<1>1. /\ u \in Seq(Message) /\ Len(u) = Len(s) + Len(t)
      /\ \A i \in 1 .. Len(s) + Len(t) : u[i] = IF i <= Len(s) THEN s[i] ELSE t[i - Len(s)]
  BY ConcatProperties
<1>2. DOMAIN u = 1 .. Len(s) + Len(t)
  BY <1>1, LenProperties
<1> HIDE DEF u
<1>3. \A i \in DOMAIN u : \/ i \in DOMAIN s /\ u[i] = s[i]
                          \/ i - l \in DOMAIN t /\ i \notin DOMAIN s /\ u[i] = t[i - l]
  BY <1>0, <1>1, <1>2
<1>4. \A i \in DOMAIN s : i \in DOMAIN u /\ u[i] = s[i]
  BY <1>0, <1>1, <1>2
<1>5. \A i \in DOMAIN t : i + l \in DOMAIN u /\ u[i + l] = t[i]
  <2> TAKE i \in DOMAIN t
  <2>1. i + l \in 1 .. Len(s) + Len(t) /\ ~(i + l <= Len(s)) /\ (i + l) - Len(s) = i
    BY <1>0
  <2> QED
    BY <2>1, <1>1, <1>2
<1>6. \A i, j \in DOMAIN u : i - l = j - l => i = j
  BY <1>0, <1>2
<1> HIDE DEF l
<1>7. Has(u, M) <=> Has(s, M) \/ Has(t, M)
  BY <1>3, <1>4, <1>5 DEF Has
<1>8. ASSUME Single(s, M), Single(t, M), ~(Has(s, M) /\ Has(t, M)) PROVE Single(u, M)
  BY <1>3, <1>6, <1>8 DEF Has, Single
<1> QED
  BY <1>7, <1>8 DEF u

LEMMA HasRemove ==
  ASSUME NEW s \in Seq(Message), NEW i \in DOMAIN s, NEW t, t = RemoveAt(s, i), NEW M
  PROVE  /\ Has(t, M) => Has(s, M)
         /\ Single(s, M) => Single(t, M) /\ ~(s[i] \in M /\ Has(t, M))
<1> DEFINE front == SubSeq(s, 1, i - 1)
           rest  == SubSeq(s, i + 1, Len(s))
<1>1. i \in 1 .. Len(s) /\ Len(s) \in Nat /\ DOMAIN s = 1 .. Len(s)
  BY LenProperties
<1>2. /\ front \in Seq(Message)
      /\ Has(front, M) <=> \E j \in 1 .. i - 1 : s[j] \in M
      /\ Single(s, M) => Single(front, M)
  <2>1. 1 \in 1 .. Len(s) + 1 /\ i - 1 \in 1 - 1 .. Len(s)
    BY <1>1
  <2> QED
    BY <2>1, HasSubSeq, OfSubSeq
<1>3. /\ rest \in Seq(Message)
      /\ Has(rest, M) <=> \E j \in i + 1 .. Len(s) : s[j] \in M
      /\ Single(s, M) => Single(rest, M)
  <2>1. i + 1 \in 1 .. Len(s) + 1 /\ Len(s) \in (i + 1) - 1 .. Len(s)
    BY <1>1
  <2> QED
    BY <2>1, HasSubSeq, OfSubSeq
<1>4. t = front \o rest
  BY DEF RemoveAt
<1> HIDE DEF front, rest
<1>5. \A j \in 1 .. i - 1 : j \in DOMAIN s /\ j # i /\ \A k \in i + 1 .. Len(s) : j # k
  BY <1>1
<1>6. \A k \in i + 1 .. Len(s) : k \in DOMAIN s /\ k # i
  BY <1>1
<1>7. Has(t, M) <=> Has(front, M) \/ Has(rest, M)
  BY <1>2, <1>3, <1>4, HasConcat
<1>8. Has(t, M) => Has(s, M)
  BY <1>2, <1>3, <1>5, <1>6, <1>7 DEF Has
<1>9. ASSUME Single(s, M) PROVE Single(t, M)
  <2>1. ~(Has(front, M) /\ Has(rest, M))
    BY <1>2, <1>3, <1>5, <1>6, <1>9 DEF Single
  <2> QED
    BY <2>1, <1>2, <1>3, <1>4, <1>9, HasConcat
<1>10. ASSUME Single(s, M), s[i] \in M, Has(t, M) PROVE FALSE
  BY <1>2, <1>3, <1>5, <1>6, <1>7, <1>10 DEF Single
<1> QED
  BY <1>8, <1>9, <1>10

-----------------------------------------------------------------------------
(* Waiting for an answer, and getting one.                                 *)

LEMMA TuneKey ==
  ASSUME NEW m \in Message
  PROVE  (m \in Tunes <=> m.corr = -1) /\ (m \in Tunes <=> m.key = "tune")
  BY MessageFacts DEF Tunes

LEMMA NoneIsTune ==
  ASSUME NEW s \in Seq(Message), NEW m \in Message, None(s, m.corr), m \in Tunes
  PROVE  ~Has(s, Tunes)
<1>1. m.corr = -1
  BY TuneKey
<1>2. \A i \in DOMAIN s : s[i] \in Message /\ s[i].corr # -1
  BY <1>1, Elements DEF None
<1> QED
  BY <1>2, TuneKey DEF Has

LEMMA WaitCases ==
  ASSUME TypeOK, ~mixed', NEW w \in Message, NEW q \in Seq(Message), waitResponse(w, q)
  PROVE  \/ /\ \E i \in DOMAIN received :
                 /\ received[i] \in Message /\ received[i].corr = w.corr
                 /\ received' = RemoveAt(received, i)
                 /\ w.key = "tune" \/ received[i] = w
            /\ micro' = Append(q, w) /\ UNCHANGED waiting
         \/ /\ waiting' = Append(waiting, w) /\ micro' = q /\ UNCHANGED received
            /\ w \in Tunes => ~Has(received, Tunes)
<1>0. received \in Seq(Message)
  BY DEF TypeOK
<1>1. ASSUME NEW i \in DOMAIN received, First(received, w.corr, i),
             received' = RemoveAt(received, i), Settle(w, received[i], q)
      PROVE  /\ received[i] \in Message /\ received[i].corr = w.corr
             /\ w.key = "tune" \/ received[i] = w
             /\ micro' = Append(q, w)
  <2>1. received[i] \in Message /\ received[i].corr = w.corr
    BY <1>0, <1>1, Elements DEF First
  <2>2. w.corr = TuneId \/ received[i] = w
    BY <1>1 DEF Settle
  <2> QED
    BY <1>1, <2>1, <2>2, MessageFacts DEF Settle, TuneId
<1>2. ASSUME None(received, w.corr), w \in Tunes PROVE ~Has(received, Tunes)
  BY <1>0, <1>2, NoneIsTune
<1> QED
  BY <1>1, <1>2 DEF waitResponse

LEMMA AnswerCases ==
  ASSUME TypeOK, ~mixed', NEW m \in Message, responseReceived(m)
  PROVE  \/ /\ \E i \in DOMAIN waiting :
                 /\ waiting[i] \in Message /\ waiting[i].corr = m.corr
                 /\ waiting' = RemoveAt(waiting, i)
                 /\ waiting[i].key = "tune" \/ waiting[i] = m
                 /\ micro' = Append(micro, waiting[i])
            /\ UNCHANGED received
         \/ /\ received' = Append(received, m) /\ UNCHANGED <<waiting, micro>>
            /\ m \in Tunes => ~Has(waiting, Tunes)
<1>0. waiting \in Seq(Message)
  BY DEF TypeOK
<1>1. ASSUME NEW i \in DOMAIN waiting, First(waiting, m.corr, i),
             waiting' = RemoveAt(waiting, i), Settle(waiting[i], m, micro)
      PROVE  /\ waiting[i] \in Message /\ waiting[i].corr = m.corr
             /\ waiting[i].key = "tune" \/ waiting[i] = m
             /\ micro' = Append(micro, waiting[i])
  <2>1. waiting[i] \in Message /\ waiting[i].corr = m.corr
    BY <1>0, <1>1, Elements DEF First
  <2>2. waiting[i].corr = TuneId \/ waiting[i] = m
    BY <1>1 DEF Settle
  <2> QED
    BY <1>1, <2>1, <2>2, MessageFacts DEF Settle, TuneId
<1>2. ASSUME None(waiting, m.corr), m \in Tunes PROVE ~Has(waiting, Tunes)
  BY <1>0, <1>2, NoneIsTune
<1> QED
  BY <1>1, <1>2 DEF responseReceived

-----------------------------------------------------------------------------
(* Who asks for what, as requests are written, wait and are settled.       *)

NextWanted(M) == Has(writing', M) \/ Has(waiting', M) \/ Has(micro', M)
NextOneAsks(M) ==
  /\ Single(writing', M) /\ Single(waiting', M) /\ Single(micro', M)
  /\ ~(Has(writing', M) /\ Has(waiting', M)) /\ ~(Has(writing', M) /\ Has(micro', M))
  /\ ~(Has(waiting', M) /\ Has(micro', M))

LEMMA AsksWritten ==
  ASSUME TypeOK, writing # <<>>, NEW w, w = Head(writing), writing' = Tail(writing), NEW M,
         \/ waiting' = Append(waiting, w) /\ micro' = micro
         \/ micro' = Append(micro, w) /\ waiting' = waiting,
         OneAsks(M)
  PROVE  NextOneAsks(M) /\ (NextWanted(M) => Wanted(M))
<1>1. writing \in Seq(Message) /\ waiting \in Seq(Message) /\ micro \in Seq(Message) /\ w \in Message
  BY OfTail DEF TypeOK
<1>2. /\ Has(writing, M) <=> w \in M \/ Has(writing', M)
      /\ Single(writing', M) /\ ~(w \in M /\ Has(writing', M))
  BY <1>1, HasTail DEF OneAsks
<1>3. CASE waiting' = Append(waiting, w) /\ micro' = micro
  <2>1. /\ Has(waiting', M) <=> Has(waiting, M) \/ w \in M
        /\ ~(w \in M /\ Has(waiting, M)) => Single(waiting', M)
    BY <1>1, <1>3, HasAppend DEF OneAsks
  <2> QED
    BY <1>2, <1>3, <2>1 DEF Wanted, NextWanted, OneAsks, NextOneAsks
<1>4. CASE micro' = Append(micro, w) /\ waiting' = waiting
  <2>1. /\ Has(micro', M) <=> Has(micro, M) \/ w \in M
        /\ ~(w \in M /\ Has(micro, M)) => Single(micro', M)
    BY <1>1, <1>4, HasAppend DEF OneAsks
  <2> QED
    BY <1>2, <1>4, <2>1 DEF Wanted, NextWanted, OneAsks, NextOneAsks
<1> QED
  BY <1>3, <1>4

LEMMA AsksSettled ==
  ASSUME TypeOK, NEW i \in DOMAIN waiting, waiting' = RemoveAt(waiting, i),
         micro' = Append(micro, waiting[i]), writing' = writing, NEW M,
         OneAsks(M)
  PROVE  NextOneAsks(M) /\ (NextWanted(M) => Wanted(M))
<1>1. waiting \in Seq(Message) /\ micro \in Seq(Message) /\ waiting[i] \in Message
  BY Elements DEF TypeOK
<1>2. /\ Has(waiting', M) => Has(waiting, M)
      /\ Single(waiting', M) /\ ~(waiting[i] \in M /\ Has(waiting', M))
  BY <1>1, HasRemove DEF OneAsks
<1>3. waiting[i] \in M => Has(waiting, M)
  BY DEF Has
<1>4. /\ Has(micro', M) <=> Has(micro, M) \/ waiting[i] \in M
      /\ ~(waiting[i] \in M /\ Has(micro, M)) => Single(micro', M)
  BY <1>1, HasAppend DEF OneAsks
<1> QED
  BY <1>2, <1>3, <1>4 DEF Wanted, NextWanted, OneAsks, NextOneAsks

(* A step that sends frame m, and whose continuation was settled's.        *)
LEMMA AsksSent ==
  ASSUME TypeOK, NEW m \in Message, writing' = Append(writing, m), waiting' = waiting,
         micro' = micro \/ (micro # <<>> /\ micro' = Tail(micro)), NEW M,
         m \notin M \/ ~Wanted(M),
         OneAsks(M)
  PROVE  NextOneAsks(M) /\ (NextWanted(M) => Wanted(M) \/ m \in M)
<1>1. writing \in Seq(Message) /\ micro \in Seq(Message)
  BY DEF TypeOK
<1>2. /\ Has(writing', M) <=> Has(writing, M) \/ m \in M
      /\ ~(m \in M /\ Has(writing, M)) => Single(writing', M)
  BY <1>1, HasAppend DEF OneAsks
<1>3. (Has(micro', M) => Has(micro, M)) /\ Single(micro', M)
  <2>1. CASE micro' = micro
    BY <2>1 DEF OneAsks
  <2>2. CASE micro # <<>> /\ micro' = Tail(micro)
    BY <1>1, <2>2, HasTail DEF OneAsks
  <2> QED
    BY <2>1, <2>2
<1> QED
  BY <1>2, <1>3 DEF Wanted, NextWanted, OneAsks, NextOneAsks

(* What has been settled is not asked for any more.                        *)
LEMMA AsksDone ==
  ASSUME TypeOK, micro # <<>>, micro' = Tail(micro), UNCHANGED <<writing, waiting>>, NEW M,
         OneAsks(M)
  PROVE  /\ Single(micro', M) /\ (Has(micro', M) => Has(micro, M))
         /\ Head(micro) \in M => ~Has(writing, M) /\ ~Has(waiting, M) /\ ~Has(micro', M)
<1>1. micro \in Seq(Message)
  BY DEF TypeOK
<1> QED
  BY <1>1, HasTail DEF OneAsks

-----------------------------------------------------------------------------
(* The frames of the handshake.                                            *)

LEMMA HandshakeFacts ==
  /\ Handshake[1] = "properties" /\ Handshake[2] = "sasl" /\ Handshake[3] = "authenticate"
  /\ Handshake[4] = "tuned" /\ Handshake[5] = "open" /\ Handshake[6] = "versions"
  /\ Len(Handshake) = 6 /\ Closing = 7 /\ Places = {1, 2, 3, 4, 5, 6}
  BY DEF Handshake, Closing, Places

LEMMA FrameFacts ==
  ASSUME NEW m \in Message
  PROVE  /\ \A k \in Places : m \in Frames(k) <=> m.gen = gen /\ m.key = Handshake[k]
         /\ \A j, k \in Places : m \in Frames(j) /\ m \in Frames(k) => j = k
         /\ \A k \in Places : m \in Frames(k) => m \notin Tunes /\ m.key \notin UserKeys
         /\ m \in Tunes <=> m.key = "tune"
<1>1. \A k \in Places : m \in Frames(k) <=> m.gen = gen /\ m.key = Handshake[k]
  BY DEF Frames
<1>2. m \in Tunes <=> m.key = "tune"
  BY DEF Tunes
<1>3. \A j, k \in Places : Handshake[j] = Handshake[k] => j = k
  BY HandshakeFacts
<1>4. \A k \in Places : Handshake[k] # "tune" /\ Handshake[k] \notin UserKeys
  BY HandshakeFacts, KeyFacts
<1> QED
  BY <1>1, <1>2, <1>3, <1>4

(* The current socket's frames stay what they are.                         *)
LEMMA SameSets ==
  ASSUME UNCHANGED gen
  PROVE  /\ Later' = Later /\ Foreign' = Foreign /\ Stray' = Stray /\ Current' = Current
         /\ Tunes' = Tunes /\ \A k \in Places : Frames(k)' = Frames(k)
  BY DEF Later, Foreign, Stray, Current, Tunes, Frames

LEMMA SendFacts ==
  ASSUME TypeOK, NEW key \in Keys \ {"tune", "tuned"}, NEW by \in Nat, sendAndWait(key, by)
  PROVE  \E m \in Message :
           /\ m.key = key /\ m.gen = gen /\ writing' = Append(writing, m)
           /\ toBroker' = IF sock \in {"connecting", "open"} THEN Append(toBroker, m) ELSE toBroker
<1> DEFINE m == [corr |-> corr + 1, key |-> key, by |-> by, gen |-> gen]
<1>1. corr \in Nat /\ gen \in Sockets
  BY DEF TypeOK
<1>2. corr + 1 \in Int /\ corr + 1 >= 1
  BY <1>1
<1>3. m \in Message
  BY <1>1, <1>2, IsMessage
<1>4. m.key = key /\ m.gen = gen /\ write(m)
  BY DEF sendAndWait
<1> HIDE DEF m
<1> QED
  BY <1>3, <1>4 DEF write

(* Once the broker has read authenticate, it is not read again.            *)
LEMMA ReadOn ==
  ASSUME TypeOK, InTurn, level >= 3
  PROVE  ~Has(toBroker, Frames(3))
<1> SUFFICES ASSUME NEW i \in DOMAIN toBroker, toBroker[i] \in Frames(3) PROVE FALSE
  BY DEF Has
<1>1. toBroker[i].key = "authenticate" /\ level \in Nat /\ i \in Nat /\ i >= 1
  BY HandshakeFacts, Elements DEF Frames, TypeOK
<1>2. level + i <= 6 /\ Handshake[level + i] = "authenticate"
  BY <1>1, KeyFacts DEF InTurn
<1>3. level + i \in {4, 5, 6}
  BY <1>1, <1>2
<1> QED
  BY <1>2, <1>3, HandshakeFacts

LEMMA SentFacts ==
  ASSUME TypeOK, InTurn
  PROVE  /\ sent \in Nat /\ level \in Nat /\ Len(toBroker) \in Nat
         /\ IF level >= 6 THEN sent = 6 ELSE sent = level + Len(toBroker)
         /\ sent <= 6
<1>1. level \in Nat /\ toBroker \in Seq(Message) /\ Len(toBroker) \in Nat
  BY LenProperties DEF TypeOK
<1>2. sent \in Nat /\ (IF level >= 6 THEN sent = 6 ELSE sent = level + Len(toBroker))
  BY <1>1 DEF sent
<1>3. CASE level >= 6
  BY <1>1, <1>2, <1>3 DEF sent
<1>4. CASE ~(level >= 6) /\ Len(toBroker) = 0
  BY <1>1, <1>2, <1>4 DEF sent
<1>5. CASE ~(level >= 6) /\ Len(toBroker) # 0
  <2>1. Len(toBroker) \in DOMAIN toBroker
    BY <1>1, <1>5, LenProperties
  <2>2. level + Len(toBroker) <= 6
    BY <1>5, <2>1 DEF InTurn
  <2> QED
    BY <1>1, <1>2, <1>5, <2>2 DEF sent
<1> QED
  BY <1>1, <1>2, <1>3, <1>4, <1>5

-----------------------------------------------------------------------------
(* The steps on an open socket.                                            *)

(* Nothing is sent, and requests only move on.                             *)
LEMMA AskingKept ==
  ASSUME Ordered, UNCHANGED <<gen, level, toBroker>>,
         \A M : OneAsks(M) => NextOneAsks(M) /\ (NextWanted(M) => Wanted(M))
  PROVE  Asking' /\ (Asked(3)' => Asked(3))
<1>1. \A k \in Places : Frames(k)' = Frames(k)
  BY SameSets
<1>2. sent' = sent
  BY DEF sent
<1>3. ASSUME NEW k \in Places
      PROVE  OneAsks(Frames(k))' /\ (Asked(k)' => Asked(k))
  <2> DEFINE M == Frames(k)
  <2>1. M' = M /\ OneAsks(M)
    BY <1>1 DEF Ordered, Asking
  <2> HIDE DEF M
  <2>2. NextOneAsks(M) /\ (NextWanted(M) => Wanted(M))
    BY <2>1
  <2> QED
    BY <2>1, <2>2 DEF OneAsks, NextOneAsks, Asked, Wanted, NextWanted, M
<1>4. \A k \in Places : Asked(k) => IF k = 3 THEN sent >= 3 ELSE sent = k
  BY DEF Ordered, Asking
<1> QED
  BY <1>2, <1>3, <1>4 DEF Asking, Places

(* Frames come from the broker, or move on, and are taken.                 *)
LEMMA WriteDoneOrdered ==
  ASSUME TypeOK, ~mixed', Recent, Ordered, WriteDone
  PROVE  Ordered'
<1> DEFINE w == Head(writing)
<1>1. /\ writing # <<>> /\ w \in Message /\ writing' = Tail(writing)
      /\ UNCHANGED <<gen, ready, level, toBroker, fromBroker, batch>>
      /\ micro \in Seq(Message) /\ waiting \in Seq(Message) /\ received \in Seq(Message)
      /\ writing \in Seq(Message)
  BY WrittenFacts DEF WriteDone, TypeOK
<1>2. w.gen = gen /\ w \notin Tunes
  <2>1. ~(w \in Foreign) /\ ~(w \in Tunes)
    BY <1>1, HasTail DEF Recent
  <2> QED
    BY <1>1, <2>1 DEF Foreign
<1>3. \/ /\ w.key = "tuned" /\ micro' = Append(micro, w) /\ UNCHANGED <<waiting, received>>
      \/ /\ \E i \in DOMAIN received : received' = RemoveAt(received, i) /\ received[i] = w
         /\ micro' = Append(micro, w) /\ UNCHANGED waiting
      \/ waiting' = Append(waiting, w) /\ micro' = micro /\ UNCHANGED received
  <2>1. CASE w.key # "tuned" /\ waitResponse(w, micro)
    <3>1. w.key # "tune"
      BY <1>1, <1>2, TuneKey
    <3> HIDE DEF w
    <3> QED
      BY <1>1, <2>1, <3>1, WaitCases
  <2> QED
    BY <2>1 DEF WriteDone
<1>4. Tunes' = Tunes /\ \A k \in Places : Frames(k)' = Frames(k)
  BY <1>1, SameSets
<1>5. sent' = sent
  BY <1>1 DEF sent
<1>6. (waiting' = Append(waiting, w) /\ micro' = micro) \/ (micro' = Append(micro, w) /\ waiting' = waiting)
  <2> HIDE DEF w
  <2> QED
    BY <1>3
<1>7. Asking' /\ (Asked(3)' => Asked(3))
  <2>1. ASSUME NEW M, OneAsks(M) PROVE NextOneAsks(M) /\ (NextWanted(M) => Wanted(M))
    <3>1. w = Head(writing)
      OBVIOUS
    <3> HIDE DEF w
    <3> QED
      BY <1>1, <1>6, <2>1, <3>1, AsksWritten
  <2> QED
    BY <1>1, <2>1, AskingKept
<1>8. /\ \A M : Has(received', M) => Has(received, M)
      /\ \A M : w \notin M => (Has(micro', M) => Has(micro, M)) /\ (Single(micro, M) => Single(micro', M))
                              /\ (Has(waiting', M) => Has(waiting, M))
  <2>1. ASSUME NEW M PROVE Has(received', M) => Has(received, M)
    BY <1>1, <1>3, HasRemove
  <2>2. ASSUME NEW M, w \notin M
        PROVE  /\ Has(micro', M) => Has(micro, M)
               /\ Single(micro, M) => Single(micro', M)
               /\ Has(waiting', M) => Has(waiting, M)
    BY <1>1, <1>6, <2>2, HasAppend
  <2> QED
    BY <2>1, <2>2
<1>9. Reached'
  <2>1. Offered' => Offered
    BY <1>1, <1>4 DEF Offered
  <2>2. ASSUME NEW k \in Places \ {4}, Has(micro', Frames(k)) PROVE level >= k
    <3>1. CASE w \notin Frames(k)
      BY <1>8, <2>2, <3>1 DEF Ordered, Reached
    <3>2. CASE w \in Frames(k)
      <4>1. w.key # "tuned"
        BY <3>2, HandshakeFacts DEF Frames
      <4>2. (waiting' = Append(waiting, w) /\ micro' = micro) \/ Has(received, Frames(k))
        BY <1>3, <3>2, <4>1 DEF Has
      <4> QED
        BY <2>2, <4>2 DEF Ordered, Reached
    <3> QED
      BY <3>1, <3>2
  <2>3. \A k \in Places \ {4} : Has(received', Frames(k)) => Has(received, Frames(k))
    BY <1>8
  <2> QED
    BY <1>1, <1>4, <2>1, <2>2, <2>3 DEF Ordered, Reached
<1>10. OneTune'
  BY <1>1, <1>2, <1>4, <1>5, <1>8 DEF Ordered, OneTune
<1>11. Tuned'
  <2>1. Underway' => Underway
    BY <1>1, <1>4 DEF Underway, Offered, Places
  <2>2. (Has(micro', Tunes) => Has(micro, Tunes)) /\ (Has(waiting', Tunes) => Has(waiting, Tunes))
        /\ (Has(received', Tunes) => Has(received, Tunes))
    BY <1>2, <1>8
  <2> QED
    BY <1>4, <1>5, <1>7, <2>1, <2>2 DEF Ordered, Tuned
<1> QED
  BY <1>1, <1>7, <1>9, <1>10, <1>11 DEF Ordered, ReadyLate, InTurn

(* Nothing new: what there is gets less, or is split into two.             *)
LEMMA LessOrdered ==
  ASSUME Ordered, UNCHANGED <<gen, level, toBroker, writing, waiting, received>>, ready' => level >= 6,
         \A M : /\ Has(micro', M) => Has(micro, M)
                /\ Single(micro, M) => Single(micro', M)
                /\ Has(fromBroker', M) \/ Has(batch', M) => Has(fromBroker, M) \/ Has(batch, M)
                /\ Single(fromBroker, M) /\ Single(batch, M) /\ ~(Has(fromBroker, M) /\ Has(batch, M)) =>
                     Single(fromBroker', M) /\ Single(batch', M) /\ ~(Has(fromBroker', M) /\ Has(batch', M))
  PROVE  Ordered'
<1>1. Tunes' = Tunes /\ \A k \in Places : Frames(k)' = Frames(k)
  BY SameSets
<1>2. sent' = sent
  BY DEF sent
<1>3. Asking' /\ (Asked(3)' => Asked(3))
  <2>1. ASSUME NEW M, OneAsks(M) PROVE NextOneAsks(M) /\ (NextWanted(M) => Wanted(M))
    BY <2>1 DEF OneAsks, NextOneAsks, Wanted, NextWanted
  <2> QED
    BY <2>1, AskingKept
<1>4. Offered' => Offered
  BY <1>1 DEF Offered
<1>5. Reached'
  BY <1>1, <1>4 DEF Ordered, Reached
<1>6. OneTune'
  BY <1>1, <1>2 DEF Ordered, OneTune
<1>7. Tuned'
  <2>1. Underway' => Underway
    BY <1>1, <1>4 DEF Underway, Places
  <2> QED
    BY <1>1, <1>2, <1>3, <2>1 DEF Ordered, Tuned
<1> QED
  BY <1>3, <1>5, <1>6, <1>7 DEF Ordered, ReadyLate, InTurn

LEMMA DataOrdered ==
  ASSUME TypeOK, Ordered, Data
  PROVE  Ordered'
<1>1. /\ batch = <<>> /\ fromBroker \in Seq(Message) /\ Len(fromBroker) \in Nat
      /\ UNCHANGED <<gen, ready, level, toBroker, writing, waiting, received, micro>>
  BY LenProperties DEF Data, Idle, TypeOK
<1>2. PICK n \in 0 .. Len(fromBroker) :
        batch' = SubSeq(fromBroker, 1, n) /\ fromBroker' = SubSeq(fromBroker, n + 1, Len(fromBroker))
  BY DEF Data
<1>3. /\ 1 \in 1 .. Len(fromBroker) + 1 /\ n \in 1 - 1 .. Len(fromBroker)
      /\ n + 1 \in 1 .. Len(fromBroker) + 1 /\ Len(fromBroker) \in (n + 1) - 1 .. Len(fromBroker)
      /\ 1 .. n \subseteq DOMAIN fromBroker /\ n + 1 .. Len(fromBroker) \subseteq DOMAIN fromBroker
      /\ \A i \in 1 .. n, j \in n + 1 .. Len(fromBroker) : i # j
  BY <1>1, LenProperties
<1>4. ASSUME NEW M
      PROVE  /\ Has(fromBroker', M) \/ Has(batch', M) => Has(fromBroker, M)
             /\ Single(fromBroker, M) =>
                  Single(fromBroker', M) /\ Single(batch', M) /\ ~(Has(fromBroker', M) /\ Has(batch', M))
  <2>1. /\ Has(batch', M) <=> \E i \in 1 .. n : fromBroker[i] \in M
        /\ Single(fromBroker, M) => Single(batch', M)
    BY <1>1, <1>2, <1>3, HasSubSeq
  <2>2. /\ Has(fromBroker', M) <=> \E i \in n + 1 .. Len(fromBroker) : fromBroker[i] \in M
        /\ Single(fromBroker, M) => Single(fromBroker', M)
    BY <1>1, <1>2, <1>3, HasSubSeq
  <2>3. Has(fromBroker', M) \/ Has(batch', M) => Has(fromBroker, M)
    BY <1>3, <2>1, <2>2 DEF Has
  <2>4. Single(fromBroker, M) => ~(Has(fromBroker', M) /\ Has(batch', M))
    BY <1>3, <2>1, <2>2 DEF Single
  <2> QED
    BY <2>1, <2>2, <2>3, <2>4
<1>5. ready' => level >= 6
  BY <1>1 DEF Ordered, ReadyLate
<1> QED
  BY <1>1, <1>4, <1>5, LessOrdered

LEMMA DataGarbledOrdered ==
  ASSUME TypeOK, Ordered, DataGarbled
  PROVE  Ordered'
<1>1. /\ fromBroker' = <<>>
      /\ UNCHANGED <<gen, ready, level, toBroker, writing, waiting, received, micro, batch>>
  BY DEF DataGarbled, client
<1>2. \A M : ~Has(fromBroker', M) /\ Single(fromBroker', M)
  BY <1>1, HasEmpty
<1>3. ready' => level >= 6
  BY <1>1 DEF Ordered, ReadyLate
<1> QED
  BY <1>1, <1>2, <1>3, LessOrdered

(* The caller of a request, or of start, goes on.                          *)
LEMMA SettledOrdered ==
  ASSUME TypeOK, Recent, Ordered, Answered \/ SetupCompleted
  PROVE  Ordered'
<1>1. /\ micro \in Seq(Message) /\ micro # <<>> /\ micro' = Tail(micro)
      /\ UNCHANGED <<gen, level, toBroker, writing, waiting, received, fromBroker, batch>>
  BY DEF Answered, SetupCompleted, Running, wires, TypeOK
<1>2. \A M : (Has(micro', M) => Has(micro, M)) /\ (Single(micro, M) => Single(micro', M))
  BY <1>1, HasTail
<1>3. ready' => level >= 6
  <2>1. CASE Answered
    BY <2>1 DEF Answered, Ordered, ReadyLate
  <2>2. CASE SetupCompleted
    <3>1. settled.key = "versions" /\ settled \in Message
      BY <1>1, <2>2, OfTail DEF SetupCompleted, settled
    <3>2. settled \notin Stray
      BY <1>1, HasTail DEF Recent, settled
    <3>3. settled.gen = gen
      BY <3>1, <3>2 DEF Stray
    <3>4. settled \in Frames(6)
      BY <3>1, <3>3, HandshakeFacts DEF Frames
    <3>5. Has(micro, Frames(6))
      BY <1>1, <3>4, HasTail DEF settled
    <3> QED
      BY <3>5, HandshakeFacts DEF Ordered, Reached
  <2> QED
    BY <2>1, <2>2
<1> QED
  BY <1>1, <1>2, <1>3, LessOrdered

(* A frame is handed to who waits for it; Tune to whoever waited first.    *)
LEMMA EmitOrdered ==
  ASSUME TypeOK, ~mixed', OneSide, Ordered, Emit
  PROVE  Ordered'
<1> DEFINE m == Head(batch)
<1>1. /\ batch \in Seq(Message) /\ batch # <<>> /\ m \in Message /\ batch' = Tail(batch)
      /\ UNCHANGED <<gen, ready, level, toBroker, fromBroker, writing>>
      /\ micro \in Seq(Message) /\ waiting \in Seq(Message) /\ received \in Seq(Message)
      /\ responseReceived(m)
  BY EmitEffect DEF Emit, TypeOK, wires
<1>2. \A M : /\ Has(batch, M) <=> m \in M \/ Has(batch', M)
             /\ Single(batch, M) => Single(batch', M) /\ ~(m \in M /\ Has(batch', M))
  BY <1>1, HasTail
<1>3. Tunes' = Tunes /\ \A k \in Places : Frames(k)' = Frames(k)
  BY <1>1, SameSets
<1>4. sent' = sent
  BY <1>1 DEF sent
<1> HIDE DEF m
<1>5. Offered' => Offered
  BY <1>1, <1>2, <1>3 DEF Offered
<1>6. Underway' => Underway
  BY <1>1, <1>3, <1>5 DEF Underway, Places
<1>7. CASE received' = Append(received, m) /\ UNCHANGED <<waiting, micro>> /\ (m \in Tunes => ~Has(waiting, Tunes))
  <2>1. \A M : Has(received', M) <=> Has(received, M) \/ m \in M
    BY <1>1, <1>7, HasAppend
  <2>2. Asking' /\ (Asked(3)' => Asked(3))
    <3>1. ASSUME NEW M, OneAsks(M) PROVE NextOneAsks(M) /\ (NextWanted(M) => Wanted(M))
      BY <1>1, <1>7, <3>1 DEF OneAsks, NextOneAsks, Wanted, NextWanted
    <3> QED
      BY <1>1, <3>1, AskingKept
  <2>3. Reached'
    BY <1>1, <1>2, <1>3, <1>5, <1>7, <2>1 DEF Ordered, Reached
  <2>4. OneTune'
    BY <1>1, <1>2, <1>3, <1>4, <1>7 DEF Ordered, OneTune
  <2>5. Tuned'
    <3>1. m \in Tunes => Underway
      BY <1>2 DEF Underway, Offered
    <3> QED
      BY <1>3, <1>4, <1>6, <1>7, <2>1, <2>2, <3>1 DEF Ordered, Tuned
  <2> QED
    BY <1>1, <2>2, <2>3, <2>4, <2>5 DEF Ordered, ReadyLate, InTurn
<1>8. ASSUME NEW i \in DOMAIN waiting, waiting[i] \in Message, waiting[i].corr = m.corr,
             waiting' = RemoveAt(waiting, i), waiting[i].key = "tune" \/ waiting[i] = m,
             micro' = Append(micro, waiting[i]), UNCHANGED received
      PROVE  Ordered'
  <2> DEFINE w == waiting[i]
  <2>1. w \in Message /\ w.corr = m.corr /\ micro' = Append(micro, w) /\ (w.key = "tune" \/ w = m)
    BY <1>8
  <2>2. \A M : w \in M => Has(waiting, M)
    BY DEF Has
  <2>3. Asking' /\ (Asked(3)' => Asked(3))
    <3>1. ASSUME NEW M, OneAsks(M) PROVE NextOneAsks(M) /\ (NextWanted(M) => Wanted(M))
      BY <1>1, <1>8, <3>1, AsksSettled
    <3> QED
      BY <1>1, <3>1, AskingKept
  <2>4. \A M : Has(waiting', M) => Has(waiting, M)
    BY <1>1, <1>8, HasRemove
  <2> HIDE DEF w
  <2>5. \A M : /\ Has(micro', M) <=> Has(micro, M) \/ w \in M
               /\ Single(micro, M) /\ ~(w \in M /\ Has(micro, M)) => Single(micro', M)
    BY <1>1, <2>1, HasAppend
  <2>6. w \in Tunes <=> m \in Tunes
    BY <1>1, <2>1, TuneKey
  <2>7. w \in Tunes \/ w = m
    BY <2>1, TuneKey
  <2>8. Reached'
    <3>1. \A k \in Places : w \in Frames(k) => w = m
      BY <2>1, <2>7, FrameFacts
    <3> QED
      BY <1>1, <1>2, <1>3, <1>5, <1>8, <2>5, <3>1 DEF Ordered, Reached
  <2>9. CASE w \notin Tunes
    <3>1. OneTune'
      BY <1>1, <1>2, <1>3, <1>4, <2>5, <2>9 DEF Ordered, OneTune
    <3>2. Tuned'
      BY <1>3, <1>4, <1>6, <1>8, <2>3, <2>4, <2>5, <2>9 DEF Ordered, Tuned
    <3> QED
      BY <1>1, <2>3, <2>8, <3>1, <3>2 DEF Ordered, ReadyLate, InTurn
  <2>10. CASE w \in Tunes
    <3>1. Has(waiting, Tunes) /\ Has(batch, Tunes) /\ Offered /\ Underway /\ ~Has(received, Tunes)
      BY <1>2, <2>2, <2>6, <2>10 DEF Offered, Underway, OneSide
    <3>2. ~(sent >= 4) /\ ~Has(micro, Tunes) /\ level >= 3
      BY <3>1 DEF Ordered, Tuned, Reached
    <3>3. sent = 3
      BY <3>2, SentFacts DEF Ordered
    <3>4. ~Offered'
      <4>1. Single(batch, Tunes) /\ ~Has(fromBroker, Tunes)
        BY <3>1 DEF Ordered, OneTune
      <4>2. ~Has(batch', Tunes) /\ ~Has(fromBroker', Tunes)
        BY <1>1, <1>2, <2>6, <2>10, <4>1
      <4> QED
        BY <1>3, <4>2 DEF Offered
    <3>5. ~Underway'
      BY <1>1, <1>3, <3>2, <3>4, ReadOn DEF Underway, Ordered, Places
    <3>6. OneTune'
      BY <1>1, <1>2, <1>3, <1>4, <2>5, <3>2, <3>3 DEF Ordered, OneTune
    <3>7. Tuned'
      BY <1>3, <1>8, <3>1, <3>5 DEF Tuned
    <3> QED
      BY <1>1, <2>3, <2>8, <3>6, <3>7 DEF Ordered, ReadyLate, InTurn
  <2> QED
    BY <2>9, <2>10
<1> QED
  BY <1>1, <1>7, <1>8, AnswerCases

(* What the head of micro is: Tune, or of the current socket.              *)
LEMMA SettledIs ==
  ASSUME TypeOK, Recent, Running
  PROVE  /\ micro \in Seq(Message) /\ micro # <<>> /\ settled \in Message /\ settled = Head(micro)
         /\ \A M : settled \in M => Has(micro, M)
         /\ \A k \in Places : settled.key = Handshake[k] => settled \in Frames(k)
         /\ settled.key = "tune" => settled \in Tunes
<1>1. micro \in Seq(Message) /\ micro # <<>> /\ settled = Head(micro)
  BY DEF TypeOK, Running, settled
<1>2. settled \in Message /\ \A M : settled \in M => Has(micro, M)
  BY <1>1, HasTail, OfTail
<1>3. settled \notin Stray
  BY <1>2 DEF Recent
<1>4. settled.key = "tune" \/ settled.gen = gen
  BY <1>2, <1>3 DEF Stray
<1>5. \A k \in Places : Handshake[k] # "tune"
  BY HandshakeFacts
<1> QED
  BY <1>1, <1>2, <1>4, <1>5, FrameFacts

LEMMA AwaitTuneOrdered ==
  ASSUME TypeOK, ~mixed', Recent, OneSide, Ordered, AwaitTune
  PROVE  Ordered'
<1> DEFINE w == [corr |-> TuneId, key |-> "tune", by |-> settled.by, gen |-> gen]
           q == Tail(micro)
<1>1. /\ Running /\ settled.key = "authenticate" /\ waitResponse(w, q)
      /\ UNCHANGED <<gen, ready, level, toBroker, fromBroker, batch, writing>>
      /\ waiting \in Seq(Message) /\ received \in Seq(Message)
  BY DEF AwaitTune, wires, TypeOK
<1>2. w \in Message /\ w.key = "tune" /\ w.corr = -1
  <2>1. settled.by \in Nat /\ gen \in Sockets
    BY <1>1, SettledFacts DEF TypeOK
  <2> QED
    BY <2>1, TuneIsMessage DEF TuneId
<1>3. /\ micro \in Seq(Message) /\ micro # <<>> /\ settled = Head(micro)
      /\ settled \in Frames(3) /\ Has(micro, Frames(3))
  BY <1>1, SettledIs, HandshakeFacts
<1>4. q \in Seq(Message)
  BY <1>3, OfTail
<1>5. \A M : /\ Has(q, M) => Has(micro, M)
             /\ Single(micro, M) => Single(q, M) /\ ~(settled \in M /\ Has(q, M))
  BY <1>3, HasTail
<1> HIDE DEF w, q
<1>6. w \in Tunes /\ \A k \in Places : w \notin Frames(k)
  BY <1>2, FrameFacts, TuneKey
<1>7. Tunes' = Tunes /\ \A k \in Places : Frames(k)' = Frames(k)
  BY <1>1, SameSets
<1>8. sent' = sent
  BY <1>1 DEF sent
<1>9. (Offered' => Offered) /\ (Underway' => Underway)
  BY <1>1, <1>7 DEF Offered, Underway, Places
<1>10. Asked(3) /\ sent >= 3
  BY <1>3 DEF Ordered, Asking, Asked, Wanted, Places
<1>11. \A k \in Places : OneAsks(Frames(k)) /\ (Asked(k) => IF k = 3 THEN sent >= 3 ELSE sent = k)
  BY DEF Ordered, Asking
(* Whatever happens to Tune, authenticate is no longer asked for.          *)
<1>12. ASSUME \A k \in Places : /\ Has(waiting', Frames(k)) <=> Has(waiting, Frames(k))
                                /\ Single(waiting, Frames(k)) => Single(waiting', Frames(k))
                                /\ Has(micro', Frames(k)) <=> Has(q, Frames(k))
                                /\ Single(q, Frames(k)) => Single(micro', Frames(k)),
              \A M : Has(received', M) => Has(received, M)
       PROVE  Asking' /\ Reached' /\ ~Asked(3)'
  <2>1. ASSUME NEW k \in Places
        PROVE  NextOneAsks(Frames(k)) /\ (NextWanted(Frames(k)) => Wanted(Frames(k)))
    <3>1. /\ Has(waiting', Frames(k)) <=> Has(waiting, Frames(k))
          /\ Single(waiting, Frames(k)) => Single(waiting', Frames(k))
          /\ Has(micro', Frames(k)) <=> Has(q, Frames(k))
          /\ Single(q, Frames(k)) => Single(micro', Frames(k))
      BY <1>12
    <3>2. /\ Has(q, Frames(k)) => Has(micro, Frames(k))
          /\ Single(micro, Frames(k)) => Single(q, Frames(k))
      BY <1>5
    <3> QED
      BY <1>1, <1>11, <3>1, <3>2 DEF OneAsks, NextOneAsks, Wanted, NextWanted
  <2>2. ~NextWanted(Frames(3))
    <3>1. OneAsks(Frames(3)) /\ ~Has(q, Frames(3))
      BY <1>3, <1>5, <1>11 DEF Places, OneAsks
    <3> QED
      BY <1>1, <1>3, <1>12, <3>1 DEF NextWanted, OneAsks, Places
  <2>3. Asking'
    <3>1. ASSUME NEW k \in Places
          PROVE  OneAsks(Frames(k))' /\ (Asked(k)' => Asked(k))
      BY <1>7, <2>1 DEF OneAsks, NextOneAsks, Asked, Wanted, NextWanted
    <3> QED
      BY <1>8, <1>11, <3>1 DEF Asking
  <2>4. Reached'
    BY <1>1, <1>5, <1>7, <1>9, <1>12 DEF Ordered, Reached
  <2> QED
    BY <1>7, <2>2, <2>3, <2>4 DEF Asked, Wanted, NextWanted, Places
<1>13. CASE /\ \E i \in DOMAIN received :
                 /\ received[i] \in Message /\ received[i].corr = w.corr
                 /\ received' = RemoveAt(received, i)
            /\ micro' = Append(q, w) /\ UNCHANGED waiting
  <2>1. Has(received, Tunes) /\ ~Has(waiting, Tunes)
    BY <1>2, <1>13, TuneKey DEF Has, OneSide
  <2>2. ~(sent >= 4) /\ ~Has(micro, Tunes)
    BY <1>10, <2>1 DEF Ordered, Tuned
  <2>3. sent = 3
    BY <1>10, <2>2, SentFacts DEF Ordered
  <2>4. \A M : Has(received', M) => Has(received, M)
    BY <1>1, <1>13, HasRemove
  <2>5. \A M : /\ Has(micro', M) <=> Has(q, M) \/ w \in M
               /\ Single(q, M) /\ ~(w \in M /\ Has(q, M)) => Single(micro', M)
    BY <1>2, <1>4, <1>13, HasAppend
  <2>6. Asking' /\ Reached' /\ ~Asked(3)'
    BY <1>6, <1>12, <1>13, <2>4, <2>5
  <2>7. OneTune'
    <3>1. Single(micro', Tunes)
      BY <1>5, <2>2, <2>5 DEF Ordered, OneTune
    <3> QED
      BY <1>1, <1>7, <1>8, <2>3, <3>1 DEF Ordered, OneTune
  <2>8. Tuned'
    BY <1>7, <1>13, <2>1, <2>6 DEF Tuned
  <2> QED
    BY <1>1, <2>6, <2>7, <2>8 DEF Ordered, ReadyLate, InTurn
<1>14. CASE /\ waiting' = Append(waiting, w) /\ micro' = q /\ UNCHANGED received
            /\ w \in Tunes => ~Has(received, Tunes)
  <2>1. \A M : /\ Has(waiting', M) <=> Has(waiting, M) \/ w \in M
               /\ Single(waiting, M) /\ ~(w \in M /\ Has(waiting, M)) => Single(waiting', M)
    BY <1>1, <1>2, <1>14, HasAppend
  <2>2. Asking' /\ Reached' /\ ~Asked(3)'
    BY <1>6, <1>12, <1>14, <2>1
  <2>3. OneTune'
    BY <1>1, <1>5, <1>7, <1>8, <1>14 DEF Ordered, OneTune
  <2>4. Tuned'
    BY <1>5, <1>7, <1>8, <1>9, <1>10, <1>14, <2>2 DEF Ordered, Tuned
  <2> QED
    BY <1>1, <2>2, <2>3, <2>4 DEF Ordered, ReadyLate, InTurn
<1> QED
  BY <1>1, <1>2, <1>4, <1>13, <1>14, WaitCases

(* Frame m of the handshake is sent: the one after place k.                *)
LEMMA InTurnSent ==
  ASSUME TypeOK, InTurn, NEW m \in Message, toBroker' = Append(toBroker, m), UNCHANGED level,
         \/ level < 6 /\ sent < 6 /\ m.key = Handshake[sent + 1]
         \/ level >= 6 /\ m.key \in UserKeys
  PROVE  /\ InTurn' /\ sent' = IF level < 6 THEN sent + 1 ELSE sent
         /\ \A M : Has(toBroker', M) <=> Has(toBroker, M) \/ m \in M
<1>1. toBroker \in Seq(Message)
  BY DEF TypeOK
<1>2. /\ toBroker' \in Seq(Message) /\ Len(toBroker') = Len(toBroker) + 1
      /\ \A i \in 1 .. Len(toBroker) : toBroker'[i] = toBroker[i]
      /\ toBroker'[Len(toBroker) + 1] = m
      /\ DOMAIN toBroker' = 1 .. Len(toBroker) + 1 /\ DOMAIN toBroker = 1 .. Len(toBroker)
      /\ Len(toBroker) \in Nat
  <2> DEFINE t == Append(toBroker, m)
  <2>1. /\ t \in Seq(Message) /\ Len(t) = Len(toBroker) + 1
        /\ \A i \in 1 .. Len(toBroker) : t[i] = toBroker[i]
        /\ t[Len(toBroker) + 1] = m
    BY <1>1, AppendProperties
  <2>2. DOMAIN t = 1 .. Len(t)
    BY <2>1, LenProperties
  <2>3. t = toBroker'
    OBVIOUS
  <2> HIDE DEF t
  <2> QED
    BY <1>1, <2>1, <2>2, <2>3, LenProperties
<1>3. level \in Nat /\ IF level >= 6 THEN sent = 6 ELSE sent = level + Len(toBroker)
  BY SentFacts
<1>4. sent' = IF level >= 6 THEN 6 ELSE level + (Len(toBroker) + 1)
  BY <1>2 DEF sent
<1>5. ASSUME NEW i \in DOMAIN toBroker'
      PROVE  \/ level + i <= 6 /\ toBroker'[i].key = Handshake[level + i]
             \/ level >= 6 /\ toBroker'[i].key \in UserKeys
  <2>1. CASE i \in DOMAIN toBroker
    BY <1>2, <2>1 DEF InTurn
  <2>2. CASE i = Len(toBroker) + 1
    <3>1. CASE level < 6
      <4>1. level + i = sent + 1 /\ sent + 1 <= 6 /\ m.key = Handshake[sent + 1]
        BY <1>2, <1>3, <2>2, <3>1, SentFacts
      <4> QED
        BY <1>2, <2>2, <4>1
    <3>2. CASE level >= 6
      <4>1. m.key \in UserKeys
        BY <1>3, <3>2
      <4> QED
        BY <1>2, <2>2, <3>2, <4>1
    <3> QED
      BY <1>3, <3>1, <3>2
  <2> QED
    BY <1>2, <2>1, <2>2
<1>6. InTurn'
  BY <1>5 DEF InTurn
<1>7. sent' = IF level < 6 THEN sent + 1 ELSE sent
  BY <1>2, <1>3, <1>4
<1> QED
  BY <1>1, <1>6, <1>7, HasAppend

LEMMA NextFrameSent ==
  ASSUME TypeOK, Ordered, UNCHANGED <<gen, level, ready, waiting, received, fromBroker, batch>>,
         NEW m \in Message, m.gen = gen, sent < 6, m.key = Handshake[sent + 1],
         writing' = Append(writing, m), toBroker' = Append(toBroker, m),
         micro # <<>>, micro' = Tail(micro), ~Has(micro', Tunes),
         \A k \in Places : k = sent /\ k # 3 => ~NextWanted(Frames(k)),
         sent >= 3 => ~(Underway /\ Has(waiting, Tunes)) /\ ~(Asked(3) /\ Has(received, Tunes))
                        /\ ~(Asked(3) /\ Underway)
  PROVE  Ordered'
<1>1. sent \in Nat /\ sent + 1 \in Nat /\ level \in Nat /\ level < 6
  BY SentFacts DEF Ordered
<1>2. Tunes' = Tunes /\ \A k \in Places : Frames(k)' = Frames(k)
  BY SameSets
<1>3. /\ InTurn' /\ sent' = sent + 1
      /\ \A M : Has(toBroker', M) <=> Has(toBroker, M) \/ m \in M
  BY <1>1, InTurnSent DEF Ordered
<1>4. \A k \in Places : m \in Frames(k) => k = sent + 1
  <2>1. 1 <= sent + 1 /\ sent + 1 <= 6
    BY <1>1
  <2>2. sent + 1 \in Places
    BY <2>1, <1>1 DEF Places
  <2> QED
    BY <2>2, FrameFacts
<1>5. micro \in Seq(Message)
  BY DEF TypeOK
<1>6. \A M : Has(micro', M) => Has(micro, M)
  BY <1>5, HasTail
<1>7. ASSUME NEW k \in Places
      PROVE  /\ NextOneAsks(Frames(k)) /\ (NextWanted(Frames(k)) => Wanted(Frames(k)) \/ k = sent + 1)
             /\ NextWanted(Frames(k)) => IF k = 3 THEN sent + 1 >= 3 ELSE sent + 1 = k
  <2>1. OneAsks(Frames(k)) /\ (Wanted(Frames(k)) => IF k = 3 THEN sent >= 3 ELSE sent = k)
    BY DEF Ordered, Asking, Asked
  <2>2. m \notin Frames(k) \/ ~Wanted(Frames(k))
    BY <1>1, <1>4, <2>1
  <2>3. NextOneAsks(Frames(k)) /\ (NextWanted(Frames(k)) => Wanted(Frames(k)) \/ m \in Frames(k))
    BY <2>1, <2>2, AsksSent
  <2>4. NextWanted(Frames(k)) => Wanted(Frames(k)) \/ k = sent + 1
    BY <2>3, <1>4
  <2>5. Wanted(Frames(k)) /\ NextWanted(Frames(k)) => k = 3 /\ sent >= 3
    BY <2>1
  <2>6. k = sent + 1 => IF k = 3 THEN sent + 1 >= 3 ELSE sent + 1 = k
    BY <1>1
  <2> QED
    BY <1>1, <2>3, <2>4, <2>5, <2>6
<1>8. Asking'
  <2>1. ASSUME NEW k \in Places
        PROVE  OneAsks(Frames(k))' /\ (Asked(k)' => IF k = 3 THEN sent' >= 3 ELSE sent' = k)
    BY <1>2, <1>3, <1>7 DEF OneAsks, NextOneAsks, Asked, Wanted, NextWanted
  <2> QED
    BY <2>1 DEF Asking
<1>9. Offered' => Offered
  BY <1>2 DEF Offered
<1>10. Reached'
  BY <1>2, <1>6, <1>9 DEF Ordered, Reached
<1>11. OneTune'
  <2>1. Single(micro', Tunes)
    BY <1>5, HasTail DEF Ordered, OneTune
  <2> QED
    BY <1>2, <2>1 DEF Ordered, OneTune
<1>12. Tuned'
  <2> SUFFICES ASSUME sent' >= 4
               PROVE  ~(Underway' /\ Has(waiting, Tunes)) /\ ~(Asked(3)' /\ Has(received, Tunes))
                        /\ ~(Asked(3)' /\ Underway')
    BY <1>2 DEF Tuned
  <2>1. sent >= 3 /\ sent + 1 # 3
    BY <1>1, <1>3
  <2>2. Underway' => Underway
    BY <1>2, <1>3, <1>4, <1>9, <2>1 DEF Underway, Places
  <2>3. Asked(3)' => Asked(3)
    BY <1>2, <1>7, <2>1 DEF Asked, Wanted, NextWanted, Places
  <2> QED
    BY <2>1, <2>2, <2>3
<1> QED
  BY <1>3, <1>8, <1>10, <1>11, <1>12 DEF Ordered, ReadyLate

LEMMA AnswerTuneOrdered ==
  ASSUME TypeOK, Recent, Ordered, sock = "open", AnswerTune
  PROVE  Ordered'
<1> DEFINE m == [corr |-> 0, key |-> "tuned", by |-> settled.by, gen |-> gen]
<1>1. /\ Running /\ settled.key = "tune" /\ micro' = Tail(micro) /\ write(m)
      /\ UNCHANGED <<gen, ready, level, waiting, received, fromBroker, batch>>
  BY DEF AnswerTune
<1>2. m \in Message /\ m.key = "tuned" /\ m.gen = gen
  <2>1. settled.by \in Nat /\ gen \in Sockets /\ "tuned" \in Keys
    BY <1>1, SettledFacts, KeyFacts DEF TypeOK
  <2> QED
    BY <2>1, IsMessage
<1> HIDE DEF m
<1>3. writing' = Append(writing, m) /\ toBroker' = Append(toBroker, m)
  BY <1>1 DEF write
<1>4. /\ micro \in Seq(Message) /\ micro # <<>> /\ settled = Head(micro)
      /\ settled \in Tunes /\ Has(micro, Tunes)
  BY <1>1, SettledIs
<1>5. sent = 3 /\ Single(micro, Tunes)
  BY <1>4 DEF Ordered, OneTune
<1>6. ~Has(micro', Tunes)
  BY <1>1, <1>4, <1>5, HasTail
<1>7. m.key = Handshake[sent + 1] /\ sent < 6
  BY <1>2, <1>5, HandshakeFacts
<1>8. ~(Underway /\ Has(waiting, Tunes)) /\ ~(Asked(3) /\ Has(received, Tunes)) /\ ~(Asked(3) /\ Underway)
  BY <1>4 DEF Ordered, Tuned
<1> QED
  BY <1>1, <1>2, <1>3, <1>4, <1>5, <1>6, <1>7, <1>8, NextFrameSent

LEMMA AdvanceOrdered ==
  ASSUME TypeOK, Recent, Ordered, sock = "open", Advance
  PROVE  Ordered'
<1>1. /\ Running /\ settled.key \in {"properties", "sasl", "tuned", "open"} /\ micro' = Tail(micro)
      /\ sendAndWait(After(settled.key), settled.by)
      /\ UNCHANGED <<gen, ready, level, waiting, received, fromBroker, batch>>
  BY DEF Advance
<1>2. PICK k \in {1, 2, 4, 5} : settled.key = Handshake[k] /\ After(settled.key) = Handshake[k + 1]
  BY <1>1, HandshakeFacts DEF After
<1>3. settled.by \in Nat /\ After(settled.key) \in Keys \ {"tune", "tuned"}
  BY <1>1, SettledFacts, KeyFacts DEF After
<1>4. PICK m \in Message : /\ m.key = Handshake[k + 1] /\ m.gen = gen /\ writing' = Append(writing, m)
                           /\ toBroker' = Append(toBroker, m)
  <2> DEFINE key == After(settled.key)
             by == settled.by
  <2>1. key \in Keys \ {"tune", "tuned"} /\ by \in Nat /\ sendAndWait(key, by) /\ key = Handshake[k + 1]
    BY <1>1, <1>2, <1>3
  <2> HIDE DEF key, by
  <2> QED
    BY <2>1, SendFacts
<1>5. k \in Places /\ k # 3 /\ k + 1 \in Places /\ k \in Nat
  BY DEF Places
<1>6. /\ micro \in Seq(Message) /\ micro # <<>> /\ settled = Head(micro)
      /\ settled \in Frames(k) /\ Has(micro, Frames(k))
  BY <1>1, <1>2, <1>5, SettledIs
<1>7. sent = k /\ OneAsks(Frames(k))
  BY <1>5, <1>6 DEF Ordered, Asking, Asked, Wanted
<1>8. ~Has(micro', Tunes)
  <2>1. ~Has(micro, Tunes)
    BY <1>5, <1>7 DEF Ordered, OneTune
  <2> QED
    BY <1>1, <1>6, <2>1, HasTail
<1>9. ~NextWanted(Frames(k))
  <2>1. ~Has(writing, Frames(k)) /\ ~Has(waiting, Frames(k)) /\ ~Has(micro', Frames(k))
    BY <1>1, <1>6, <1>7, HasTail DEF OneAsks
  <2>2. m \notin Frames(k)
    <3>1. m \in Frames(k + 1) /\ k # k + 1
      BY <1>4, <1>5, FrameFacts
    <3> QED
      BY <1>5, <3>1, FrameFacts
  <2>3. ~Has(writing', Frames(k))
    <3>1. writing \in Seq(Message) /\ writing' = Append(writing, m)
      BY <1>4 DEF TypeOK
    <3>2. \A M : Has(writing', M) <=> Has(writing, M) \/ m \in M
      BY <3>1, HasAppend
    <3> QED
      BY <2>1, <2>2, <3>2
  <2> QED
    BY <1>1, <2>1, <2>3 DEF NextWanted
<1>10. sent >= 3 => ~(Underway /\ Has(waiting, Tunes)) /\ ~(Asked(3) /\ Has(received, Tunes))
                      /\ ~(Asked(3) /\ Underway)
  <2>1. sent >= 3 => sent >= 4
    BY <1>7
  <2> QED
    BY <2>1 DEF Ordered, Tuned
<1>11. sent < 6 /\ m.key = Handshake[sent + 1]
  BY <1>4, <1>7
<1>12. \A j \in Places : j = sent /\ j # 3 => ~NextWanted(Frames(j))
  BY <1>7, <1>9
<1> QED
  BY <1>1, <1>4, <1>6, <1>8, <1>10, <1>11, <1>12, NextFrameSent

(* A call of the application, on a connection that is ready.               *)
LEMMA CallOrdered ==
  ASSUME TypeOK, Ordered, sock = "open", ready, NEW r \in Requests, Call(r)
  PROVE  Ordered'
<1>1. PICK key \in UserKeys : sendAndWait(key, r)
  BY DEF Call
<1>2. key \in Keys \ {"tune", "tuned"} /\ r \in Nat
  BY KeyFacts, ConnectionAssumption
<1>3. PICK m \in Message : /\ m.key = key /\ m.gen = gen /\ writing' = Append(writing, m)
                           /\ toBroker' = Append(toBroker, m)
  BY <1>1, <1>2, SendFacts
<1>4. UNCHANGED <<gen, ready, level, waiting, received, fromBroker, batch, micro>>
  BY DEF Call
<1>5. level >= 6 /\ level \in Nat
  BY DEF Ordered, ReadyLate, TypeOK
<1>6. Tunes' = Tunes /\ \A k \in Places : Frames(k)' = Frames(k)
  BY <1>4, SameSets
<1>7. /\ InTurn' /\ sent' = sent
      /\ \A M : Has(toBroker', M) <=> Has(toBroker, M) \/ m \in M
  BY <1>3, <1>4, <1>5, InTurnSent DEF Ordered
<1>8. \A k \in Places : m \notin Frames(k)
  BY <1>3, FrameFacts
<1>9. ASSUME NEW k \in Places
      PROVE  OneAsks(Frames(k))' /\ (Asked(k)' => Asked(k))
  <2>1. OneAsks(Frames(k))
    BY DEF Ordered, Asking
  <2>2. NextOneAsks(Frames(k)) /\ (NextWanted(Frames(k)) => Wanted(Frames(k)) \/ m \in Frames(k))
    BY <1>3, <1>4, <1>8, <2>1, AsksSent
  <2> QED
    BY <1>6, <1>8, <2>2 DEF OneAsks, NextOneAsks, Asked, Wanted, NextWanted
<1>10. Asking'
  BY <1>7, <1>9 DEF Ordered, Asking
<1>11. Offered' => Offered
  BY <1>4, <1>6 DEF Offered
<1>12. Underway' => Underway
  BY <1>6, <1>7, <1>8, <1>11 DEF Underway, Places
<1>13. Reached' /\ OneTune'
  BY <1>4, <1>6, <1>7, <1>11 DEF Ordered, Reached, OneTune
<1>14. Tuned'
  BY <1>4, <1>6, <1>7, <1>9, <1>12 DEF Ordered, Tuned, Places
<1> QED
  BY <1>4, <1>5, <1>7, <1>10, <1>13, <1>14 DEF Ordered, ReadyLate

(* The first frame of the handshake, on a socket nothing was sent to.      *)
LEMMA SocketConnectsOrdered ==
  ASSUME TypeOK, Resting, NewSocket, SocketConnects
  PROVE  Ordered'
<1>1. /\ sock = "connecting" /\ sendAndWait("properties", gen)
      /\ UNCHANGED <<gen, ready, level, waiting, received, fromBroker, batch, micro>>
  BY DEF SocketConnects
<1>2. /\ ~ready /\ batch = <<>> /\ micro = <<>> /\ writing = <<>>
      /\ level = 0 /\ toBroker = <<>> /\ fromBroker = <<>>
      /\ ~Has(waiting, Current) /\ ~Has(received, Current)
  BY <1>1 DEF Resting, NewSocket, Idle
<1>3. PICK m \in Message : /\ m.key = "properties" /\ m.gen = gen /\ writing' = Append(writing, m)
                           /\ toBroker' = Append(toBroker, m)
  <2>1. "properties" \in Keys \ {"tune", "tuned"} /\ gen \in Nat
    BY KeyFacts, SocketIsNat DEF TypeOK
  <2> QED
    BY <1>1, <2>1, SendFacts
<1>4. Len(toBroker) = 0 /\ DOMAIN toBroker = {}
  BY <1>2, EmptySeq, LenProperties
<1>5. InTurn /\ sent = 0
  BY <1>2, <1>4 DEF InTurn, sent
<1>6. InTurn' /\ sent' = 1
  <2>1. m.key = Handshake[sent + 1]
    BY <1>3, <1>5, HandshakeFacts
  <2> QED
    BY <1>1, <1>2, <1>3, <1>5, <2>1, InTurnSent
<1>7. Tunes' = Tunes /\ \A k \in Places : Frames(k)' = Frames(k)
  BY <1>1, SameSets
<1>8. \A M : ~Has(micro, M) /\ Single(micro, M) /\ ~Has(writing, M) /\ Single(writing, M)
             /\ ~Has(fromBroker, M) /\ Single(fromBroker, M) /\ ~Has(batch, M) /\ Single(batch, M)
  BY <1>2, HasEmpty
<1>9. \A k \in Places : ~Has(waiting, Frames(k)) /\ ~Has(received, Frames(k))
  BY <1>2 DEF Has, Frames, Current
<1>10. ASSUME NEW k \in Places
       PROVE  OneAsks(Frames(k))' /\ (Asked(k)' => k = 1)
  <2>1. OneAsks(Frames(k)) /\ ~Wanted(Frames(k))
    BY <1>8, <1>9 DEF OneAsks, Wanted, Has, Single
  <2>2. NextOneAsks(Frames(k)) /\ (NextWanted(Frames(k)) => m \in Frames(k))
    BY <1>1, <1>3, <2>1, AsksSent
  <2>3. m \in Frames(k) => k = 1
    <3>1. m \in Frames(1) /\ 1 \in Places
      BY <1>3, HandshakeFacts, FrameFacts
    <3> QED
      BY <3>1, FrameFacts
  <2> QED
    BY <1>7, <2>2, <2>3 DEF OneAsks, NextOneAsks, Asked, Wanted, NextWanted
<1>11. Asking'
  BY <1>6, <1>10 DEF Asking
<1>12. Reached' /\ OneTune' /\ Tuned'
  BY <1>1, <1>6, <1>7, <1>8, <1>9 DEF Reached, OneTune, Tuned, Offered
<1> QED
  BY <1>1, <1>2, <1>6, <1>11, <1>12 DEF Ordered, ReadyLate

(* What the broker answers a frame with.                                   *)
LEMMA AnswerHas ==
  ASSUME NEW m \in Message, m \notin Tunes
  PROVE  /\ Answer(m) \in Seq(Message)
         /\ \A k \in Places : Has(Answer(m), Frames(k)) => m \in Frames(k)
         /\ Has(Answer(m), Tunes) => m.key = "authenticate"
         /\ Single(Answer(m), Tunes)
         /\ ~Has(Answer(m), {x \in Message : x.gen # m.gen})
<1> DEFINE t == Tune(m)
<1>1. t.key = "tune" /\ t.gen = m.gen /\ t \in Message
  <2>1. m.by \in Nat /\ m.gen \in Sockets
    BY MessageFacts
  <2> QED
    BY <2>1, TuneIsMessage DEF Tune, TuneId
<1>2. t \in Tunes /\ \A k \in Places : t \notin Frames(k)
  BY <1>1, FrameFacts
<1>3. \/ Answer(m) = <<m, t>> /\ m.key = "authenticate"
      \/ Answer(m) = <<m>>
      \/ Answer(m) = <<>>
  BY DEF Answer
<1> HIDE DEF t
<1>4. Answer(m) \in Seq(Message)
  BY AnswerType
<1>5. CASE Answer(m) = <<m, t>> /\ m.key = "authenticate"
  <2>1. /\ DOMAIN <<m, t>> = {1, 2} /\ <<m, t>>[1] = m /\ <<m, t>>[2] = t
    OBVIOUS
  <2> QED
    BY <1>1, <1>2, <1>4, <1>5, <2>1 DEF Has, Single
<1>6. CASE Answer(m) = <<m>>
  <2>1. /\ DOMAIN <<m>> = {1} /\ <<m>>[1] = m
    OBVIOUS
  <2> QED
    BY <1>4, <1>6, <2>1 DEF Has, Single
<1>7. CASE Answer(m) = <<>>
  BY <1>4, <1>7, HasEmpty
<1> QED
  BY <1>3, <1>5, <1>6, <1>7

(* The broker takes the next frame of the handshake, or a request after    *)
(* it; never anything else.                                                *)
LEMMA BrokerReadsNext ==
  ASSUME TypeOK, Recent, InTurn, toBroker # <<>>
  PROVE  LET m == Head(toBroker) IN
         /\ m \in Message /\ m.gen = gen /\ m \notin Tunes /\ \A M : m \in M => Has(toBroker, M)
         /\ \/ level < 6 /\ level + 1 \in Places /\ m \in Frames(level + 1) /\ m.key = Handshake[level + 1]
            \/ level >= 6 /\ m.key \in UserKeys
<1> DEFINE m == Head(toBroker)
<1>1. toBroker \in Seq(Message) /\ level \in Nat
  BY DEF TypeOK
<1>2. m \in Message /\ \A M : m \in M => Has(toBroker, M)
  BY <1>1, HasTail, OfTail
<1>3. m = toBroker[1] /\ 1 \in DOMAIN toBroker
  <2>1. Len(toBroker) \in Nat /\ Len(toBroker) # 0 /\ DOMAIN toBroker = 1 .. Len(toBroker)
    BY <1>1, LenProperties, EmptySeq
  <2>2. m = toBroker[1]
    BY <1>1, HeadTailProperties
  <2> QED
    BY <2>1, <2>2
<1> HIDE DEF m
<1>4. m \notin Foreign /\ m \notin Tunes
  BY <1>2 DEF Recent
<1>5. m.gen = gen
  BY <1>2, <1>4 DEF Foreign
<1>6. \/ level + 1 <= 6 /\ m.key = Handshake[level + 1]
      \/ level >= 6 /\ m.key \in UserKeys
  BY <1>3 DEF InTurn
<1>7. CASE level + 1 <= 6 /\ m.key = Handshake[level + 1]
  <2>1. level < 6 /\ level + 1 \in Places
    BY <1>1, <1>7 DEF Places
  <2> QED
    BY <1>2, <1>4, <1>5, <1>7, <2>1, FrameFacts DEF m
<1> QED
  BY <1>2, <1>4, <1>5, <1>6, <1>7 DEF m

LEMMA BrokerReadsOrdered ==
  ASSUME TypeOK, Recent, Ordered, BrokerReads
  PROVE  Ordered'
<1> DEFINE m == Head(toBroker)
           a == Answer(m)
<1>1. /\ toBroker # <<>> /\ toBroker' = Tail(toBroker) /\ fromBroker' = fromBroker \o a
      /\ level' = CASE m.key = "close" -> Closing [] m.key = "query" -> level [] OTHER -> level + 1
      /\ UNCHANGED <<gen, ready, waiting, received, batch, micro, writing>>
  BY DEF BrokerReads, client
<1>2. Expected(m)
  BY DEF BrokerReads
<1>3. toBroker \in Seq(Message) /\ fromBroker \in Seq(Message) /\ level \in Nat
  BY DEF TypeOK
<1>4. /\ m \in Message /\ m.gen = gen /\ m \notin Tunes /\ \A M : m \in M => Has(toBroker, M)
      /\ \/ level < 6 /\ level + 1 \in Places /\ m \in Frames(level + 1) /\ m.key = Handshake[level + 1]
         \/ level >= 6 /\ m.key \in UserKeys
  BY <1>1, BrokerReadsNext DEF Ordered
<1>5. /\ a \in Seq(Message)
      /\ \A k \in Places : Has(a, Frames(k)) => m \in Frames(k)
      /\ Has(a, Tunes) => m.key = "authenticate"
      /\ Single(a, Tunes)
  BY <1>4, AnswerHas
<1> HIDE DEF m, a
<1>6. \A M : Has(toBroker', M) => Has(toBroker, M)
  BY <1>1, <1>3, HasTail
<1>7. \A M : /\ Has(fromBroker', M) <=> Has(fromBroker, M) \/ Has(a, M)
             /\ Single(fromBroker, M) /\ Single(a, M) /\ ~(Has(fromBroker, M) /\ Has(a, M))
                  => Single(fromBroker', M)
  BY <1>1, <1>3, <1>5, HasConcat
<1>8. level' \in Nat /\ level' >= level /\ (level < 6 => level' = level + 1) /\ (level >= 6 => level' >= 6)
  <2>1. CASE level < 6 /\ level + 1 \in Places /\ m.key = Handshake[level + 1]
    <3>1. m.key \notin UserKeys
      BY <2>1, HandshakeFacts, KeyFacts
    <3>2. m.key # "close" /\ m.key # "query"
      BY <3>1 DEF UserKeys
    <3> QED
      BY <1>1, <1>3, <2>1, <3>2
  <2>2. CASE level >= 6 /\ m.key \in UserKeys
    <3>1. m.key = "close" \/ m.key = "query"
      BY <2>2 DEF UserKeys
    <3>2. level' = Closing \/ level' = level
      BY <1>1, <3>1
    <3>3. level <= 7
      BY <1>3, <1>2, HandshakeFacts DEF Expected
    <3> QED
      BY <1>3, <2>2, <3>2, <3>3, HandshakeFacts
  <2> QED
    BY <1>4, <2>1, <2>2
<1>9. /\ Len(toBroker) \in Nat /\ Len(toBroker) # 0 /\ Len(toBroker') = Len(toBroker) - 1
      /\ DOMAIN toBroker = 1 .. Len(toBroker) /\ DOMAIN toBroker' = 1 .. Len(toBroker) - 1
      /\ \A i \in 1 .. Len(toBroker) - 1 : toBroker'[i] = toBroker[i + 1]
  <2> DEFINE s == Tail(toBroker)
  <2>1. Len(toBroker) \in Nat /\ Len(toBroker) # 0 /\ DOMAIN toBroker = 1 .. Len(toBroker)
    BY <1>1, <1>3, LenProperties, EmptySeq
  <2>2. s \in Seq(Message) /\ Len(s) = Len(toBroker) - 1 /\ \A i \in 1 .. Len(s) : s[i] = toBroker[i + 1]
    BY <1>1, <1>3, HeadTailProperties
  <2>3. DOMAIN s = 1 .. Len(toBroker) - 1
    BY <2>2, LenProperties
  <2>4. toBroker' = s
    BY <1>1
  <2> HIDE DEF s
  <2> QED
    BY <2>1, <2>2, <2>3, <2>4
<1>10. InTurn'
  <2> SUFFICES ASSUME NEW i \in DOMAIN toBroker'
               PROVE  \/ level' + i <= 6 /\ toBroker'[i].key = Handshake[level' + i]
                      \/ level' >= 6 /\ toBroker'[i].key \in UserKeys
    BY DEF InTurn
  <2>1. i \in Nat /\ i + 1 \in DOMAIN toBroker /\ toBroker'[i] = toBroker[i + 1] /\ i >= 1
    BY <1>9
  <2>2. \/ level + (i + 1) <= 6 /\ toBroker[i + 1].key = Handshake[level + (i + 1)]
        \/ level >= 6 /\ toBroker[i + 1].key \in UserKeys
    BY <2>1 DEF Ordered, InTurn
  <2>3. level < 6 \/ level >= 6
    BY <1>3
  <2>4. CASE level < 6
    <3>1. level' + i = level + (i + 1) /\ ~(level >= 6)
      BY <1>3, <1>8, <2>1, <2>4
    <3> QED
      BY <2>1, <2>2, <3>1
  <2>5. CASE level >= 6
    <3>1. ~(level + (i + 1) <= 6)
      BY <1>3, <2>1, <2>5
    <3> QED
      BY <1>8, <2>1, <2>2, <2>5, <3>1
  <2> QED
    BY <2>3, <2>4, <2>5
<1>11. sent' = sent
  <2>1. sent \in Nat /\ (IF level >= 6 THEN sent = 6 ELSE sent = level + Len(toBroker)) /\ sent <= 6
    BY SentFacts DEF Ordered
  <2>2. sent' = IF level' >= 6 THEN 6 ELSE level' + (Len(toBroker) - 1)
    BY <1>9 DEF sent
  <2> QED
    BY <1>3, <1>8, <1>9, <2>1, <2>2
<1>12. Tunes' = Tunes /\ \A k \in Places : Frames(k)' = Frames(k)
  BY <1>1, SameSets
<1>13. Asking' /\ (Asked(3)' => Asked(3))
  <2>1. ASSUME NEW k \in Places PROVE OneAsks(Frames(k))' /\ (Asked(k)' <=> Asked(k))
    BY <1>1, <1>12 DEF Ordered, Asking, OneAsks, Asked, Wanted
  <2> QED
    BY <1>11, <2>1 DEF Ordered, Asking, Places
<1>14. /\ \A k \in Places : m \in Frames(k) => level' >= k
       /\ m.key = "authenticate" => level = 2 /\ level' = 3 /\ m \in Frames(3)
  <2>1. ASSUME NEW k \in Places, m \in Frames(k) PROVE level' >= k
    <3>1. m.key \notin UserKeys
      BY <1>4, <2>1, FrameFacts
    <3>2. level < 6 /\ level + 1 \in Places /\ m \in Frames(level + 1)
      BY <1>4, <3>1
    <3>3. k = level + 1
      BY <1>4, <2>1, <3>2, FrameFacts
    <3> QED
      BY <1>3, <1>8, <3>2, <3>3
  <2>2. ASSUME m.key = "authenticate" PROVE level = 2 /\ level' = 3 /\ m \in Frames(3)
    <3>1. m \in Frames(3) /\ m.key \notin UserKeys /\ 3 \in Places
      BY <1>4, <2>2, HandshakeFacts, FrameFacts
    <3>2. level < 6 /\ level + 1 \in Places /\ m \in Frames(level + 1)
      BY <1>4, <3>1
    <3>3. 3 = level + 1
      BY <1>4, <3>1, <3>2, FrameFacts
    <3> QED
      BY <1>3, <1>8, <3>1, <3>2, <3>3
  <2> QED
    BY <2>1, <2>2
<1>15. Offered' => Offered \/ m.key = "authenticate"
  BY <1>1, <1>5, <1>7, <1>12 DEF Offered
<1>16. Reached'
  <2>1. Offered' => level' >= 3
    <3>1. Offered => level >= 3
      BY DEF Ordered, Reached
    <3> QED
      BY <1>3, <1>8, <1>14, <1>15, <3>1
  <2>2. ASSUME NEW k \in Places \ {4},
               Has(fromBroker', Frames(k)) \/ Has(batch, Frames(k)) \/ Has(received, Frames(k)) \/ Has(micro, Frames(k))
        PROVE  level' >= k
    <3>1. CASE m \in Frames(k)
      BY <1>14, <3>1
    <3>2. CASE m \notin Frames(k)
      <4>1. Has(fromBroker, Frames(k)) \/ Has(batch, Frames(k)) \/ Has(received, Frames(k)) \/ Has(micro, Frames(k))
        BY <1>5, <1>7, <2>2, <3>2
      <4>2. level >= k /\ k \in Nat
        BY <4>1 DEF Ordered, Reached, Places
      <4> QED
        BY <1>3, <1>8, <4>2
    <3> QED
      BY <3>1, <3>2
  <2> QED
    BY <1>1, <1>12, <2>1, <2>2 DEF Reached
<1>17. Has(a, Tunes) => ~Offered
  <2>1. m.key = "authenticate" => level = 2
    BY <1>14
  <2>2. Offered => level >= 3
    BY DEF Ordered, Reached
  <2> QED
    BY <1>5, <2>1, <2>2
<1>18. OneTune'
  <2>1. /\ Single(fromBroker', Tunes)
        /\ ~(Has(fromBroker', Tunes) /\ Has(batch, Tunes))
    BY <1>5, <1>7, <1>17 DEF Ordered, OneTune, Offered
  <2> QED
    BY <1>1, <1>11, <1>12, <2>1 DEF Ordered, OneTune
<1>19. Tuned'
  <2>1. Underway' => Underway
    <3>1. m.key = "authenticate" => Has(toBroker, Frames(3))
      BY <1>4, <1>14
    <3> QED
      BY <1>6, <1>12, <1>15, <3>1 DEF Underway, Places
  <2> QED
    BY <1>1, <1>11, <1>12, <1>13, <2>1 DEF Ordered, Tuned
<1>20. ReadyLate'
  BY <1>1, <1>8 DEF Ordered, ReadyLate
<1> QED
  BY <1>10, <1>13, <1>16, <1>18, <1>19, <1>20 DEF Ordered

-----------------------------------------------------------------------------
(* What holds of any socket.                                               *)

LEMMA AwayFromRest ==
  ASSUME sock' \notin {"connecting", "closed"}
  PROVE  Resting' /\ NewSocket'
  BY DEF Resting, NewSocket

LEMMA LessRecent ==
  ASSUME Recent, OneSide, UNCHANGED gen,
         \A M : /\ Has(waiting', M) => Has(waiting, M)
                /\ Has(received', M) => Has(received, M)
                /\ Has(writing', M) => Has(writing, M)
                /\ Has(toBroker', M) => Has(toBroker, M)
                /\ Has(fromBroker', M) => Has(fromBroker, M)
                /\ Has(batch', M) => Has(batch, M) \/ Has(fromBroker, M)
                /\ Has(micro', M) => Has(micro, M)
  PROVE  Recent' /\ OneSide'
  BY SameSets DEF Recent, OneSide

LEMMA SentRecent ==
  ASSUME TypeOK, Recent, OneSide, UNCHANGED <<gen, waiting, received, fromBroker, batch>>,
         NEW m \in Message, m.gen = gen, m.key # "tune",
         writing' = Append(writing, m), toBroker' = Append(toBroker, m) \/ toBroker' = toBroker,
         micro' = micro \/ (micro # <<>> /\ micro' = Tail(micro))
  PROVE  Recent' /\ OneSide'
<1>1. writing \in Seq(Message) /\ toBroker \in Seq(Message) /\ micro \in Seq(Message)
  BY DEF TypeOK
<1>2. m \notin Foreign /\ m \notin Tunes
  BY TuneKey DEF Foreign
<1>3. \A M : (Has(writing', M) => Has(writing, M) \/ m \in M) /\ (Has(toBroker', M) => Has(toBroker, M) \/ m \in M)
  BY <1>1, HasAppend
<1>4. \A M : Has(micro', M) => Has(micro, M)
  BY <1>1, HasTail
<1> QED
  BY <1>2, <1>3, <1>4, SameSets DEF Recent, OneSide

LEMMA LaterForeign ==
  ASSUME TypeOK
  PROVE  Later \subseteq Foreign
<1>1. gen \in Nat /\ \A m \in Message : m.gen \in Nat
  BY SocketIsNat, MessageFacts DEF TypeOK
<1> QED
  BY <1>1 DEF Later, Foreign

LEMMA WriteDoneRecent ==
  ASSUME TypeOK, ~mixed', Recent, OneSide, WriteDone
  PROVE  Recent' /\ OneSide'
<1> DEFINE w == Head(writing)
<1>1. /\ writing # <<>> /\ w \in Message /\ writing' = Tail(writing)
      /\ UNCHANGED <<gen, toBroker, fromBroker, batch>>
      /\ micro \in Seq(Message) /\ waiting \in Seq(Message) /\ received \in Seq(Message)
      /\ writing \in Seq(Message)
  BY WrittenFacts DEF WriteDone, TypeOK
<1>2. /\ w \notin Foreign /\ w \notin Tunes
      /\ \A M : Has(writing', M) => Has(writing, M)
  BY <1>1, HasTail DEF Recent
<1>3. w \notin Later /\ w \notin Stray
  BY <1>1, <1>2, LaterForeign DEF Foreign, Stray
<1> HIDE DEF w
<1>4. CASE w.key = "tuned" /\ micro' = Append(micro, w) /\ UNCHANGED <<waiting, received>>
  <2>1. \A M : Has(micro', M) => Has(micro, M) \/ w \in M
    BY <1>1, <1>4, HasAppend
  <2> QED
    BY <1>1, <1>2, <1>3, <1>4, <2>1, SameSets DEF Recent, OneSide
<1>5. CASE w.key # "tuned" /\ waitResponse(w, micro)
  <2>1. CASE /\ \E i \in DOMAIN received : received' = RemoveAt(received, i)
             /\ micro' = Append(micro, w) /\ UNCHANGED waiting
    <3>1. \A M : (Has(micro', M) => Has(micro, M) \/ w \in M) /\ (Has(received', M) => Has(received, M))
      BY <1>1, <2>1, HasAppend, HasRemove
    <3> QED
      BY <1>1, <1>2, <1>3, <2>1, <3>1, SameSets DEF Recent, OneSide
  <2>2. CASE waiting' = Append(waiting, w) /\ micro' = micro /\ UNCHANGED received
    <3>1. \A M : Has(waiting', M) => Has(waiting, M) \/ w \in M
      BY <1>1, <2>2, HasAppend
    <3> QED
      BY <1>1, <1>2, <1>3, <2>2, <3>1, SameSets DEF Recent, OneSide
  <2> QED
    BY <1>1, <1>5, <2>1, <2>2, WaitCases
<1> QED
  BY <1>4, <1>5 DEF WriteDone, w

LEMMA EmitRecent ==
  ASSUME TypeOK, ~mixed', Recent, OneSide, Emit
  PROVE  Recent' /\ OneSide'
<1> DEFINE m == Head(batch)
<1>1. /\ batch \in Seq(Message) /\ batch # <<>> /\ m \in Message /\ batch' = Tail(batch)
      /\ UNCHANGED <<gen, toBroker, fromBroker, writing>>
      /\ micro \in Seq(Message) /\ waiting \in Seq(Message) /\ received \in Seq(Message)
      /\ responseReceived(m)
  BY EmitEffect DEF Emit, TypeOK, wires
<1>2. \A M : (m \in M => Has(batch, M)) /\ (Has(batch', M) => Has(batch, M))
  BY <1>1, HasTail
<1>3. m \notin Foreign /\ m \notin Later /\ m \notin Stray
  BY <1>1, <1>2, LaterForeign DEF Recent, Foreign, Stray
<1> HIDE DEF m
<1>4. CASE received' = Append(received, m) /\ UNCHANGED <<waiting, micro>> /\ (m \in Tunes => ~Has(waiting, Tunes))
  <2>1. \A M : Has(received', M) => Has(received, M) \/ m \in M
    BY <1>1, <1>4, HasAppend
  <2> QED
    BY <1>1, <1>2, <1>3, <1>4, <2>1, SameSets DEF Recent, OneSide
<1>5. ASSUME NEW i \in DOMAIN waiting, waiting[i] \in Message,
             waiting' = RemoveAt(waiting, i), waiting[i].key = "tune" \/ waiting[i] = m,
             micro' = Append(micro, waiting[i]), UNCHANGED received
      PROVE  Recent' /\ OneSide'
  <2>1. waiting[i] \notin Stray
    BY <1>3, <1>5 DEF Stray
  <2>2. \A M : (Has(waiting', M) => Has(waiting, M)) /\ (Has(micro', M) => Has(micro, M) \/ waiting[i] \in M)
    BY <1>1, <1>5, HasRemove, HasAppend
  <2> QED
    BY <1>1, <1>2, <1>5, <2>1, <2>2, SameSets DEF Recent, OneSide
<1> QED
  BY <1>1, <1>4, <1>5, AnswerCases

LEMMA AwaitTuneRecent ==
  ASSUME TypeOK, ~mixed', Recent, OneSide, AwaitTune
  PROVE  Recent' /\ OneSide'
<1> DEFINE w == [corr |-> TuneId, key |-> "tune", by |-> settled.by, gen |-> gen]
           q == Tail(micro)
<1>1. /\ Running /\ waitResponse(w, q)
      /\ UNCHANGED <<gen, toBroker, fromBroker, batch, writing>>
      /\ waiting \in Seq(Message) /\ received \in Seq(Message) /\ micro \in Seq(Message) /\ micro # <<>>
  BY DEF AwaitTune, wires, TypeOK, Running
<1>2. w \in Message /\ w.key = "tune" /\ w.gen = gen
  <2>1. settled.by \in Nat /\ gen \in Sockets
    BY <1>1, SettledFacts DEF TypeOK
  <2> QED
    BY <2>1, TuneIsMessage DEF TuneId
<1>3. q \in Seq(Message) /\ \A M : Has(q, M) => Has(micro, M)
  BY <1>1, OfTail, HasTail
<1> HIDE DEF w, q
<1>4. w \notin Later /\ w \notin Stray /\ w \in Tunes
  BY <1>2, LaterForeign, TuneKey DEF Foreign, Stray
<1>5. CASE /\ \E i \in DOMAIN received : received' = RemoveAt(received, i)
           /\ micro' = Append(q, w) /\ UNCHANGED waiting
  <2>1. \A M : (Has(micro', M) => Has(micro, M) \/ w \in M) /\ (Has(received', M) => Has(received, M))
    BY <1>1, <1>2, <1>3, <1>5, HasAppend, HasRemove
  <2> QED
    BY <1>1, <1>4, <1>5, <2>1, SameSets DEF Recent, OneSide
<1>6. CASE /\ waiting' = Append(waiting, w) /\ micro' = q /\ UNCHANGED received
           /\ w \in Tunes => ~Has(received, Tunes)
  <2>1. \A M : Has(waiting', M) => Has(waiting, M) \/ w \in M
    BY <1>1, <1>2, <1>6, HasAppend
  <2> QED
    BY <1>1, <1>3, <1>4, <1>6, <2>1, SameSets DEF Recent, OneSide
<1> QED
  BY <1>1, <1>2, <1>3, <1>5, <1>6, WaitCases

LEMMA BrokerReadsRecent ==
  ASSUME TypeOK, Recent, OneSide, BrokerReads
  PROVE  Recent' /\ OneSide'
<1> DEFINE m == Head(toBroker)
           a == Answer(m)
<1>1. /\ toBroker # <<>> /\ toBroker' = Tail(toBroker) /\ fromBroker' = fromBroker \o a
      /\ UNCHANGED <<gen, waiting, received, batch, micro, writing>>
      /\ toBroker \in Seq(Message) /\ fromBroker \in Seq(Message)
  BY DEF BrokerReads, client, TypeOK
<1>2. m \in Message /\ \A M : (m \in M => Has(toBroker, M)) /\ (Has(toBroker', M) => Has(toBroker, M))
  BY <1>1, HasTail, OfTail
<1>3. m \notin Foreign /\ m \notin Tunes
  BY <1>2 DEF Recent
<1>4. m.gen = gen
  BY <1>2, <1>3 DEF Foreign
<1>5. a \in Seq(Message) /\ ~Has(a, {x \in Message : x.gen # m.gen})
  BY <1>2, <1>3, AnswerHas
<1> HIDE DEF m, a
<1>6. ~Has(a, Foreign)
  BY <1>4, <1>5 DEF Foreign
<1>7. ~Has(fromBroker', Foreign)
  <2>1. Has(fromBroker \o a, Foreign) <=> Has(fromBroker, Foreign) \/ Has(a, Foreign)
    BY <1>1, <1>5, HasConcat
  <2> QED
    BY <1>1, <1>6, <2>1 DEF Recent
<1> QED
  BY <1>1, <1>2, <1>7, SameSets DEF Recent, OneSide

(* A new socket: nothing is on its way, and what waits or was not taken is *)
(* of an older one.                                                        *)
LEMMA RestartQuiet ==
  ASSUME TypeOK, Quietly, sock = "closed", Restart
  PROVE  Quietly'
<1>1. /\ gen' = gen + 1 /\ level' = 0 /\ toBroker' = <<>> /\ fromBroker' = <<>>
      /\ UNCHANGED <<ready, waiting, received, batch, micro, writing>>
  BY DEF Restart, Lost
<1>2. ~ready /\ Idle /\ writing = <<>>
  BY DEF Quietly, Resting
<1>3. gen \in Nat /\ \A m \in Message : m.gen \in Nat
  BY SocketIsNat, MessageFacts DEF TypeOK
<1>4. Later' \subseteq Later /\ Current' \subseteq Later
  BY <1>1, <1>3 DEF Later, Current
<1>5. \A M : ~Has(writing', M) /\ ~Has(toBroker', M) /\ ~Has(fromBroker', M) /\ ~Has(batch', M) /\ ~Has(micro', M)
  BY <1>1, <1>2, HasEmpty DEF Idle
<1>6. ~Has(waiting, Later) /\ ~Has(received, Later)
  BY DEF Quietly, Recent
<1>7. /\ ~Has(waiting, Later') /\ ~Has(received, Later')
      /\ ~Has(waiting, Current') /\ ~Has(received, Current')
  BY <1>4, <1>6 DEF Has
<1>8. Recent' /\ NewSocket'
  BY <1>1, <1>5, <1>7 DEF Recent, NewSocket
<1>9. OneSide'
  BY <1>1 DEF Quietly, OneSide, Tunes
<1>10. Resting'
  BY <1>1, <1>2 DEF Resting, Idle
<1> QED
  BY <1>8, <1>9, <1>10 DEF Quietly

(* What the assumption leaves of the application's steps.                  *)
LEMMA OrderlyBefore ==
  ASSUME TypeOK, [Next]_vars, Orderly'
  PROVE  /\ Orderly
         /\ \A r \in Requests : Call(r) => ready
         /\ Restart => sock = "closed"
<1>1. used["early"] \in Nat /\ used["restart"] \in Nat /\ "early" \in Events /\ "restart" \in Events
  BY DEF TypeOK, Events
<1>2. ASSUME NEW e \in {"early", "restart"}, Spend(e) PROVE FALSE
  <2>1. used' = [used EXCEPT ![e] = @ + 1] /\ used \in [Events -> Nat]
    BY <1>2 DEF Spend, TypeOK
  <2>2. CASE e = "early"
    <3>1. used'["early"] = used["early"] + 1 /\ used'["restart"] = used["restart"]
      BY <1>1, <2>1, <2>2
    <3> QED
      BY <1>1, <3>1 DEF Orderly
  <2>3. CASE e = "restart"
    <3>1. used'["restart"] = used["restart"] + 1 /\ used'["early"] = used["early"]
      BY <1>1, <2>1, <2>3
    <3> QED
      BY <1>1, <3>1 DEF Orderly
  <2> QED
    BY <2>2, <2>3
<1>3. \A r \in Requests : Call(r) => ready /\ UNCHANGED used
  BY <1>2 DEF Call
<1>4. Restart => sock = "closed" /\ UNCHANGED used
  BY <1>2 DEF Restart
<1>5. CASE UNCHANGED used
  BY <1>3, <1>4, <1>5 DEF Orderly
<1>6. CASE Spend("drop")
  <2>1. used' = [used EXCEPT !["drop"] = @ + 1] /\ used \in [Events -> Nat]
    BY <1>6 DEF Spend, TypeOK
  <2>2. used'["early"] = used["early"] /\ used'["restart"] = used["restart"]
    BY <1>1, <2>1
  <2> QED
    BY <1>3, <1>4, <2>2 DEF Orderly
<1>7. UNCHANGED used \/ Spend("drop")
  BY <1>3, <1>4 DEF Next, Task, Broker, vars, WriteDone, WriteFails, Data, DataGarbled, Emit, Answered,
    CloseAnswered, Advance, AwaitTune, AnswerTune, SetupCompleted, SocketConnects, SocketCloses,
    BrokerReads, BrokerRefuses, Drop
<1> QED
  BY <1>5, <1>6, <1>7

LEMMA OrderKept ==
  ASSUME TypeOK, Steadily, ~disorder, [Next]_vars, ~mixed',
         \A r \in Requests : Call(r) => ready, Restart => sock = "closed"
  PROVE  Steadily' /\ ~disorder'
<1> USE DEF Quietly
<1>0. Recent /\ OneSide /\ Resting /\ NewSocket /\ (sock = "open" => Ordered)
  BY DEF Steadily
<1>1. batch # <<>> \/ micro # <<>> \/ writing # <<>> \/ ready => sock \notin {"connecting", "closed"}
  BY <1>0 DEF Resting, Idle
<1>2. micro \in Seq(Message) /\ writing \in Seq(Message) /\ fromBroker \in Seq(Message)
  BY DEF TypeOK
<1>3. CASE UNCHANGED vars
  <2>1. Quietly'
    BY <1>0, <1>3 DEF vars, client, wires, Recent, OneSide, Resting, NewSocket, Idle, Later, Foreign, Stray, Current, Tunes
  <2>2. Ordered => Ordered'
    <3>1. \A M : /\ Has(micro', M) => Has(micro, M)
                 /\ Single(micro, M) => Single(micro', M)
                 /\ Has(fromBroker', M) \/ Has(batch', M) => Has(fromBroker, M) \/ Has(batch, M)
                 /\ Single(fromBroker, M) /\ Single(batch, M) /\ ~(Has(fromBroker, M) /\ Has(batch, M)) =>
                      Single(fromBroker', M) /\ Single(batch', M) /\ ~(Has(fromBroker', M) /\ Has(batch', M))
      BY <1>3 DEF vars, client, wires
    <3>2. UNCHANGED <<gen, level, toBroker, writing, waiting, received, ready>>
      BY <1>3 DEF vars, client, wires
    <3>3. Ordered => (ready' => level >= 6)
      BY <3>2 DEF Ordered, ReadyLate
    <3> QED
      BY <3>1, <3>2, <3>3, LessOrdered
  <2> QED
    BY <1>0, <1>3, <2>1, <2>2 DEF Steadily, vars, history
<1>4. ASSUME NEW r \in Requests, Call(r) PROVE Steadily' /\ ~disorder'
  <2>1. ready /\ UNCHANGED <<sock, gen, waiting, received, fromBroker, batch, micro, disorder>>
    BY <1>4 DEF Call, history
  <2>2. PICK key \in UserKeys : sendAndWait(key, r)
    BY <1>4 DEF Call
  <2>3. key \in Keys \ {"tune", "tuned"} /\ r \in Nat
    BY KeyFacts, ConnectionAssumption
  <2>4. \E m \in Message : /\ m.key = key /\ m.gen = gen /\ writing' = Append(writing, m)
                           /\ toBroker' = Append(toBroker, m) \/ toBroker' = toBroker
    BY <2>2, <2>3, SendFacts
  <2>5. Recent' /\ OneSide'
    BY <1>0, <2>1, <2>3, <2>4, SentRecent
  <2>6. Resting' /\ NewSocket'
    BY <1>1, <2>1, AwayFromRest
  <2>7. sock = "open" => Ordered'
    BY <1>0, <1>4, <2>1, CallOrdered
  <2> QED
    BY <2>1, <2>5, <2>6, <2>7 DEF Steadily
<1>5. CASE WriteDone
  <2>1. sock' = sock /\ sock \in {"open", "ended"} /\ disorder' = disorder
    BY <1>5 DEF WriteDone
  <2>2. Recent' /\ OneSide'
    BY <1>0, <1>5, WriteDoneRecent
  <2>3. sock = "open" => Ordered'
    BY <1>0, <1>5, WriteDoneOrdered
  <2> QED
    BY <2>1, <2>2, <2>3, AwayFromRest DEF Steadily
<1>6. CASE WriteFails
  <2>1. /\ sock' = sock /\ sock \in {"ended", "closed"} /\ disorder' = disorder /\ writing # <<>>
        /\ UNCHANGED <<gen, waiting, received, toBroker, fromBroker, batch, micro>>
        /\ writing' = Tail(writing)
    BY <1>6 DEF WriteFails, history
  <2>2. \A M : Has(writing', M) => Has(writing, M)
    BY <1>2, <2>1, HasTail
  <2>3. Recent' /\ OneSide'
    BY <1>0, <2>1, <2>2, LessRecent
  <2> QED
    BY <1>1, <2>1, <2>3, AwayFromRest DEF Steadily
<1>7. CASE Data
  <2>1. /\ sock = "open" /\ sock' = sock /\ disorder' = disorder
        /\ UNCHANGED <<gen, waiting, received, toBroker, micro, writing>>
    BY <1>7 DEF Data, history
  <2>2. \A M : /\ Has(fromBroker', M) => Has(fromBroker, M)
               /\ Has(batch', M) => Has(fromBroker, M)
    <3>1. PICK n \in 0 .. Len(fromBroker) :
            batch' = SubSeq(fromBroker, 1, n) /\ fromBroker' = SubSeq(fromBroker, n + 1, Len(fromBroker))
      BY <1>7 DEF Data
    <3>2. /\ 1 \in 1 .. Len(fromBroker) + 1 /\ n \in 1 - 1 .. Len(fromBroker)
          /\ n + 1 \in 1 .. Len(fromBroker) + 1 /\ Len(fromBroker) \in (n + 1) - 1 .. Len(fromBroker)
          /\ 1 .. n \subseteq DOMAIN fromBroker /\ n + 1 .. Len(fromBroker) \subseteq DOMAIN fromBroker
      BY <1>2, <3>1, LenProperties
    <3> TAKE M
    <3>3. Has(batch', M) <=> \E i \in 1 .. n : fromBroker[i] \in M
      BY <1>2, <3>1, <3>2, HasSubSeq
    <3>4. Has(fromBroker', M) <=> \E i \in n + 1 .. Len(fromBroker) : fromBroker[i] \in M
      BY <1>2, <3>1, <3>2, HasSubSeq
    <3> QED
      BY <3>2, <3>3, <3>4 DEF Has
  <2>3. Recent' /\ OneSide'
    BY <1>0, <2>1, <2>2, LessRecent
  <2>4. Ordered'
    BY <1>0, <1>7, <2>1, DataOrdered
  <2> QED
    BY <2>1, <2>3, <2>4, AwayFromRest DEF Steadily
<1>8. CASE DataGarbled
  <2>1. /\ sock = "open" /\ sock' = sock /\ disorder' = disorder /\ fromBroker' = <<>>
        /\ UNCHANGED <<gen, waiting, received, toBroker, micro, writing, batch>>
    BY <1>8 DEF DataGarbled, history, client
  <2>2. \A M : ~Has(fromBroker', M)
    BY <2>1, HasEmpty
  <2>3. Recent' /\ OneSide'
    BY <1>0, <2>1, <2>2, LessRecent
  <2>4. Ordered'
    BY <1>0, <1>8, <2>1, DataGarbledOrdered
  <2> QED
    BY <2>1, <2>3, <2>4, AwayFromRest DEF Steadily
<1>9. CASE Emit
  <2>1. batch # <<>> /\ sock' = sock /\ disorder' = disorder
    BY <1>9 DEF Emit
  <2>2. Recent' /\ OneSide'
    BY <1>0, <1>9, EmitRecent
  <2>3. sock = "open" => Ordered'
    BY <1>0, <1>9, EmitOrdered
  <2> QED
    BY <1>1, <2>1, <2>2, <2>3, AwayFromRest DEF Steadily
<1>10. CASE Answered \/ SetupCompleted \/ CloseAnswered
  <2>1. /\ micro # <<>> /\ micro' = Tail(micro) /\ disorder' = disorder
        /\ UNCHANGED <<gen, waiting, received, toBroker, fromBroker, batch, writing>>
    BY <1>10 DEF Answered, SetupCompleted, CloseAnswered, Running, history, wires
  <2>2. \A M : Has(micro', M) => Has(micro, M)
    BY <1>2, <2>1, HasTail
  <2>3. Recent' /\ OneSide'
    BY <1>0, <2>1, <2>2, LessRecent
  <2>4. (sock' = sock /\ (Answered \/ SetupCompleted)) \/ sock' = "ended"
    BY <1>1, <1>10, <2>1 DEF Answered, SetupCompleted, CloseAnswered
  <2>5. sock' = "open" => Ordered'
    BY <1>0, <2>4, SettledOrdered
  <2> QED
    BY <1>1, <2>1, <2>3, <2>4, <2>5, AwayFromRest DEF Steadily
<1>11. CASE Advance
  <2>1. /\ Running /\ sendAndWait(After(settled.key), settled.by) /\ micro # <<>> /\ micro' = Tail(micro)
        /\ UNCHANGED <<sock, gen, waiting, received, fromBroker, batch, disorder>>
    BY <1>11 DEF Advance, Running, history
  <2>2. After(settled.key) \in Keys \ {"tune", "tuned"} /\ settled.by \in Nat
    BY <1>11, KeyFacts, SettledFacts DEF Advance, After
  <2>3. \E m \in Message : /\ m.key = After(settled.key) /\ m.gen = gen /\ writing' = Append(writing, m)
                           /\ toBroker' = Append(toBroker, m) \/ toBroker' = toBroker
    <3> DEFINE key == After(settled.key)
               by == settled.by
    <3>1. sendAndWait(key, by) /\ key \in Keys \ {"tune", "tuned"} /\ by \in Nat
      BY <2>1, <2>2
    <3> HIDE DEF key, by
    <3>2. \E m \in Message : /\ m.key = key /\ m.gen = gen /\ writing' = Append(writing, m)
                             /\ toBroker' = Append(toBroker, m) \/ toBroker' = toBroker
      BY <3>1, SendFacts
    <3> QED
      BY <3>2 DEF key
  <2>4. Recent' /\ OneSide'
    BY <1>0, <2>1, <2>2, <2>3, SentRecent
  <2>5. sock = "open" => Ordered'
    BY <1>0, <1>11, AdvanceOrdered
  <2> QED
    BY <1>1, <2>1, <2>4, <2>5, AwayFromRest DEF Steadily
<1>12. CASE AwaitTune
  <2>1. micro # <<>> /\ sock' = sock /\ disorder' = disorder
    BY <1>12 DEF AwaitTune, Running
  <2>2. Recent' /\ OneSide'
    BY <1>0, <1>12, AwaitTuneRecent
  <2>3. sock = "open" => Ordered'
    BY <1>0, <1>12, AwaitTuneOrdered
  <2> QED
    BY <1>1, <2>1, <2>2, <2>3, AwayFromRest DEF Steadily
<1>13. CASE AnswerTune
  <2> DEFINE m == [corr |-> 0, key |-> "tuned", by |-> settled.by, gen |-> gen]
  <2>1. /\ Running /\ write(m) /\ micro # <<>> /\ micro' = Tail(micro)
        /\ UNCHANGED <<sock, gen, waiting, received, fromBroker, batch, disorder>>
    BY <1>13 DEF AnswerTune, Running, history
  <2>2. m \in Message /\ m.gen = gen /\ m.key # "tune"
    <3>1. settled.by \in Nat /\ gen \in Sockets /\ "tuned" \in Keys
      BY <2>1, SettledFacts, KeyFacts DEF TypeOK
    <3> QED
      BY <3>1, IsMessage
  <2> HIDE DEF m
  <2>3. writing' = Append(writing, m) /\ (toBroker' = Append(toBroker, m) \/ toBroker' = toBroker)
    BY <2>1 DEF write
  <2>4. Recent' /\ OneSide'
    BY <1>0, <2>1, <2>2, <2>3, SentRecent
  <2>5. sock = "open" => Ordered'
    BY <1>0, <1>13, AnswerTuneOrdered
  <2> QED
    BY <1>1, <2>1, <2>4, <2>5, AwayFromRest DEF Steadily
<1>14. CASE SocketConnects
  <2>1. /\ sock' = "open" /\ sendAndWait("properties", gen)
        /\ UNCHANGED <<gen, waiting, received, fromBroker, batch, micro, disorder>>
    BY <1>14 DEF SocketConnects, history
  <2>2. "properties" \in Keys \ {"tune", "tuned"} /\ gen \in Nat
    BY KeyFacts, SocketIsNat DEF TypeOK
  <2>3. \E m \in Message : /\ m.key = "properties" /\ m.gen = gen /\ writing' = Append(writing, m)
                           /\ toBroker' = Append(toBroker, m) \/ toBroker' = toBroker
    BY <2>1, <2>2, SendFacts
  <2>4. Recent' /\ OneSide'
    BY <1>0, <2>1, <2>3, SentRecent
  <2>5. Ordered'
    BY <1>0, <1>14, SocketConnectsOrdered
  <2> QED
    BY <2>1, <2>4, <2>5, AwayFromRest DEF Steadily
<1>15. CASE SocketCloses
  <2>1. /\ Idle /\ writing = <<>> /\ sock' = "closed" /\ ready' = FALSE /\ disorder' = disorder
        /\ UNCHANGED <<gen, waiting, received, toBroker, fromBroker, batch, micro, writing>>
    BY <1>15 DEF SocketCloses, wires, history
  <2>2. Recent' /\ OneSide'
    BY <1>0, <2>1, LessRecent
  <2> QED
    BY <2>1, <2>2 DEF Steadily, Resting, NewSocket, Idle
<1>16. CASE BrokerReads
  <2>1. sock = "open" /\ sock' = sock /\ disorder' = disorder
    BY <1>16 DEF BrokerReads, history
  <2>2. Recent' /\ OneSide'
    BY <1>0, <1>16, BrokerReadsRecent
  <2>3. Ordered'
    BY <1>0, <1>16, <2>1, BrokerReadsOrdered
  <2> QED
    BY <2>1, <2>2, <2>3, AwayFromRest DEF Steadily
<1>17. CASE BrokerRefuses
  <2> DEFINE m == Head(toBroker)
  <2>1. sock = "open" /\ level < Closing /\ toBroker # <<>> /\ ~Expected(m) /\ level \in Nat
    BY <1>17 DEF BrokerRefuses, TypeOK
  <2>2. (level < 6 /\ m.key = Handshake[level + 1]) \/ (level >= 6 /\ m.key \in UserKeys)
    BY <1>0, <2>1, BrokerReadsNext DEF Ordered
  <2> HIDE DEF m
  <2>3. opened <=> level >= 5
    BY DEF opened
  <2>4. Expected(m)
    BY <2>1, <2>2, <2>3, HandshakeFacts DEF Expected
  <2> QED
    BY <2>1, <2>4
<1>18. CASE Drop
  <2>1. /\ sock' = "ended" /\ disorder' = disorder /\ toBroker' = <<>> /\ fromBroker' = <<>>
        /\ UNCHANGED <<gen, waiting, received, batch, micro, writing>>
    BY <1>18 DEF Drop, Lost, client, history
  <2>2. \A M : ~Has(fromBroker', M) /\ ~Has(toBroker', M)
    BY <2>1, HasEmpty
  <2>3. Recent' /\ OneSide'
    BY <1>0, <2>1, <2>2, LessRecent
  <2> QED
    BY <2>1, <2>3, AwayFromRest DEF Steadily
<1>19. CASE Restart
  <2>1. sock' = "connecting" /\ disorder' = disorder
    BY <1>19 DEF Restart, history
  <2>2. Quietly'
    BY <1>0, <1>19, RestartQuiet
  <2> QED
    BY <2>1, <2>2 DEF Steadily
<1> QED
  BY <1>3, <1>4, <1>5, <1>6, <1>7, <1>8, <1>9, <1>10, <1>11, <1>12, <1>13, <1>14, <1>15, <1>16,
     <1>17, <1>18, <1>19 DEF Next, Task, Broker

LEMMA InitOrder == Init => OrderInv
<1> SUFFICES ASSUME Init PROVE Steadily /\ ~disorder
  BY DEF OrderInv
<1>1. /\ writing = <<>> /\ toBroker = <<>> /\ fromBroker = <<>> /\ waiting = <<>> /\ received = <<>>
      /\ batch = <<>> /\ micro = <<>> /\ ~ready /\ level = 0 /\ sock = "connecting" /\ ~disorder
  BY DEF Init
<1>2. \A M : /\ ~Has(writing, M) /\ ~Has(toBroker, M) /\ ~Has(fromBroker, M) /\ ~Has(waiting, M)
             /\ ~Has(received, M) /\ ~Has(batch, M) /\ ~Has(micro, M)
  BY <1>1, HasEmpty
<1> QED
  BY <1>1, <1>2 DEF Steadily, Quietly, Recent, OneSide, Resting, NewSocket, Idle

(* However many sockets are lost, in whatever step of the handshake, the   *)
(* broker reads the frames of a handshake in their order, and requests     *)
(* only after them.                                                        *)
THEOREM HandshakesInOrder == Spec => []HandshakeInOrder
<1>1. Init => TypeOK /\ MatchInv /\ OrderInv
  BY InitType, InitMatch, InitOrder
<1>2. TypeOK /\ MatchInv /\ OrderInv /\ [Next]_vars => (TypeOK /\ MatchInv /\ OrderInv)'
  <2> SUFFICES ASSUME TypeOK, MatchInv, OrderInv, [Next]_vars
               PROVE  (TypeOK /\ MatchInv /\ OrderInv)'
    OBVIOUS
  <2>1. TypeOK' /\ MatchInv'
    BY StepType, StepMatch
  <2>2. ASSUME Orderly' PROVE Steadily' /\ ~disorder'
    BY <2>1, <2>2, OrderlyBefore, OrderKept DEF OrderInv, MatchInv
  <2> QED
    BY <2>1, <2>2 DEF OrderInv
<1>3. OrderInv => HandshakeInOrder
  BY DEF OrderInv, Orderly, HandshakeInOrder
<1> QED
  BY <1>1, <1>2, <1>3, PTL DEF Spec
=============================================================================
