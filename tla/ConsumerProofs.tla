--------------------------- MODULE ConsumerProofs ---------------------------
(* Proofs about Consumer, for all chunk sizes, credits and policies.       *)
EXTENDS Consumer, SequenceTheorems, TLAPS

-----------------------------------------------------------------------------
(* Offsets and chunks.                                                     *)

LEMMA ProductIsNat ==
  ASSUME NEW a \in Nat, NEW b \in Nat
  PROVE  a * b \in Nat
  OBVIOUS

LEMMA DivBelow ==
  ASSUME NEW v \in Nat, NEW d \in Nat \ {0}, NEW t \in Nat, v < t * d
  PROVE  v \div d \in Nat /\ v \div d < t
<1> DEFINE q == v \div d
<1>1. q \in Int /\ d * q <= v /\ v < d * (q + 1)
  OBVIOUS
<1> HIDE DEF q
<1>2. q >= 0
  <2> SUFFICES ASSUME q + 1 <= 0 PROVE FALSE
    BY <1>1
  <2>1. PICK k \in Nat : q + 1 = 0 - k
    <3>1. 0 - (q + 1) \in Nat /\ q + 1 = 0 - (0 - (q + 1))
      BY <1>1
    <3> QED
      BY <3>1
  <2>2. d * (q + 1) = 0 - d * k /\ d * k \in Nat
    BY <2>1
  <2> QED
    BY <2>2, <1>1
<1>3. q < t
  <2> SUFFICES ASSUME t <= q PROVE FALSE
    BY <1>1
  <2>1. PICK k \in Nat : q = t + k
    BY <1>1
  <2>2. d * q = d * t + d * k
    BY <2>1
  <2>3. d * k \in Nat /\ d * t = t * d
    OBVIOUS
  <2> QED
    BY <2>2, <2>3, <1>1
<1> QED
  BY <1>1, <1>2, <1>3 DEF q

LEMMA FirstOfType ==
  ASSUME NEW c \in Nat \ {0}
  PROVE  FirstOf(c) \in Nat /\ FirstOf(c + 1) = FirstOf(c) + ChunkSize
<1>1. c - 1 \in Nat /\ ChunkSize \in Nat
  BY ConsumerAssumption
<1>2. (c - 1) * ChunkSize \in Nat
  BY <1>1, ProductIsNat
<1>3. (c + 1 - 1) * ChunkSize = (c - 1) * ChunkSize + ChunkSize
  BY <1>1
<1> QED
  BY <1>2, <1>3 DEF FirstOf

LEMMA PositionType ==
  ASSUME NEW v \in Nat, tail \in 0 .. NumChunks
  PROVE  Position(v) \in 1 .. NumChunks + 1
<1>1. /\ tail \in Nat /\ NumChunks \in Nat /\ ChunkSize \in Nat \ {0}
      /\ tail + 1 \in 1 .. NumChunks + 1
  BY ConsumerAssumption
<1>2. ASSUME v < tail * ChunkSize PROVE ChunkOf(v) \in 1 .. NumChunks + 1
  <2>1. v \div ChunkSize \in Nat /\ v \div ChunkSize < tail
    BY <1>1, <1>2, DivBelow
  <2> QED
    BY <1>1, <2>1 DEF ChunkOf
<1> QED
  BY <1>1, <1>2 DEF Position

-----------------------------------------------------------------------------
(* Types.  A delivery whose handler runs has a message left.               *)

Delivering == {t \in Task : t.phase = "handling" => t.at < ChunkSize}
Typed == TypeOK /\ tasks \in Seq(Delivering)

LEMMA DeliveringIsTask ==
  ASSUME NEW s \in Seq(Delivering)
  PROVE  s \in Seq(Task)
<1>1. Delivering \subseteq Task
  BY DEF Delivering
<1> QED
  BY <1>1, SeqMonotonic

LEMMA TaskFacts ==
  ASSUME Typed, NEW i \in DOMAIN tasks
  PROVE  /\ i \in 1 .. Len(tasks) /\ tasks[i] \in Delivering
         /\ tasks[i].chunk \in Chunks /\ tasks[i].at \in 0 .. ChunkSize
         /\ tasks[i].phase \in {"granting", "ready", "handling"}
         /\ tasks[i].phase = "handling" => tasks[i].at < ChunkSize
         /\ Current(i) \in Nat
<1>1. i \in 1 .. Len(tasks) /\ tasks[i] \in Delivering
  BY LenProperties, ElementOfSeq DEF Typed
<1>2. /\ tasks[i].chunk \in Chunks /\ tasks[i].at \in 0 .. ChunkSize
      /\ tasks[i].phase \in {"granting", "ready", "handling"}
      /\ tasks[i].phase = "handling" => tasks[i].at < ChunkSize
  BY <1>1 DEF Delivering, Task
<1>3. tasks[i].chunk \in Nat \ {0} /\ tasks[i].at \in Nat
  BY <1>2, ConsumerAssumption DEF Chunks
<1>4. Current(i) \in Nat
  BY <1>3, FirstOfType DEF Current
<1> QED
  BY <1>1, <1>2, <1>4

(* A delivery goes on ...                                                  *)
LEMMA Replaced ==
  ASSUME Typed, NEW i \in DOMAIN tasks, NEW t \in Delivering, tasks' = [tasks EXCEPT ![i] = t]
  PROVE  /\ tasks' \in Seq(Delivering) /\ tasks' \in Seq(Task) /\ Len(tasks') = Len(tasks)
         /\ \A j \in 1 .. Len(tasks) : tasks'[j] = IF j = i THEN t ELSE tasks[j]
<1> DEFINE s == [tasks EXCEPT ![i] = t]
<1>1. i \in 1 .. Len(tasks) /\ tasks \in Seq(Delivering)
  BY TaskFacts DEF Typed
<1>2. /\ s \in Seq(Delivering) /\ Len(s) = Len(tasks)
      /\ \A j \in 1 .. Len(tasks) : s[j] = IF j = i THEN t ELSE tasks[j]
  BY <1>1, ExceptSeq
<1>3. tasks' = s
  OBVIOUS
<1> HIDE DEF s
<1> QED
  BY <1>2, <1>3, DeliveringIsTask

(* ... or ends ...                                                         *)
LEMMA Removed ==
  ASSUME Typed, NEW i \in DOMAIN tasks
  PROVE  /\ without(tasks, i) \in Seq(Delivering) /\ without(tasks, i) \in Seq(Task)
         /\ Len(without(tasks, i)) = Len(tasks) - 1
<1> DEFINE front == SubSeq(tasks, 1, i - 1)
           rest  == SubSeq(tasks, i + 1, Len(tasks))
<1>1. /\ i \in 1 .. Len(tasks) /\ Len(tasks) \in Nat
      /\ \A j \in 1 .. Len(tasks) : tasks[j] \in Delivering
  BY TaskFacts, LenProperties, ElementOfSeq DEF Typed
<1>2. front \in Seq(Delivering) /\ Len(front) = i - 1
  BY <1>1, SubSeqProperties
<1>3. rest \in Seq(Delivering) /\ Len(rest) = Len(tasks) - i
  BY <1>1, SubSeqProperties
<1>4. without(tasks, i) = front \o rest
  BY DEF without
<1> HIDE DEF front, rest
<1>5. /\ without(tasks, i) \in Seq(Delivering)
      /\ Len(without(tasks, i)) = Len(front) + Len(rest)
  BY <1>2, <1>3, <1>4, ConcatProperties
<1> QED
  BY <1>1, <1>2, <1>3, <1>5, DeliveringIsTask

(* ... or starts.                                                          *)
LEMMA Added ==
  ASSUME Typed, NEW t \in Delivering
  PROVE  /\ Append(tasks, t) \in Seq(Delivering) /\ Append(tasks, t) \in Seq(Task)
         /\ Len(Append(tasks, t)) = Len(tasks) + 1
         /\ \A j \in 1 .. Len(tasks) : Append(tasks, t)[j] = tasks[j]
         /\ Append(tasks, t)[Len(tasks) + 1] = t
<1>1. tasks \in Seq(Delivering)
  BY DEF Typed
<1>2. /\ Append(tasks, t) \in Seq(Delivering)
      /\ Len(Append(tasks, t)) = Len(tasks) + 1
      /\ \A j \in 1 .. Len(tasks) : Append(tasks, t)[j] = tasks[j]
      /\ Append(tasks, t)[Len(tasks) + 1] = t
  BY <1>1, AppendProperties
<1> QED
  BY <1>2, DeliveringIsTask

SubType == [on : BOOLEAN, next : 1 .. NumChunks + 1, credit : Nat]

LEMMA GrantedType ==
  ASSUME sub \in SubType, NEW n \in Nat, Granted(n)
  PROVE  sub' \in SubType
  BY DEF Granted, SubType

LEMMA EndsType ==
  ASSUME sub \in SubType, SubscriptionEnds
  PROVE  /\ sub' \in SubType /\ sub'.next = sub.next /\ sub'.credit = 0
         /\ net' = <<>> /\ net' \in Seq(Chunks)
  BY EmptySeq DEF SubscriptionEnds, SubType

LEMMA ReleaseType ==
  ASSUME sub \in SubType, net \in Seq(Chunks), conn \in {"up", "down", "opening", "handshake"},
         releaseConnection
  PROVE  /\ sub' \in SubType /\ net' \in Seq(Chunks)
         /\ conn' \in {"up", "down", "opening", "handshake"}
  BY EndsType DEF releaseConnection

LEMMA SpendType ==
  ASSUME TypeOK, NEW e \in Events, Spend(e)
  PROVE  used' \in [Events -> Nat]
  BY ConsumerAssumption DEF Spend

LEMMA OffsetType ==
  ASSUME NEW v \in Nat
  PROVE  Offset("numeric", v) \in [type : OffsetTypes, value : Nat]
  BY DEF Offset, OffsetTypes

(* The frame at the head of the wire.                                      *)
LEMMA FrameFacts ==
  ASSUME TypeOK, net # <<>>
  PROVE  /\ Head(net) \in Chunks /\ Head(net) = net[1]
         /\ Tail(net) \in Seq(Chunks) /\ Len(Tail(net)) = Len(net) - 1 /\ Len(net) \in Nat \ {0}
         /\ \A k \in 1 .. Len(Tail(net)) : Tail(net)[k] = net[k + 1]
<1>1. net \in Seq(Chunks)
  BY DEF TypeOK
<1>2. Len(net) \in Nat \ {0}
  BY <1>1, EmptySeq
<1> QED
  BY <1>1, <1>2, HeadTailProperties

LEMMA NewTask ==
  ASSUME NEW c \in Chunks, NEW p \in {"granting", "ready"}
  PROVE  [chunk |-> c, at |-> 0, phase |-> p] \in Delivering
  BY ConsumerAssumption DEF Delivering, Task

(* One delivery changes its place or its phase, the others stay.           *)
Becomes(i, place, phase) ==
  /\ tasks' \in Seq(Delivering) /\ tasks' \in Seq(Task) /\ Len(tasks') = Len(tasks)
  /\ \A j \in 1 .. Len(tasks) : j # i => tasks'[j] = tasks[j]
  /\ tasks'[i].chunk = tasks[i].chunk /\ tasks'[i].at = place /\ tasks'[i].phase = phase

LEMMA PhaseChanges ==
  ASSUME Typed, NEW i \in DOMAIN tasks, NEW p \in {"ready", "handling"},
         p = "handling" => tasks[i].at < ChunkSize,
         tasks' = [tasks EXCEPT ![i].phase = p]
  PROVE  Becomes(i, tasks[i].at, p)
<1> DEFINE t == [tasks[i] EXCEPT !.phase = p]
<1>1. i \in 1 .. Len(tasks) /\ tasks[i] \in Delivering
  BY TaskFacts
<1>2. /\ t \in Delivering
      /\ t.chunk = tasks[i].chunk /\ t.at = tasks[i].at /\ t.phase = p
  BY <1>1 DEF Delivering, Task
<1>3. tasks' = [tasks EXCEPT ![i] = t]
  OBVIOUS
<1> HIDE DEF t
<1>4. /\ tasks' \in Seq(Delivering) /\ tasks' \in Seq(Task) /\ Len(tasks') = Len(tasks)
      /\ \A j \in 1 .. Len(tasks) : tasks'[j] = IF j = i THEN t ELSE tasks[j]
  BY <1>2, <1>3, Replaced
<1> QED
  BY <1>1, <1>2, <1>4 DEF Becomes

LEMMA PlaceChanges ==
  ASSUME Typed, NEW i \in DOMAIN tasks, tasks[i].at < ChunkSize,
         tasks[i].phase \in {"ready", "handling"},
         tasks' = [tasks EXCEPT ![i] = [tasks[i] EXCEPT !.phase = "ready", !.at = @ + 1]]
  PROVE  Becomes(i, tasks[i].at + 1, "ready")
<1> DEFINE t == [tasks[i] EXCEPT !.phase = "ready", !.at = @ + 1]
<1>1. i \in 1 .. Len(tasks) /\ tasks[i] \in Delivering /\ ChunkSize \in Nat
  BY TaskFacts, ConsumerAssumption
<1>2. /\ t \in Delivering
      /\ t.chunk = tasks[i].chunk /\ t.at = tasks[i].at + 1 /\ t.phase = "ready"
  <2>1. /\ tasks[i] \in Task /\ tasks[i].at \in 0 .. ChunkSize
        /\ tasks[i].at + 1 \in 0 .. ChunkSize
    BY <1>1 DEF Delivering, Task
  <2>2. t.chunk = tasks[i].chunk /\ t.at = tasks[i].at + 1 /\ t.phase = "ready"
    BY <2>1 DEF Task
  <2>3. t \in Task
    BY <2>1 DEF Task
  <2> QED
    BY <2>2, <2>3 DEF Delivering
<1>3. tasks' = [tasks EXCEPT ![i] = t]
  OBVIOUS
<1> HIDE DEF t
<1>4. /\ tasks' \in Seq(Delivering) /\ tasks' \in Seq(Task) /\ Len(tasks') = Len(tasks)
      /\ \A j \in 1 .. Len(tasks) : tasks'[j] = IF j = i THEN t ELSE tasks[j]
  BY <1>2, <1>3, Replaced
<1> QED
  BY <1>1, <1>2, <1>4 DEF Becomes

LEMMA SkipEffect ==
  ASSUME Typed, NEW i \in 1 .. Len(tasks), SkipMessage(i)
  PROVE  /\ tasks[i].phase = "ready" /\ tasks[i].at < ChunkSize
         /\ Becomes(i, tasks[i].at + 1, "ready")
<1>1. /\ i \in DOMAIN tasks /\ tasks[i].phase = "ready" /\ tasks[i].at < ChunkSize
      /\ tasks' = [tasks EXCEPT ![i].at = @ + 1]
  BY DEF SkipMessage, InTask
<1>2. tasks[i] \in Delivering
  BY <1>1, TaskFacts
<1>3. [tasks[i] EXCEPT !.at = @ + 1] = [tasks[i] EXCEPT !.phase = "ready", !.at = @ + 1]
  BY <1>1, <1>2 DEF Delivering, Task
<1>4. tasks' = [tasks EXCEPT ![i] = [tasks[i] EXCEPT !.phase = "ready", !.at = @ + 1]]
  BY <1>1, <1>3
<1> QED
  BY <1>1, <1>4, PlaceChanges

LEMMA ReturnEffect ==
  ASSUME Typed, NEW i \in 1 .. Len(tasks), HandlerReturns(i)
  PROVE  /\ i \in DOMAIN tasks /\ tasks[i].phase = "handling"
         /\ Becomes(i, tasks[i].at + 1, "ready")
<1>1. /\ i \in DOMAIN tasks /\ tasks[i].phase = "handling"
      /\ tasks' = [tasks EXCEPT ![i].phase = "ready", ![i].at = @ + 1]
  BY DEF HandlerReturns, InTask
<1>2. tasks[i].at < ChunkSize
  BY <1>1, TaskFacts
<1>3. tasks' = [tasks EXCEPT ![i] = [tasks[i] EXCEPT !.phase = "ready", !.at = @ + 1]]
  BY <1>1
<1> QED
  BY <1>1, <1>2, <1>3, PlaceChanges

LEMMA StartEffect ==
  ASSUME Typed, NEW i \in 1 .. Len(tasks), HandlerStarts(i)
  PROVE  /\ i \in DOMAIN tasks /\ tasks[i].phase = "ready" /\ tasks[i].at < ChunkSize
         /\ Becomes(i, tasks[i].at, "handling")
         /\ handled' = Append(handled, Current(i)) /\ handled' \in Seq(Nat)
<1>1. /\ i \in DOMAIN tasks /\ tasks[i].phase = "ready" /\ tasks[i].at < ChunkSize
      /\ tasks' = [tasks EXCEPT ![i].phase = "handling"]
      /\ handled' = Append(handled, Current(i)) /\ handled \in Seq(Nat)
  BY DEF HandlerStarts, InTask, Typed, TypeOK
<1>2. handled' \in Seq(Nat)
  BY <1>1, TaskFacts, AppendProperties
<1> QED
  BY <1>1, <1>2, PhaseChanges

(* The end of a delivery.                                                  *)
LEMMA EndEffect ==
  ASSUME Typed, NEW i \in 1 .. Len(tasks), tasks' = without(tasks, i)
  PROVE  /\ tasks' \in Seq(Delivering) /\ tasks' \in Seq(Task) /\ Len(tasks') = Len(tasks) - 1
<1>1. i \in DOMAIN tasks
  BY LenProperties DEF Typed
<1> QED
  BY <1>1, Removed

LEMMA CreditWrittenEffect ==
  ASSUME Typed, NEW i \in 1 .. Len(tasks), CreditWritten(i)
  PROVE  /\ tasks' \in Seq(Delivering) /\ tasks' \in Seq(Task) /\ Len(tasks') <= Len(tasks)
         /\ i \in DOMAIN tasks /\ tasks[i].phase = "granting"
<1>1. i \in DOMAIN tasks /\ tasks[i].phase = "granting" /\ Len(tasks) \in Nat
  BY LenProperties DEF CreditWritten, InTask, Typed
<1>2. CASE tasks' = [tasks EXCEPT ![i].phase = "ready"]
  <2>1. Becomes(i, tasks[i].at, "ready")
    BY <1>1, <1>2, PhaseChanges
  <2> QED
    BY <1>1, <2>1 DEF Becomes
<1>3. CASE tasks' = without(tasks, i)
  BY <1>1, <1>3, EndEffect
<1> QED
  BY <1>1, <1>2, <1>3 DEF CreditWritten

LEMMA InitTyped == Init => Typed
<1> SUFFICES ASSUME Init PROVE Typed
  OBVIOUS
<1>1. PICK first \in Positions(StartType, StartValue) :
        /\ sub = [on |-> TRUE, next |-> first, credit |-> StartFrom]
        /\ origin = IF StartType = "numeric" THEN StartValue ELSE FirstOf(first)
  BY DEF Init
<1>2. tail \in 0 .. NumChunks /\ NumChunks \in Nat /\ StartValue \in Nat /\ StartType \in OffsetTypes
  BY ConsumerAssumption DEF Init
<1>3. first \in 1 .. NumChunks + 1
  <2>1. CASE StartType = "numeric"
    BY <1>2, <2>1, PositionType DEF Positions
  <2>2. CASE StartType = "timestamp"
    BY <1>2, <2>2 DEF Positions
  <2>3. CASE StartType = "first"
    BY <1>2, <2>3 DEF Positions
  <2>4. CASE StartType = "last"
    BY <1>2, <2>4 DEF Positions
  <2>5. CASE StartType = "next"
    BY <1>2, <2>5 DEF Positions
  <2> QED
    BY <1>2, <2>1, <2>2, <2>3, <2>4, <2>5 DEF OffsetTypes
<1>4. origin \in Nat
  BY <1>1, <1>2, <1>3, FirstOfType
<1>5. sub \in SubType
  BY <1>1, <1>3, ConsumerAssumption DEF SubType
<1>6. offset \in [type : OffsetTypes, value : Nat]
  <2>1. Millis \in Nat
    BY ConsumerAssumption, ProductIsNat DEF Millis
  <2>2. \E v \in Nat : offset = Offset(StartType, v)
    <3>1. CASE StartType = "numeric"
      BY <1>2, <3>1 DEF Init
    <3>2. CASE StartType = "timestamp"
      BY <2>1, <3>2 DEF Init
    <3>3. CASE StartType \in {"first", "last", "next"}
      BY <3>3 DEF Init
    <3> QED
      BY <1>2, <3>1, <3>2, <3>3 DEF OffsetTypes
  <2> QED
    BY <1>2, <2>2 DEF Offset
<1>7. /\ <<>> \in Seq(Chunks) /\ <<>> \in Seq(Delivering) /\ <<>> \in Seq(Task) /\ <<>> \in Seq(Nat)
  BY EmptySeq
<1>8. used \in [Events -> Nat] /\ local = offset
  BY DEF Init
<1> QED
  BY <1>2, <1>4, <1>5, <1>6, <1>7, <1>8 DEF Init, Typed, TypeOK, SubType

(* Steps of a delivery.                                                    *)
LEMMA DeliveryTyped ==
  ASSUME Typed, NEW i \in 1 .. Len(tasks), Delivery(i)
  PROVE  Typed'
<1> USE DEF history, consumer, SubType
<1>0. i \in DOMAIN tasks /\ Current(i) \in Nat
  BY TaskFacts, LenProperties DEF Typed
<1>1. CASE CreditWritten(i)
  <2>1. tasks' \in Seq(Delivering) /\ tasks' \in Seq(Task)
    BY <1>1, CreditWrittenEffect
  <2> QED
    BY <1>1, <2>1 DEF CreditWritten, Typed, TypeOK
<1>2. CASE SkipMessage(i)
  <2>1. tasks' \in Seq(Delivering) /\ tasks' \in Seq(Task)
    BY <1>2, SkipEffect DEF Becomes
  <2> QED
    BY <1>2, <2>1 DEF SkipMessage, Typed, TypeOK
<1>3. CASE HandlerStarts(i)
  <2>1. tasks' \in Seq(Delivering) /\ tasks' \in Seq(Task) /\ handled' \in Seq(Nat)
    BY <1>3, StartEffect DEF Becomes
  <2> QED
    BY <1>3, <2>1 DEF HandlerStarts, Typed, TypeOK
<1>4. CASE HandlerReturns(i)
  <2>1. tasks' \in Seq(Delivering) /\ tasks' \in Seq(Task)
    BY <1>4, ReturnEffect DEF Becomes
  <2>2. local' \in [type : OffsetTypes, value : Nat]
    BY <1>0, <1>4, OffsetType DEF HandlerReturns
  <2>3. done' \in SUBSET Nat
    BY <1>0, <1>4 DEF HandlerReturns, Typed, TypeOK
  <2> QED
    BY <1>4, <2>1, <2>2, <2>3 DEF HandlerReturns, Typed, TypeOK
<1>5. CASE ChunkCompleted(i)
  <2>1. tasks' \in Seq(Delivering) /\ tasks' \in Seq(Task)
    BY <1>5, EndEffect DEF ChunkCompleted
  <2>2. sub' \in SubType
    BY <1>5, GrantedType, ConsumerAssumption DEF ChunkCompleted, Typed, TypeOK
  <2> QED
    BY <1>5, <2>1, <2>2 DEF ChunkCompleted, Typed, TypeOK
<1> QED
  BY <1>1, <1>2, <1>3, <1>4, <1>5 DEF Delivery

LEMMA ArrivalEffect ==
  ASSUME Typed, ChunkArrives
  PROVE  /\ net # <<>> /\ net' = Tail(net) /\ net' \in Seq(Chunks)
         /\ \/ tasks' = tasks /\ sub' = sub
            \/ \E p \in {"granting", "ready"} :
                 tasks' = Append(tasks, [chunk |-> Head(net), at |-> 0, phase |-> p])
         /\ sub' \in SubType /\ sub'.next = sub.next /\ sub'.on = sub.on
         /\ policy = "completed" => sub' = sub
         /\ tasks' \in Seq(Delivering) /\ tasks' \in Seq(Task)
<1>1. net # <<>> /\ net' = Tail(net) /\ net' \in Seq(Chunks) /\ Head(net) \in Chunks
  BY FrameFacts DEF ChunkArrives, Typed
<1>2. sub \in SubType
  BY DEF Typed, TypeOK, SubType
<1>3. /\ sub' \in SubType /\ sub'.next = sub.next /\ sub'.on = sub.on
      /\ policy = "completed" => sub' = sub
  BY <1>2, GrantedType, ConsumerAssumption DEF ChunkArrives, Granted, SubType
<1>4. \/ tasks' = tasks /\ sub' = sub
      \/ \E p \in {"granting", "ready"} :
           tasks' = Append(tasks, [chunk |-> Head(net), at |-> 0, phase |-> p])
  BY DEF ChunkArrives
<1>5. tasks' \in Seq(Delivering) /\ tasks' \in Seq(Task)
  <2>1. CASE tasks' = tasks
    BY <2>1 DEF Typed, TypeOK
  <2>2. ASSUME NEW p \in {"granting", "ready"},
               tasks' = Append(tasks, [chunk |-> Head(net), at |-> 0, phase |-> p])
        PROVE  tasks' \in Seq(Delivering) /\ tasks' \in Seq(Task)
    BY <1>1, <2>2, NewTask, Added
  <2> QED
    BY <1>4, <2>1, <2>2
<1> QED
  BY <1>1, <1>3, <1>4, <1>5

LEMMA DeliverEffect ==
  ASSUME Typed, Deliver
  PROVE  /\ sub.next \in Chunks /\ sub.credit \in Nat \ {0}
         /\ sub' \in SubType /\ sub'.next = sub.next + 1 /\ sub'.credit = sub.credit - 1
         /\ net' = Append(net, sub.next) /\ net' \in Seq(Chunks)
<1>1. /\ sub \in SubType /\ sub.credit > 0 /\ sub.next <= tail
      /\ tail \in 0 .. NumChunks /\ NumChunks \in Nat /\ net \in Seq(Chunks)
      /\ sub' = [sub EXCEPT !.next = @ + 1, !.credit = @ - 1]
      /\ net' = Append(net, sub.next)
  BY ConsumerAssumption DEF Deliver, Typed, TypeOK, SubType
<1>2. sub.next \in 1 .. NumChunks + 1 /\ sub.credit \in Nat /\ sub.on \in BOOLEAN
  BY <1>1 DEF SubType
<1>3. /\ sub.next + 1 \in 1 .. NumChunks + 1 /\ sub.credit - 1 \in Nat
      /\ sub.next \in 1 .. NumChunks
  BY <1>1, <1>2
<1>4. /\ sub'.next = sub.next + 1 /\ sub'.credit = sub.credit - 1
      /\ sub' \in SubType
  BY <1>1, <1>3 DEF SubType
<1>5. net' \in Seq(Chunks)
  BY <1>1, <1>3, AppendProperties DEF Chunks
<1> QED
  BY <1>1, <1>2, <1>3, <1>4, <1>5 DEF Chunks

LEMMA StepTyped == Typed /\ [Next]_vars => Typed'
<1> SUFFICES ASSUME Typed, [Next]_vars PROVE Typed'
  OBVIOUS
<1> USE DEF history, consumer, SubType
<1>0. /\ sub \in SubType /\ net \in Seq(Chunks) /\ NumChunks \in Nat /\ tail \in 0 .. NumChunks
      /\ conn \in {"up", "down", "opening", "handshake"}
  BY ConsumerAssumption DEF Typed, TypeOK
<1>1. CASE UNCHANGED vars
  BY <1>1 DEF vars, Typed, TypeOK
<1>2. CASE Publish
  <2>1. tail' \in 0 .. NumChunks
    BY <1>0, <1>2 DEF Publish
  <2> QED
    BY <1>2, <2>1 DEF Publish, Typed, TypeOK
<1>3. CASE Deliver
  <2>1. sub' \in SubType /\ net' \in Seq(Chunks)
    BY <1>3, DeliverEffect
  <2> QED
    BY <1>3, <2>1 DEF Deliver, Typed, TypeOK
<1>4. CASE ChunkArrives
  <2>1. /\ net' \in Seq(Chunks) /\ sub' \in SubType
        /\ tasks' \in Seq(Delivering) /\ tasks' \in Seq(Task)
    BY <1>4, ArrivalEffect
  <2> QED
    BY <1>4, <2>1 DEF ChunkArrives, Typed, TypeOK
<1>5. ASSUME NEW i \in 1 .. Len(tasks), Delivery(i) PROVE Typed'
  BY <1>5, DeliveryTyped
<1>6. ASSUME NEW i \in 1 .. Len(tasks), HandlerThrows(i) PROVE Typed'
  <2>1. tasks' \in Seq(Delivering) /\ tasks' \in Seq(Task)
    BY <1>6, EndEffect DEF HandlerThrows
  <2>2. used' \in [Events -> Nat]
    BY <1>6, SpendType DEF HandlerThrows, Events, Typed
  <2> QED
    BY <1>6, <2>1, <2>2 DEF HandlerThrows, Typed, TypeOK
<1>7. CASE Drop
  <2>1. used' \in [Events -> Nat]
    BY <1>7, SpendType DEF Drop, Events, Typed
  <2> QED
    BY <1>0, <1>7, <2>1, EndsType DEF Drop, Typed, TypeOK
<1>8. CASE Restart
  <2>1. used' \in [Events -> Nat]
    BY <1>8, SpendType DEF Restart, Events, Typed, TypeOK
  <2> QED
    BY <1>0, <1>8, <2>1, EndsType DEF Restart, Typed, TypeOK
<1>9. CASE SocketConnects
  BY <1>9 DEF SocketConnects, Typed, TypeOK
<1>10. CASE Resubscribe
  <2>1. getOffset \in Nat
    BY DEF getOffset, Typed, TypeOK
  <2>2. sub' \in SubType
    BY <1>0, <1>10, <2>1, PositionType, ConsumerAssumption DEF Resubscribe
  <2> QED
    BY <1>10, <2>2 DEF Resubscribe, Typed, TypeOK
<1>11. CASE Close
  <2>1. used' \in [Events -> Nat]
    BY <1>11, SpendType DEF Close, Events, Typed
  <2> QED
    BY <1>0, <1>11, <2>1, ReleaseType DEF Close, Typed, TypeOK
<1>12. CASE Unsubscribe
  <2>1. used' \in [Events -> Nat]
    BY <1>12, SpendType DEF Unsubscribe, Events, Typed
  <2> QED
    BY <1>0, <1>12, <2>1 DEF Unsubscribe, Typed, TypeOK
<1>13. CASE Closing
  BY <1>0, <1>13, ReleaseType DEF Closing, Typed, TypeOK
<1> QED
  BY <1>1, <1>2, <1>3, <1>4, <1>5, <1>6, <1>7, <1>8, <1>9, <1>10, <1>11, <1>12, <1>13 DEF Next

(* The types of the subscription, the deliveries and the offsets.          *)
THEOREM TypeCorrect == Spec => []TypeOK
<1>1. Typed => TypeOK
  BY DEF Typed
<1> QED
  BY <1>1, InitTyped, StepTyped, PTL DEF Spec

-----------------------------------------------------------------------------
(* Credit.                                                                 *)

(* What the subscription may still cause: credit, frames and deliveries.   *)
Outstanding == sub.credit + Len(net) + Len(tasks)
Paced == policy = "completed" /\ Step = 1
Reopened == conn \in {"opening", "handshake"} => restarted
CreditInv == Reopened /\ CreditsConserved

LEMMA Lengths ==
  ASSUME Typed
  PROVE  Len(net) \in Nat /\ Len(tasks) \in Nat /\ sub.credit \in Nat /\ StartFrom \in Nat
  BY LenProperties, ConsumerAssumption DEF Typed, TypeOK

LEMMA SameCredit ==
  ASSUME Typed, Typed', CreditsConserved, restarted' = restarted, policy' = policy, Paced => Outstanding' <= Outstanding
  PROVE  CreditsConserved'
<1>1. Outstanding \in Nat /\ Outstanding' \in Nat /\ StartFrom \in Nat
  <2>1. Len(net') \in Nat /\ Len(tasks') \in Nat /\ sub'.credit \in Nat
    BY LenProperties DEF Typed, TypeOK
  <2> QED
    BY <2>1, Lengths, SMTT(30) DEF Outstanding
<1>2. CASE Paced /\ ~restarted
  <2>1. Outstanding <= StartFrom
    BY <1>2 DEF CreditsConserved, Outstanding, Paced
  <2>2. Outstanding' <= StartFrom
    BY <1>1, <1>2, <2>1
  <2> QED
    BY <2>2 DEF CreditsConserved, Outstanding
<1>3. CASE ~(Paced /\ ~restarted)
  BY <1>3 DEF CreditsConserved, Paced
<1> QED
  BY <1>2, <1>3

LEMMA EndsCredit ==
  ASSUME Typed, SubscriptionEnds
  PROVE  sub'.credit = 0 /\ Len(net') = 0
  BY EndsType, EmptySeq DEF Typed, TypeOK, SubType

LEMMA ReleaseCredit ==
  ASSUME Typed, releaseConnection, tasks' = tasks
  PROVE  Outstanding' <= Outstanding /\ (Reopened /\ restarted' = restarted => Reopened')
<1>1. CASE UNCHANGED <<conn, sub, net>>
  BY <1>1, Lengths DEF Outstanding, Reopened
<1>2. CASE conn = "up" /\ conn' = "down" /\ SubscriptionEnds
  BY <1>2, EndsCredit, Lengths DEF Outstanding, Reopened
<1> QED
  BY <1>1, <1>2 DEF releaseConnection

LEMMA DeliveryCredit ==
  ASSUME Typed, NEW i \in 1 .. Len(tasks), Delivery(i)
  PROVE  /\ restarted' = restarted /\ conn' = conn /\ policy' = policy
         /\ Paced => Outstanding' <= Outstanding
<1> USE DEF history, consumer
<1>0. i \in DOMAIN tasks
  BY LenProperties DEF Typed
<1>1. CASE CreditWritten(i)
  <2>1. Len(tasks') <= Len(tasks) /\ tasks' \in Seq(Delivering)
    BY <1>1, CreditWrittenEffect
  <2>2. Len(tasks') \in Nat
    BY <2>1, LenProperties
  <2> QED
    BY <1>1, <2>1, <2>2, Lengths DEF CreditWritten, Outstanding
<1>2. CASE SkipMessage(i)
  <2>1. Len(tasks') = Len(tasks)
    BY <1>2, SkipEffect DEF Becomes
  <2> QED
    BY <1>2, <2>1, Lengths DEF SkipMessage, Outstanding
<1>3. CASE HandlerStarts(i)
  <2>1. Len(tasks') = Len(tasks)
    BY <1>3, StartEffect DEF Becomes
  <2> QED
    BY <1>3, <2>1, Lengths DEF HandlerStarts, Outstanding
<1>4. CASE HandlerReturns(i)
  <2>1. Len(tasks') = Len(tasks)
    BY <1>4, ReturnEffect DEF Becomes
  <2> QED
    BY <1>4, <2>1, Lengths DEF HandlerReturns, Outstanding
<1>5. CASE ChunkCompleted(i)
  <2>1. Len(tasks') = Len(tasks) - 1
    BY <1>5, EndEffect DEF ChunkCompleted
  <2>2. Paced => sub'.credit \in Nat /\ sub'.credit <= sub.credit + 1
    BY <1>5, Lengths DEF ChunkCompleted, Granted, Paced, Typed, TypeOK
  <2> QED
    BY <1>5, <2>1, <2>2, Lengths, SMTT(30) DEF ChunkCompleted, Outstanding
<1> QED
  BY <1>1, <1>2, <1>3, <1>4, <1>5 DEF Delivery

LEMMA ArrivalCredit ==
  ASSUME Typed, ChunkArrives
  PROVE  /\ restarted' = restarted /\ conn' = conn /\ policy' = policy
         /\ Paced => Outstanding' <= Outstanding
<1>1. Len(net') = Len(net) - 1
  BY ArrivalEffect, FrameFacts DEF Typed
<1>2. tasks' = tasks \/ Len(tasks') = Len(tasks) + 1
  <2>1. ASSUME NEW p \in {"granting", "ready"},
               tasks' = Append(tasks, [chunk |-> Head(net), at |-> 0, phase |-> p])
        PROVE  Len(tasks') = Len(tasks) + 1
    BY <2>1, ArrivalEffect, FrameFacts, NewTask, Added DEF Typed
  <2> QED
    BY <2>1, ArrivalEffect
<1>3. Paced => sub' = sub
  BY ArrivalEffect DEF Paced
<1> QED
  BY <1>1, <1>2, <1>3, Lengths DEF ChunkArrives, Outstanding, history, consumer

LEMMA StepCredit == Typed /\ CreditInv /\ [Next]_vars => CreditInv'
<1> SUFFICES ASSUME Typed, CreditInv, [Next]_vars PROVE CreditInv'
  OBVIOUS
<1> USE DEF history, consumer
<1>0. Typed' /\ Reopened /\ CreditsConserved
  BY StepTyped DEF CreditInv
<1>1. CASE UNCHANGED vars
  BY <1>1 DEF vars, CreditInv, Reopened, CreditsConserved
<1>2. CASE Publish
  BY <1>2 DEF Publish, CreditInv, Reopened, CreditsConserved
<1>3. CASE Deliver
  <2>1. sub'.credit = sub.credit - 1 /\ Len(net') = Len(net) + 1
    BY <1>3, DeliverEffect, AppendProperties DEF Typed, TypeOK
  <2>2. Outstanding' <= Outstanding
    BY <1>3, <2>1, Lengths DEF Deliver, Outstanding
  <2>3. CreditsConserved'
    BY <1>0, <1>3, <2>2, SameCredit DEF Deliver
  <2> QED
    BY <1>0, <1>3, <2>3 DEF Deliver, CreditInv, Reopened
<1>4. CASE ChunkArrives
  BY <1>0, <1>4, ArrivalCredit, SameCredit DEF CreditInv, Reopened
<1>5. ASSUME NEW i \in 1 .. Len(tasks), Delivery(i) PROVE CreditInv'
  BY <1>0, <1>5, DeliveryCredit, SameCredit DEF CreditInv, Reopened
<1>6. ASSUME NEW i \in 1 .. Len(tasks), HandlerThrows(i) PROVE CreditInv'
  <2>1. Len(tasks') = Len(tasks) - 1
    BY <1>6, EndEffect DEF HandlerThrows
  <2>2. Outstanding' <= Outstanding
    BY <1>6, <2>1, Lengths DEF HandlerThrows, Outstanding
  <2>3. CreditsConserved'
    BY <1>0, <1>6, <2>2, SameCredit DEF HandlerThrows
  <2> QED
    BY <1>0, <1>6, <2>3 DEF HandlerThrows, CreditInv, Reopened
<1>7. CASE Drop
  <2>1. Outstanding' <= Outstanding
    BY <1>7, EndsCredit, Lengths DEF Drop, Outstanding
  <2>2. CreditsConserved'
    BY <1>0, <1>7, <2>1, SameCredit DEF Drop
  <2> QED
    BY <1>7, <2>2 DEF Drop, CreditInv, Reopened
<1>8. CASE Restart
  BY <1>8 DEF Restart, CreditInv, Reopened, CreditsConserved
<1>9. CASE SocketConnects
  BY <1>0, <1>9 DEF SocketConnects, CreditInv, Reopened, CreditsConserved
<1>10. CASE Resubscribe
  BY <1>0, <1>10 DEF Resubscribe, CreditInv, Reopened, CreditsConserved
<1>11. CASE Close
  BY <1>0, <1>11, ReleaseCredit, SameCredit DEF Close, CreditInv
<1>12. CASE Unsubscribe
  <2>1. sub'.credit = 0
    BY <1>12 DEF Unsubscribe, Typed, TypeOK
  <2>2. Outstanding' <= Outstanding
    BY <1>12, <2>1, Lengths DEF Unsubscribe, Outstanding
  <2>3. CreditsConserved'
    BY <1>0, <1>12, <2>2, SameCredit DEF Unsubscribe
  <2> QED
    BY <1>0, <1>12, <2>3 DEF Unsubscribe, CreditInv, Reopened
<1>13. CASE Closing
  BY <1>0, <1>13, ReleaseCredit, SameCredit DEF Closing, CreditInv
<1> QED
  BY <1>1, <1>2, <1>3, <1>4, <1>5, <1>6, <1>7, <1>8, <1>9, <1>10, <1>11, <1>12, <1>13 DEF Next

LEMMA InitCredit == Init => CreditInv
<1> SUFFICES ASSUME Init PROVE CreditInv
  OBVIOUS
<1>1. sub.credit = StartFrom /\ Len(net) = 0 /\ Len(tasks) = 0 /\ StartFrom \in Nat /\ conn = "up"
  BY EmptySeq, ConsumerAssumption DEF Init
<1> QED
  BY <1>1 DEF CreditInv, Reopened, CreditsConserved

(* With the default policy, and whatever is closed or thrown, a consumer   *)
(* never holds more chunks than the credit it asked for first.             *)
THEOREM CreditsKept == Spec => []CreditsConserved
<1>1. Init => Typed /\ CreditInv
  BY InitTyped, InitCredit
<1>2. Typed /\ CreditInv /\ [Next]_vars => (Typed /\ CreditInv)'
  BY StepTyped, StepCredit
<1>3. CreditInv => CreditsConserved
  BY DEF CreditInv
<1> QED
  BY <1>1, <1>2, <1>3, PTL DEF Spec

-----------------------------------------------------------------------------
(* Order.  With one chunk under way at a time, everything handled lies     *)
(* before the delivery's place, the chunks on the wire, and those to come. *)

Sequential == policy = "completed" /\ StartFrom = 1 /\ Step = 1

Before(o) == \A i \in DOMAIN handled : handled[i] < o
Increasing == \A i, j \in DOMAIN handled : i < j => handled[i] < handled[j]
WireAhead == \A k \in DOMAIN net : net[k] < sub.next /\ Before(FirstOf(net[k]))
TaskAhead(k) ==
  /\ tasks[k].chunk < sub.next
  /\ tasks[k].phase # "handling" => Before(Current(k))
  /\ tasks[k].phase = "handling" => Before(Current(k) + 1)
Ordered ==
  /\ Increasing /\ Before(FirstOf(sub.next)) /\ WireAhead
  /\ \A k \in DOMAIN tasks : TaskAhead(k)
OrderInv == Sequential /\ ~restarted => Ordered

LEMMA HandledFacts ==
  ASSUME Typed
  PROVE  /\ handled \in Seq(Nat) /\ Len(handled) \in Nat /\ DOMAIN handled = 1 .. Len(handled)
         /\ \A i \in DOMAIN handled : handled[i] \in Nat
<1>1. handled \in Seq(Nat)
  BY DEF Typed, TypeOK
<1>2. Len(handled) \in Nat /\ DOMAIN handled = 1 .. Len(handled)
  BY <1>1, LenProperties
<1> QED
  BY <1>1, <1>2, ElementOfSeq

LEMMA FirstOfMonotone ==
  ASSUME NEW a \in Nat \ {0}, NEW b \in Nat \ {0}, a <= b
  PROVE  FirstOf(a) <= FirstOf(b)
<1>1. /\ b - a \in Nat /\ a - 1 \in Nat /\ b - 1 = (a - 1) + (b - a) /\ ChunkSize \in Nat
  BY ConsumerAssumption
<1>2. (b - 1) * ChunkSize = (a - 1) * ChunkSize + (b - a) * ChunkSize
  BY <1>1
<1>3. (b - a) * ChunkSize \in Nat /\ (a - 1) * ChunkSize \in Nat
  BY <1>1, ProductIsNat
<1> QED
  BY <1>2, <1>3 DEF FirstOf

LEMMA BeforeMore ==
  ASSUME Typed, NEW a \in Nat, NEW b \in Nat, a <= b, Before(a)
  PROVE  Before(b)
  BY HandledFacts DEF Before

(* At most one chunk is under way.                                         *)
LEMMA OneUnderWay ==
  ASSUME Typed, CreditInv, Sequential, ~restarted
  PROVE  /\ sub.credit + Len(net) + Len(tasks) <= 1 /\ Len(tasks) <= 1
         /\ (Len(tasks) = 1 => Len(net) = 0 /\ sub.credit = 0)
<1>1. sub.credit + Len(net) + Len(tasks) <= 1
  BY DEF Sequential, CreditInv, CreditsConserved
<1>2. \A a, b, c \in Nat : a + b + c <= 1 => c <= 1 /\ (c = 1 => a = 0 /\ b = 0)
  OBVIOUS
<1>3. sub.credit \in Nat /\ Len(net) \in Nat /\ Len(tasks) \in Nat
  BY Lengths
<1> QED
  BY <1>1, <1>2, <1>3

(* Steps that start, move or handle nothing.                               *)
LEMMA OrderStays ==
  ASSUME Typed, Ordered, handled' = handled, sub'.next = sub.next,
         net' = net \/ net' = <<>>, tasks' = tasks \/ DOMAIN tasks' = {}
  PROVE  Ordered'
<1>1. Increasing' /\ Before(FirstOf(sub.next))'
  BY DEF Ordered, Increasing, Before, FirstOf
<1>2. WireAhead'
  <2>1. CASE net' = net
    BY <2>1 DEF Ordered, WireAhead, Before, FirstOf
  <2>2. CASE net' = <<>>
    <3>1. DOMAIN net' = {}
      BY <2>2
    <3> QED
      BY <3>1 DEF WireAhead
  <2> QED
    BY <2>1, <2>2
<1>3. \A k \in DOMAIN tasks' : TaskAhead(k)'
  BY DEF Ordered, TaskAhead, Before, Current, FirstOf
<1> QED
  BY <1>1, <1>2, <1>3 DEF Ordered

LEMMA EmptyDomain ==
  ASSUME tasks' \in Seq(Delivering), Len(tasks') = 0
  PROVE  DOMAIN tasks' = {}
<1>1. DOMAIN tasks' = 1 .. 0
  BY LenProperties
<1> QED
  BY <1>1

LEMMA EndOrder ==
  ASSUME Typed, CreditInv, Sequential, ~restarted, Ordered,
         NEW i \in 1 .. Len(tasks), tasks' = without(tasks, i),
         handled' = handled, sub'.next = sub.next, net' = net
  PROVE  Ordered'
<1>1. tasks' \in Seq(Delivering) /\ Len(tasks') = 0
  BY EndEffect, OneUnderWay, Lengths
<1>2. DOMAIN tasks' = {}
  BY <1>1, EmptyDomain
<1> QED
  BY <1>2, OrderStays

(* One delivery moves on; a message may be handled.                        *)
LEMMA BecomesOrder ==
  ASSUME Typed, CreditInv, Sequential, ~restarted, Ordered,
         NEW i \in DOMAIN tasks, NEW a \in Nat, NEW p, Becomes(i, a, p), handled' = handled,
         sub' = sub, net' = net,
         (p # "handling" => Before(FirstOf(tasks[i].chunk) + a)),
         (p = "handling" => Before(FirstOf(tasks[i].chunk) + a + 1))
  PROVE  Ordered'
<1>1. i \in 1 .. Len(tasks) /\ Len(tasks) <= 1 /\ Len(tasks) \in Nat
  BY TaskFacts, OneUnderWay, Lengths
<1>2. i = 1 /\ DOMAIN tasks' = {1}
  <2>1. tasks' \in Seq(Delivering) /\ Len(tasks') = 1
    BY <1>1 DEF Becomes
  <2> QED
    BY <1>1, <2>1, LenProperties
<1>3. Current(i)' = FirstOf(tasks[i].chunk) + a
  BY DEF Becomes, Current, FirstOf
<1>4. TaskAhead(i)'
  <2>1. tasks'[i].chunk < sub'.next /\ tasks'[i].phase = p
    BY DEF Becomes, Ordered, TaskAhead
  <2>2. p # "handling" => Before(Current(i))'
    BY <1>3 DEF Before
  <2>3. p = "handling" => Before(Current(i) + 1)'
    BY <1>3 DEF Before
  <2> QED
    BY <2>1, <2>2, <2>3 DEF TaskAhead
<1>5. Increasing' /\ Before(FirstOf(sub.next))' /\ WireAhead'
  BY DEF Ordered, Increasing, Before, WireAhead, FirstOf
<1> QED
  BY <1>2, <1>4, <1>5 DEF Ordered

(* The handler is called: the message lies beyond all handled before, and  *)
(* before the end of its chunk and so before every chunk to come.          *)
LEMMA StartOrder ==
  ASSUME Typed, CreditInv, Sequential, ~restarted, Ordered,
         NEW i \in 1 .. Len(tasks), HandlerStarts(i)
  PROVE  Ordered'
<1> DEFINE o == Current(i)
           c == tasks[i].chunk
           next == sub.next
           n == Len(handled)
<1>1. /\ i \in DOMAIN tasks /\ tasks[i].phase = "ready" /\ tasks[i].at < ChunkSize
      /\ Becomes(i, tasks[i].at, "handling") /\ handled' = Append(handled, o)
      /\ sub' = sub /\ net' = net
  BY StartEffect DEF HandlerStarts
<1>2. /\ c \in Nat \ {0} /\ tasks[i].at \in Nat /\ ChunkSize \in Nat /\ o \in Nat
      /\ next \in Nat \ {0} /\ c < next /\ Before(o)
  <2>1. c \in Nat \ {0} /\ tasks[i].at \in Nat /\ ChunkSize \in Nat /\ o \in Nat
    BY <1>1, TaskFacts, ConsumerAssumption DEF Chunks
  <2>2. next \in Nat \ {0}
    BY ConsumerAssumption DEF Typed, TypeOK
  <2>3. c < next /\ Before(o)
    BY <1>1 DEF Ordered, TaskAhead
  <2> QED
    BY <2>1, <2>2, <2>3
<1>3. Len(tasks) = 1 /\ i = 1 /\ Len(net) = 0
  <2>1. Len(tasks) <= 1 /\ Len(tasks) \in Nat
    BY OneUnderWay, Lengths
  <2>2. \A m \in Nat : \A k \in 1 .. m : m <= 1 => m = 1 /\ k = 1
    OBVIOUS
  <2>3. Len(tasks) = 1 /\ i = 1
    BY <2>1, <2>2
  <2> QED
    BY <2>3, OneUnderWay
<1>4. o < FirstOf(next)
  <2>1. o = FirstOf(c) + tasks[i].at
    BY DEF Current
  <2>2. FirstOf(c) \in Nat /\ FirstOf(c + 1) = FirstOf(c) + ChunkSize
    BY <1>2, FirstOfType
  <2> HIDE DEF o, c, next
  <2>3. c + 1 \in Nat \ {0} /\ c + 1 <= next
    BY <1>2
  <2>4. FirstOf(c + 1) <= FirstOf(next)
    BY <1>2, <2>3, FirstOfMonotone
  <2>5. FirstOf(next) \in Nat
    BY <1>2, FirstOfType
  <2> QED
    BY <1>1, <1>2, <2>1, <2>2, <2>4, <2>5
<1>5. FirstOf(next) \in Nat
  BY <1>2, FirstOfType
<1>6. o' = o
  BY <1>1 DEF Becomes, Current, FirstOf
<1>7. /\ Len(handled') = n + 1 /\ DOMAIN handled' = 1 .. n + 1 /\ n \in Nat
      /\ handled'[n + 1] = o
      /\ \A j \in 1 .. n : handled'[j] = handled[j] /\ handled[j] < o /\ handled[j] \in Nat
  <2>1. handled \in Seq(Nat) /\ n \in Nat /\ DOMAIN handled = 1 .. n
    BY HandledFacts
  <2>2. /\ Append(handled, o) \in Seq(Nat) /\ Len(Append(handled, o)) = n + 1
        /\ \A j \in 1 .. n : Append(handled, o)[j] = handled[j]
        /\ Append(handled, o)[n + 1] = o
    BY <1>2, <2>1, AppendProperties
  <2>3. handled' \in Seq(Nat) /\ Len(handled') = n + 1
    BY <1>1, <2>2
  <2>4. DOMAIN handled' = 1 .. n + 1
    BY <2>3, LenProperties
  <2>5. \A j \in 1 .. n : handled[j] < o /\ handled[j] \in Nat
    BY <1>2, <2>1, HandledFacts DEF Before
  <2> QED
    BY <1>1, <2>1, <2>2, <2>3, <2>4, <2>5
<1> HIDE DEF o, c, next, n
<1>8. \A j \in DOMAIN handled' : j \in 1 .. n \/ (j = n + 1 /\ handled'[j] = o)
  BY <1>7
<1>9. Increasing'
  <2> SUFFICES ASSUME NEW j \in DOMAIN handled', NEW k \in DOMAIN handled', j < k
               PROVE  handled'[j] < handled'[k]
    BY DEF Increasing
  <2>1. j \in 1 .. n
    BY <1>7
  <2>2. CASE k \in 1 .. n
    <3>1. handled[j] < handled[k]
      BY <2>1, <2>2, HandledFacts DEF Ordered, Increasing, n
    <3> QED
      BY <1>7, <2>1, <2>2, <3>1
  <2>3. CASE k = n + 1
    BY <1>7, <2>1, <2>3
  <2> QED
    BY <1>8, <2>2, <2>3
<1>10. Before(FirstOf(next))'
  <2>1. next' = next /\ FirstOf(next)' = FirstOf(next)
    BY <1>1 DEF next, FirstOf
  <2>2. \A j \in DOMAIN handled' : handled'[j] < FirstOf(next)
    BY <1>2, <1>4, <1>5, <1>7, <1>8
  <2> QED
    BY <2>1, <2>2 DEF Before
<1>11. WireAhead'
  <2>1. DOMAIN net' = {}
    <3>1. net' \in Seq(Chunks) /\ Len(net') = 0
      BY <1>1, <1>3 DEF Typed, TypeOK
    <3>2. DOMAIN net' = 1 .. 0
      BY <3>1, LenProperties
    <3> QED
      BY <3>2
  <2> QED
    BY <2>1 DEF WireAhead
<1>12. \A k \in DOMAIN tasks' : TaskAhead(k)'
  <2>1. DOMAIN tasks' = {i}
    <3>1. tasks' \in Seq(Delivering) /\ Len(tasks') = 1
      BY <1>1, <1>3 DEF Becomes
    <3>2. DOMAIN tasks' = 1 .. 1
      BY <3>1, LenProperties
    <3> QED
      BY <1>3, <3>2
  <2>2. tasks'[i].chunk < sub'.next /\ tasks'[i].phase = "handling"
    BY <1>1, <1>2 DEF Becomes, c, next
  <2>3. \A j \in DOMAIN handled' : handled'[j] < o + 1
    BY <1>2, <1>7, <1>8
  <2>4. Current(i)' = o
    BY <1>6 DEF o
  <2>5. Before(Current(i) + 1)'
    BY <2>3, <2>4 DEF Before
  <2> QED
    BY <2>1, <2>2, <2>5 DEF TaskAhead
<1> QED
  BY <1>9, <1>10, <1>11, <1>12 DEF Ordered, next

LEMMA DeliverOrder ==
  ASSUME Typed, Ordered, Deliver
  PROVE  Ordered'
<1> DEFINE c == sub.next
<1>1. /\ c \in Nat \ {0} /\ sub'.next = c + 1 /\ net' = Append(net, c) /\ net \in Seq(Chunks)
      /\ c \in Chunks /\ handled' = handled /\ tasks' = tasks
  BY DeliverEffect, ConsumerAssumption, SMTT(30) DEF Typed, TypeOK, Deliver, history, Chunks
<1>2. FirstOf(c) \in Nat /\ FirstOf(c + 1) \in Nat /\ FirstOf(c) <= FirstOf(c + 1)
  <2>1. c \in Nat \ {0}
    BY <1>1
  <2> HIDE DEF c
  <2>2. FirstOf(c) \in Nat /\ FirstOf(c + 1) = FirstOf(c) + ChunkSize
    BY <2>1, FirstOfType
  <2>3. ChunkSize \in Nat
    BY ConsumerAssumption
  <2> QED
    BY <2>2, <2>3
<1>3. Before(FirstOf(c)) /\ Before(FirstOf(c + 1))
  BY <1>2, BeforeMore DEF Ordered
<1>4. /\ Len(net) \in Nat /\ DOMAIN net = 1 .. Len(net)
      /\ DOMAIN net' = 1 .. Len(net) + 1 /\ net'[Len(net) + 1] = c
      /\ \A k \in 1 .. Len(net) : net'[k] = net[k] /\ net[k] \in Chunks
  <2>1. /\ Append(net, c) \in Seq(Chunks) /\ Len(Append(net, c)) = Len(net) + 1
        /\ \A k \in 1 .. Len(net) : Append(net, c)[k] = net[k]
        /\ Append(net, c)[Len(net) + 1] = c
    BY <1>1, AppendProperties
  <2>2. DOMAIN net' = 1 .. Len(net) + 1
    <3>1. net' \in Seq(Chunks) /\ Len(net') = Len(net) + 1
      BY <1>1, <2>1
    <3> QED
      BY <3>1, LenProperties
  <2>3. Len(net) \in Nat /\ DOMAIN net = 1 .. Len(net) /\ \A k \in 1 .. Len(net) : net[k] \in Chunks
    BY <1>1, LenProperties, ElementOfSeq
  <2> QED
    BY <1>1, <2>1, <2>2, <2>3
<1> HIDE DEF c
<1>5. \A k \in DOMAIN net : net[k] < c /\ net[k] \in Nat /\ Before(FirstOf(net[k]))
  BY <1>4, ConsumerAssumption DEF Ordered, WireAhead, Chunks, c
<1>6. WireAhead'
  <2> SUFFICES ASSUME NEW k \in DOMAIN net' PROVE net'[k] < sub'.next /\ Before(FirstOf(net'[k]))
    BY <1>1 DEF WireAhead, Before, FirstOf
  <2>1. CASE k \in 1 .. Len(net)
    BY <1>1, <1>4, <1>5, <2>1
  <2>2. CASE k = Len(net) + 1
    BY <1>1, <1>3, <1>4, <2>2
  <2> QED
    BY <1>4, <2>1, <2>2
<1>7. Before(FirstOf(sub.next))'
  BY <1>1, <1>3 DEF Before, FirstOf
<1>8. \A k \in DOMAIN tasks' : TaskAhead(k)'
  <2> SUFFICES ASSUME NEW k \in DOMAIN tasks PROVE TaskAhead(k)'
    BY <1>1
  <2>1. tasks[k].chunk \in Nat /\ tasks[k].chunk < c
    BY TaskFacts, ConsumerAssumption DEF Ordered, TaskAhead, c, Chunks
  <2>2. tasks'[k].chunk < sub'.next
    BY <1>1, <2>1
  <2> QED
    BY <1>1, <2>2 DEF Ordered, TaskAhead, Before, Current, FirstOf
<1>9. Increasing'
  BY <1>1 DEF Ordered, Increasing
<1> QED
  BY <1>6, <1>7, <1>8, <1>9 DEF Ordered

(* A chunk leaves the wire; its delivery may start.                        *)
LEMMA ArrivalOrder ==
  ASSUME Typed, CreditInv, Sequential, ~restarted, Ordered, ChunkArrives
  PROVE  Ordered'
<1>1. /\ net # <<>> /\ net' = Tail(net) /\ sub' = sub /\ handled' = handled
      /\ \/ tasks' = tasks
         \/ \E p \in {"granting", "ready"} :
              tasks' = Append(tasks, [chunk |-> Head(net), at |-> 0, phase |-> p])
  BY ArrivalEffect DEF ChunkArrives, history, Sequential
<1>2. /\ Len(Tail(net)) = Len(net) - 1 /\ Len(net) \in Nat \ {0} /\ Head(net) = net[1]
      /\ Tail(net) \in Seq(Chunks) /\ Head(net) \in Chunks
      /\ \A k \in 1 .. Len(Tail(net)) : Tail(net)[k] = net[k + 1]
  BY <1>1, FrameFacts DEF Typed
<1>3. DOMAIN net = 1 .. Len(net) /\ DOMAIN net' = 1 .. Len(net) - 1
  BY <1>1, <1>2, LenProperties DEF Typed, TypeOK
<1>4. WireAhead'
  <2> SUFFICES ASSUME NEW k \in DOMAIN net'
               PROVE  net'[k] < sub.next /\ Before(FirstOf(net'[k]))
    BY <1>1 DEF WireAhead, Before, FirstOf
  <2>1. k + 1 \in DOMAIN net /\ k \in 1 .. Len(Tail(net))
    BY <1>2, <1>3
  <2>2. net'[k] = net[k + 1]
    BY <1>1, <1>2, <2>1
  <2> QED
    BY <2>1, <2>2 DEF Ordered, WireAhead
<1>5. \A k \in DOMAIN tasks' : TaskAhead(k)'
  <2>1. CASE tasks' = tasks
    BY <1>1, <2>1 DEF Ordered, TaskAhead, Before, Current, FirstOf
  <2>2. ASSUME NEW p \in {"granting", "ready"},
               tasks' = Append(tasks, [chunk |-> Head(net), at |-> 0, phase |-> p])
        PROVE  \A k \in DOMAIN tasks' : TaskAhead(k)'
    <3> DEFINE t == [chunk |-> Head(net), at |-> 0, phase |-> p]
    <3>1. t \in Delivering
      BY <1>2, NewTask
    <3>2. t.chunk = net[1] /\ t.at = 0 /\ t.phase = p
      BY <1>2
    <3>3. net[1] < sub.next /\ Before(FirstOf(net[1])) /\ FirstOf(net[1]) \in Nat
      <4>1. 1 \in DOMAIN net /\ net[1] \in Nat \ {0}
        BY <1>2, <1>3, ConsumerAssumption DEF Chunks
      <4> QED
        BY <4>1, FirstOfType DEF Ordered, WireAhead
    <3>4. Len(tasks) = 0
      <4>1. Len(tasks) <= 1 /\ (Len(tasks) = 1 => Len(net) = 0) /\ Len(tasks) \in Nat
        BY OneUnderWay, Lengths
      <4>2. \A m \in Nat : m <= 1 => m = 0 \/ m = 1
        OBVIOUS
      <4>3. Len(net) # 0
        BY <1>2
      <4> QED
        BY <4>1, <4>2, <4>3
    <3> HIDE DEF t
    <3>5. tasks' = Append(tasks, t)
      BY <2>2 DEF t
    <3>6. tasks' \in Seq(Delivering) /\ Len(tasks') = 1 /\ tasks'[1] = t
      BY <3>1, <3>4, <3>5, Added
    <3>7. DOMAIN tasks' = {1}
      <4>1. DOMAIN tasks' = 1 .. 1
        BY <3>6, LenProperties
      <4> QED
        BY <4>1
    <3>8. Current(1)' = FirstOf(net[1])
      BY <3>2, <3>3, <3>6 DEF Current, FirstOf
    <3>9. TaskAhead(1)'
      <4>1. tasks'[1].phase # "handling" /\ tasks'[1].chunk < sub'.next
        BY <1>1, <3>2, <3>3, <3>6
      <4>2. Before(Current(1))'
        BY <1>1, <3>3, <3>8 DEF Before
      <4> QED
        BY <4>1, <4>2 DEF TaskAhead
    <3> QED
      BY <3>7, <3>9
  <2> QED
    BY <1>1, <2>1, <2>2
<1>6. Increasing' /\ Before(FirstOf(sub.next))'
  BY <1>1 DEF Ordered, Increasing, Before, FirstOf
<1> QED
  BY <1>4, <1>5, <1>6 DEF Ordered

(* A delivery takes a step.                                                *)
LEMMA DeliveryOrder ==
  ASSUME Typed, CreditInv, Sequential, ~restarted, Ordered,
         NEW i \in 1 .. Len(tasks), Delivery(i)
  PROVE  Ordered'
<1> USE DEF history, consumer
<1>0. /\ i \in DOMAIN tasks /\ tasks[i].at \in Nat /\ tasks[i].at + 1 \in Nat
      /\ FirstOf(tasks[i].chunk) \in Nat /\ Current(i) = FirstOf(tasks[i].chunk) + tasks[i].at
      /\ Current(i) \in Nat /\ Current(i) + 1 \in Nat /\ TaskAhead(i)
  <2>1. i \in DOMAIN tasks
    BY LenProperties DEF Typed
  <2>2. tasks[i].at \in Nat /\ tasks[i].chunk \in Nat \ {0} /\ Current(i) \in Nat
    BY <2>1, TaskFacts, ConsumerAssumption DEF Chunks
  <2>3. FirstOf(tasks[i].chunk) \in Nat
    BY <2>2, FirstOfType
  <2> QED
    BY <2>1, <2>2, <2>3 DEF Current, Ordered
<1>1. CASE CreditWritten(i)
  <2>0. tasks[i].phase = "granting" /\ Before(Current(i))
    BY <1>0, <1>1 DEF CreditWritten, InTask, TaskAhead
  <2>1. CASE tasks' = [tasks EXCEPT ![i].phase = "ready"]
    <3>1. Becomes(i, tasks[i].at, "ready")
      BY <1>0, <2>1, PhaseChanges
    <3>2. handled' = handled /\ sub' = sub /\ net' = net
      BY <1>1 DEF CreditWritten
    <3>3. Before(FirstOf(tasks[i].chunk) + tasks[i].at)
      BY <1>0, <2>0
    <3> QED
      BY <1>0, <3>1, <3>2, <3>3, BecomesOrder
  <2>2. CASE tasks' = without(tasks, i)
    BY <1>1, <2>2, EndOrder DEF CreditWritten
  <2> QED
    BY <1>1, <2>1, <2>2 DEF CreditWritten
<1>2. CASE SkipMessage(i)
  <2>1. tasks[i].phase = "ready" /\ Becomes(i, tasks[i].at + 1, "ready")
    BY <1>2, SkipEffect
  <2>2. handled' = handled /\ sub' = sub /\ net' = net
    BY <1>2 DEF SkipMessage
  <2>3. Before(Current(i))
    BY <1>0, <2>1 DEF TaskAhead
  <2>4. Current(i) <= Current(i) + 1
    BY <1>0
  <2>5. Before(Current(i) + 1)
    BY <1>0, <2>3, <2>4, BeforeMore
  <2>6. Before(FirstOf(tasks[i].chunk) + (tasks[i].at + 1))
    <3>1. FirstOf(tasks[i].chunk) + (tasks[i].at + 1) = Current(i) + 1
      BY <1>0
    <3> QED
      BY <2>5, <3>1
  <2> QED
    BY <1>0, <2>1, <2>2, <2>6, BecomesOrder
<1>3. CASE HandlerStarts(i)
  BY <1>3, StartOrder
<1>4. CASE HandlerReturns(i)
  <2>1. tasks[i].phase = "handling" /\ Becomes(i, tasks[i].at + 1, "ready")
    BY <1>4, ReturnEffect
  <2>2. handled' = handled /\ sub' = sub /\ net' = net
    BY <1>4 DEF HandlerReturns
  <2>3. Before(Current(i) + 1)
    BY <1>0, <2>1 DEF TaskAhead
  <2>4. Before(FirstOf(tasks[i].chunk) + (tasks[i].at + 1))
    <3>1. FirstOf(tasks[i].chunk) + (tasks[i].at + 1) = Current(i) + 1
      BY <1>0
    <3> QED
      BY <2>3, <3>1
  <2> QED
    BY <1>0, <2>1, <2>2, <2>4, BecomesOrder
<1>5. CASE ChunkCompleted(i)
  <2>1. sub'.next = sub.next
    BY <1>5 DEF ChunkCompleted, Granted, Typed, TypeOK
  <2> QED
    BY <1>5, <2>1, EndOrder DEF ChunkCompleted
<1> QED
  BY <1>1, <1>2, <1>3, <1>4, <1>5 DEF Delivery

LEMMA ReleaseOrder ==
  ASSUME Typed, Ordered, releaseConnection, handled' = handled, tasks' = tasks
  PROVE  Ordered'
<1>1. sub'.next = sub.next /\ (net' = net \/ net' = <<>>)
  BY EndsType DEF releaseConnection, Typed, TypeOK, SubType
<1> QED
  BY <1>1, OrderStays

LEMMA PolicyStays ==
  ASSUME [Next]_vars
  PROVE  policy' = policy
  BY DEF Next, vars, consumer, Publish, Deliver, ChunkArrives, Delivery, CreditWritten, SkipMessage,
         HandlerStarts, HandlerReturns, ChunkCompleted, HandlerThrows, Drop, Restart,
         SocketConnects, Resubscribe, Close, Unsubscribe, Closing

LEMMA StepOrder == Typed /\ CreditInv /\ OrderInv /\ [Next]_vars => OrderInv'
<1> SUFFICES ASSUME Typed, CreditInv, Sequential, ~restarted', OrderInv, [Next]_vars
             PROVE  Ordered'
  BY PolicyStays DEF OrderInv, Sequential
<1> USE DEF history, consumer
<1>0. ~restarted /\ Ordered /\ conn # "handshake" /\ ~Restart
  <2>1. ~Restart
    BY DEF Restart
  <2>2. restarted' = restarted
    BY <2>1, ArrivalCredit, DeliveryCredit
       DEF Next, vars, Publish, Deliver, HandlerThrows, Drop, SocketConnects, Resubscribe,
           Close, Unsubscribe, Closing
  <2> QED
    BY <2>1, <2>2 DEF OrderInv, CreditInv, Reopened
<1>1. CASE UNCHANGED vars
  BY <1>0, <1>1, OrderStays DEF vars
<1>2. CASE Publish
  BY <1>0, <1>2, OrderStays DEF Publish
<1>3. CASE Deliver
  BY <1>0, <1>3, DeliverOrder
<1>4. CASE ChunkArrives
  BY <1>0, <1>4, ArrivalOrder
<1>5. ASSUME NEW i \in 1 .. Len(tasks), Delivery(i) PROVE Ordered'
  BY <1>0, <1>5, DeliveryOrder
<1>6. ASSUME NEW i \in 1 .. Len(tasks), HandlerThrows(i) PROVE Ordered'
  BY <1>0, <1>6, EndOrder DEF HandlerThrows
<1>7. CASE Drop
  <2>1. sub'.next = sub.next /\ net' = <<>>
    BY <1>7, EndsType DEF Drop, Typed, TypeOK, SubType
  <2> QED
    BY <1>0, <1>7, <2>1, OrderStays DEF Drop
<1>8. CASE SocketConnects
  BY <1>0, <1>8, OrderStays DEF SocketConnects
<1>9. CASE Resubscribe
  BY <1>0, <1>9 DEF Resubscribe
<1>10. CASE Close
  BY <1>0, <1>10, ReleaseOrder DEF Close
<1>11. CASE Unsubscribe
  <2>1. sub'.next = sub.next
    BY <1>11 DEF Unsubscribe, Typed, TypeOK
  <2> QED
    BY <1>0, <1>11, <2>1, OrderStays DEF Unsubscribe
<1>12. CASE Closing
  BY <1>0, <1>12, ReleaseOrder DEF Closing
<1> QED
  BY <1>0, <1>1, <1>2, <1>3, <1>4, <1>5, <1>6, <1>7, <1>8, <1>9, <1>10, <1>11, <1>12 DEF Next

LEMMA InitOrder == Init => OrderInv
<1> SUFFICES ASSUME Init PROVE Ordered
  BY DEF OrderInv
<1>1. DOMAIN handled = {} /\ DOMAIN net = {} /\ DOMAIN tasks = {}
  <2>1. handled = <<>> /\ net = <<>> /\ tasks = <<>>
    BY DEF Init
  <2> QED
    BY <2>1
<1> QED
  BY <1>1 DEF Ordered, Increasing, Before, WireAhead

LEMMA OrderMeansInOrder == Typed /\ CreditInv /\ OrderInv => HandledInOrder
<1> SUFFICES ASSUME Typed, CreditInv, OrderInv, Sequential, ~restarted PROVE InOrder
  BY DEF HandledInOrder, Sequential
<1>1. \A i, j \in DOMAIN handled : i < j => handled[i] < handled[j]
  BY DEF OrderInv, Ordered, Increasing
<1>2. Len(tasks) <= 1 /\ Len(tasks) \in Nat /\ DOMAIN tasks = 1 .. Len(tasks)
  BY OneUnderWay, Lengths, LenProperties DEF Typed
<1>3. \A i, j \in DOMAIN tasks : i = j
  BY <1>2
<1> QED
  BY <1>1, <1>3 DEF InOrder

(* With the default policy and until a reconnection, the handler is called *)
(* in stream order, once for each message and for one message at a time,   *)
(* however deliveries, closes and failures interleave.                     *)
THEOREM OrderKept == Spec => []HandledInOrder
<1>1. Init => Typed /\ CreditInv /\ OrderInv
  BY InitTyped, InitCredit, InitOrder
<1>2. Typed /\ CreditInv /\ OrderInv /\ [Next]_vars => (Typed /\ CreditInv /\ OrderInv)'
  BY StepTyped, StepCredit, StepOrder
<1> QED
  BY <1>1, <1>2, OrderMeansInOrder, PTL DEF Spec
-----------------------------------------------------------------------------
(* Nothing is skipped.  Every message from the origin on is covered when   *)
(* the handler was called with it or a running delivery still comes to it; *)
(* a delivery that waits for its credit request to be written, and a chunk *)
(* on the wire, promise to cover theirs as long as the connection is up.   *)

Has(h, o) == \E j \in DOMAIN h : h[j] = o
Carries(t, o) == t.phase # "granting" /\ t.chunk = ChunkOf(o) /\ FirstOf(t.chunk) + t.at <= o
Covered(h, ts, o) == Has(h, o) \/ \E i \in DOMAIN ts : Carries(ts[i], o)
Awaits(ts, n, o) ==
  \E j \in DOMAIN ts : j < n /\ ts[j].phase = "granting" /\ ts[j].chunk = ChunkOf(o)
OnWire(w, n, o) == \E l \in DOMAIN w : l < n /\ w[l] = ChunkOf(o)

Settled(p) == \A o \in origin .. p - 1 : Covered(handled, tasks, o)
Promised(p, n) ==
  \A o \in origin .. p - 1 : Covered(handled, tasks, o) \/ Awaits(tasks, n, o)
Reached(p, n) ==
  \A o \in origin .. p - 1 :
    Covered(handled, tasks, o) \/ Awaits(tasks, Len(tasks) + 1, o) \/ OnWire(net, n, o)

TaskCovers(k) ==
  /\ tasks[k].phase = "granting" =>
       /\ tasks[k].at = 0 /\ policy = "received" /\ conn \in {"up", "down"}
       /\ conn = "up" => Promised(FirstOf(tasks[k].chunk), k)
  /\ tasks[k].phase # "granting" => Settled(Current(k))
  /\ tasks[k].phase = "handling" => Has(handled, Current(k))
WireCovers ==
  /\ \A k \in DOMAIN net : Reached(FirstOf(net[k]), k)
  /\ sub.on => Reached(FirstOf(sub.next), Len(net) + 1)
  /\ sub.on \/ DOMAIN net # {} => conn = "up"
Undisturbed ==
  /\ ~closed /\ ~leaving /\ known
  /\ offset.type = "numeric" => offset.value = origin
Gapless ==
  /\ Undisturbed
  /\ Settled(getOffset)
  /\ \A i \in DOMAIN handled : Settled(handled[i] + 1)
  /\ \A k \in DOMAIN tasks : TaskCovers(k)
  /\ WireCovers

(* The messages of a chunk.                                                *)
LEMMA ChunkOfMeans ==
  ASSUME NEW o \in Nat, NEW c \in Nat \ {0}
  PROVE  ChunkOf(o) = c <=> FirstOf(c) <= o /\ o < FirstOf(c) + ChunkSize
<1> DEFINE q == o \div ChunkSize
           b == ChunkOf(o)
<1>0. ChunkSize \in Nat \ {0}
  BY ConsumerAssumption
<1>1. q \in Nat
  <2>1. o < (o + 1) * ChunkSize
    <3>1. PICK k \in Nat : ChunkSize = 1 + k
      <4>1. ChunkSize - 1 \in Nat /\ ChunkSize = 1 + (ChunkSize - 1)
        BY <1>0
      <4> QED
        BY <4>1
    <3>2. (o + 1) * ChunkSize = (o + 1) + (o + 1) * k
      BY <3>1
    <3>3. (o + 1) * k \in Nat
      BY ProductIsNat
    <3> QED
      BY <3>2, <3>3
  <2> QED
    BY <1>0, <2>1, DivBelow
<1>2. ChunkSize * q <= o /\ o < ChunkSize * (q + 1)
  BY <1>0
<1>3. b = q + 1
  BY DEF ChunkOf
<1> HIDE DEF q, b
<1>4. b \in Nat \ {0} /\ FirstOf(b) = ChunkSize * q /\ FirstOf(b) + ChunkSize = ChunkSize * (q + 1)
  <2>1. b \in Nat \ {0} /\ b - 1 = q
    BY <1>1, <1>3
  <2>2. FirstOf(b) = ChunkSize * q
    BY <1>0, <1>1, <2>1 DEF FirstOf
  <2>3. ChunkSize * (q + 1) = ChunkSize * q + ChunkSize
    BY <1>0, <1>1
  <2> QED
    BY <2>1, <2>2, <2>3
<1>5. FirstOf(b) <= o /\ o < FirstOf(b) + ChunkSize
  BY <1>2, <1>4
<1>6. ASSUME FirstOf(c) <= o, o < FirstOf(c) + ChunkSize, b # c PROVE FALSE
  <2>1. /\ FirstOf(b) \in Nat /\ FirstOf(b + 1) = FirstOf(b) + ChunkSize
        /\ FirstOf(c) \in Nat /\ FirstOf(c + 1) = FirstOf(c) + ChunkSize
    BY <1>4, FirstOfType
  <2>2. CASE b < c
    <3>1. b + 1 <= c /\ b + 1 \in Nat \ {0}
      BY <1>4, <2>2
    <3>2. FirstOf(b + 1) <= FirstOf(c)
      BY <3>1, FirstOfMonotone
    <3> QED
      BY <1>0, <1>5, <1>6, <2>1, <3>2
  <2>3. CASE c < b
    <3>1. c + 1 <= b /\ c + 1 \in Nat \ {0}
      BY <1>4, <2>3
    <3>2. FirstOf(c + 1) <= FirstOf(b)
      BY <1>4, <3>1, FirstOfMonotone
    <3> QED
      BY <1>0, <1>5, <1>6, <2>1, <3>2
  <2> QED
    BY <1>4, <1>6, <2>2, <2>3
<1> QED
  BY <1>5, <1>6 DEF b

(* A subscription starts at or before the offset asked for.                *)
LEMMA PositionBelow ==
  ASSUME NEW v \in Nat, tail \in 0 .. NumChunks
  PROVE  FirstOf(Position(v)) <= v
<1>1. tail \in Nat /\ ChunkSize \in Nat \ {0} /\ tail * ChunkSize \in Nat
  BY ConsumerAssumption, ProductIsNat
<1>2. CASE v < tail * ChunkSize
  <2>1. Position(v) = ChunkOf(v)
    BY <1>2 DEF Position
  <2>2. ChunkOf(v) \in Nat \ {0}
    BY <2>1, PositionType, ConsumerAssumption
  <2> QED
    BY <2>1, <2>2, ChunkOfMeans
<1>3. CASE ~(v < tail * ChunkSize)
  <2>1. Position(v) = tail + 1 /\ tail + 1 - 1 = tail
    BY <1>1, <1>3 DEF Position
  <2>2. FirstOf(Position(v)) = tail * ChunkSize
    BY <2>1 DEF FirstOf
  <2> QED
    BY <1>1, <1>3, <2>2
<1> QED
  BY <1>2, <1>3

LEMMA Domains ==
  ASSUME Typed
  PROVE  /\ DOMAIN tasks = 1 .. Len(tasks) /\ Len(tasks) \in Nat /\ origin \in Nat
         /\ DOMAIN net = 1 .. Len(net) /\ Len(net) \in Nat
         /\ \A k \in DOMAIN net : net[k] \in Nat \ {0}
         /\ sub.next \in Nat \ {0}
<1>1. tasks \in Seq(Delivering) /\ net \in Seq(Chunks) /\ origin \in Nat
  BY DEF Typed, TypeOK
<1>2. \A k \in 1 .. Len(net) : net[k] \in Chunks
  BY <1>1, ElementOfSeq
<1>3. sub.next \in 1 .. NumChunks + 1
  BY DEF Typed, TypeOK
<1> QED
  BY <1>1, <1>2, <1>3, LenProperties, ConsumerAssumption DEF Chunks

(* What is covered stays so, and what a delivery promised it covers or     *)
(* still promises: then steps of deliveries disturb neither the others     *)
(* nor the wire.                                                           *)
LEMMA WireStays ==
  ASSUME Typed, Gapless, UNCHANGED <<net, conn, origin>>,
         sub'.next = sub.next, sub'.on = sub.on, Len(tasks') \in Nat,
         \A o \in Nat : o >= origin /\ Covered(handled, tasks, o) => Covered(handled', tasks', o),
         conn = "up" => \A o \in Nat :
           Awaits(tasks, Len(tasks) + 1, o)
             => Awaits(tasks', Len(tasks') + 1, o) \/ Covered(handled', tasks', o)
  PROVE  WireCovers'
<1>1. ASSUME NEW p \in Nat, NEW n, conn = "up", Reached(p, n)
      PROVE  \A o \in origin' .. p - 1 :
               \/ Covered(handled', tasks', o)
               \/ Awaits(tasks', Len(tasks') + 1, o) \/ OnWire(net', n, o)
  BY <1>1, Domains DEF Reached
<1>2. \A k \in DOMAIN net : FirstOf(net[k]) \in Nat
  BY Domains, FirstOfType
<1>3. FirstOf(sub.next) \in Nat
  BY Domains, FirstOfType
<1>4. ASSUME NEW k \in DOMAIN net' PROVE Reached(FirstOf(net[k]), k)'
  <2>1. conn = "up" /\ Reached(FirstOf(net[k]), k) /\ FirstOf(net[k]) \in Nat
    BY <1>2, <1>4 DEF Gapless, WireCovers
  <2>2. FirstOf(net[k])' = FirstOf(net[k])
    BY DEF FirstOf
  <2> QED
    BY <1>1, <2>1, <2>2 DEF Reached
<1>5. ASSUME sub'.on PROVE Reached(FirstOf(sub.next), Len(net) + 1)'
  <2>1. conn = "up" /\ Reached(FirstOf(sub.next), Len(net) + 1)
    BY <1>5 DEF Gapless, WireCovers
  <2>2. FirstOf(sub.next)' = FirstOf(sub.next) /\ (Len(net) + 1)' = Len(net) + 1
    BY DEF FirstOf
  <2> QED
    BY <1>1, <1>3, <2>1, <2>2 DEF Reached
<1> QED
  BY <1>4, <1>5 DEF Gapless, WireCovers

(* A delivery goes on.                                                     *)
LEMMA BecomesGapless ==
  ASSUME Typed, Gapless, NEW i \in DOMAIN tasks, NEW a \in Nat, NEW p \in {"ready", "handling"},
         Becomes(i, a, p),
         UNCHANGED <<net, conn, policy, offset, closed, known, leaving, origin>>, sub' = sub,
         \A o \in Nat : Has(handled, o) => Has(handled', o),
         \A o \in Nat : o >= origin /\ Carries(tasks[i], o)
                          => Has(handled', o) \/ Carries(tasks'[i], o),
         tasks[i].phase = "granting" =>
           a = 0 /\ conn = "up" /\ \A j \in 1 .. i - 1 : tasks[j].phase # "granting",
         Settled(FirstOf(tasks[i].chunk) + a),
         p = "handling" => Has(handled', FirstOf(tasks[i].chunk) + a),
         \A j \in DOMAIN handled' : Settled(handled'[j] + 1),
         Settled(getOffset')
  PROVE  Gapless'
<1> DEFINE s == tasks'
           h == handled'
           c == tasks[i].chunk
<1>1. /\ Len(s) = Len(tasks) /\ DOMAIN s = DOMAIN tasks /\ i \in DOMAIN s
      /\ s[i].chunk = c /\ s[i].at = a /\ s[i].phase = p
      /\ \A j \in DOMAIN tasks : j # i => s[j] = tasks[j]
      /\ DOMAIN tasks = 1 .. Len(tasks) /\ Len(tasks) \in Nat
      /\ c \in Nat \ {0} /\ FirstOf(c) \in Nat /\ FirstOf(c) + a \in Nat /\ origin \in Nat
  <2>1. Len(s) = Len(tasks) /\ s \in Seq(Delivering)
    BY DEF Becomes
  <2>2. c \in Nat \ {0}
    BY TaskFacts, ConsumerAssumption DEF Chunks
  <2>3. FirstOf(c) \in Nat
    BY <2>2, FirstOfType
  <2>4. FirstOf(c) + a \in Nat
    BY <2>3
  <2> QED
    BY <2>1, <2>2, <2>3, <2>4, Domains, LenProperties DEF Becomes
<1> HIDE DEF s, h, c
<1>2. \A o \in Nat : o >= origin /\ Covered(handled, tasks, o) => Covered(h, s, o)
  BY <1>1 DEF Covered, s, h
<1>3. ASSUME NEW o \in Nat, NEW n, Awaits(tasks, n, o) PROVE Awaits(s, n, o) \/ Covered(h, s, o)
  <2>1. PICK j \in DOMAIN tasks : j < n /\ tasks[j].phase = "granting" /\ tasks[j].chunk = ChunkOf(o)
    BY <1>3 DEF Awaits
  <2>2. CASE j = i
    <3>1. FirstOf(c) <= o /\ a = 0 /\ c = ChunkOf(o)
      BY <1>1, <2>1, <2>2, ChunkOfMeans DEF c
    <3>2. FirstOf(c) + a <= o
      BY <1>1, <3>1
    <3>3. Carries(s[i], o)
      BY <1>1, <3>1, <3>2 DEF Carries
    <3> QED
      BY <1>1, <3>3 DEF Covered
  <2>3. CASE j # i
    BY <1>1, <2>1, <2>3 DEF Awaits
  <2> QED
    BY <2>2, <2>3
<1>4. \A q \in Nat : Settled(q) => \A o \in origin' .. q - 1 : Covered(h, s, o)
  BY <1>1, <1>2 DEF Settled
<1>5. ASSUME NEW k \in DOMAIN s PROVE TaskCovers(k)'
  <2>1. Current(k)' = FirstOf(s[k].chunk) + s[k].at
    BY DEF Current, FirstOf, s
  <2>2. CASE k = i
    <3>1. FirstOf(c) + a \in Nat
      BY <1>1
    <3>2. \A o \in origin' .. (FirstOf(c) + a) - 1 : Covered(h, s, o)
      BY <1>4, <3>1 DEF c
    <3>3. Current(k)' = FirstOf(c) + a /\ s[k].phase # "granting"
      BY <1>1, <2>1, <2>2
    <3>4. Settled(Current(k))'
      BY <3>2, <3>3 DEF Settled, s, h
    <3>5. s[k].phase = "handling" => Has(handled, Current(k))'
      BY <1>1, <2>2, <3>3 DEF c
    <3> QED
      BY <3>3, <3>4, <3>5 DEF TaskCovers, s
  <2>3. CASE k # i
    <3>1. s[k] = tasks[k] /\ TaskCovers(k) /\ k \in DOMAIN tasks
      BY <1>1, <2>3 DEF Gapless
    <3>2. /\ Current(k)' = Current(k) /\ Current(k) \in Nat
          /\ FirstOf(tasks[k].chunk) \in Nat /\ FirstOf(tasks[k].chunk)' = FirstOf(s[k].chunk)
      <4>1. tasks[k].chunk \in Nat \ {0} /\ Current(k) \in Nat
        BY <3>1, TaskFacts, ConsumerAssumption DEF Chunks
      <4> QED
        BY <2>1, <3>1, <4>1, FirstOfType DEF Current, FirstOf, s
    <3>3. ASSUME s[k].phase # "granting" PROVE Settled(Current(k))'
      <4>1. Settled(Current(k))
        BY <3>1, <3>3 DEF TaskCovers
      <4>2. \A o \in origin' .. Current(k) - 1 : Covered(h, s, o)
        BY <1>4, <3>2, <4>1
      <4> QED
        BY <3>2, <4>2 DEF Settled, s, h
    <3>4. ASSUME s[k].phase = "handling" PROVE Has(handled, Current(k))'
      <4>1. Has(handled, Current(k))
        BY <3>1, <3>4 DEF TaskCovers
      <4> QED
        BY <3>2, <4>1 DEF h
    <3>5. ASSUME s[k].phase = "granting", conn' = "up"
          PROVE  Promised(FirstOf(tasks[k].chunk), k)'
      <4>1. Promised(FirstOf(tasks[k].chunk), k)
        BY <3>1, <3>5 DEF TaskCovers
      <4>2. \A o \in origin .. FirstOf(tasks[k].chunk) - 1 : Covered(h, s, o) \/ Awaits(s, k, o)
        BY <1>1, <1>2, <1>3, <3>2, <4>1 DEF Promised
      <4> QED
        BY <3>1, <3>2, <4>2 DEF Promised, s, h
    <3> QED
      BY <3>1, <3>3, <3>4, <3>5 DEF TaskCovers, s
  <2> QED
    BY <2>2, <2>3
<1>6. WireCovers'
  BY <1>1, <1>2, <1>3, WireStays DEF s, h
<1>7. Settled(getOffset)'
  <2>1. getOffset' = getOffset' /\ Settled(getOffset')
    OBVIOUS
  <2> QED
    BY <1>1, <1>2, <2>1 DEF Settled, s, h
<1>8. \A j \in DOMAIN handled' : Settled(handled[j] + 1)'
  BY <1>1, <1>2 DEF Settled, s, h
<1> QED
  BY <1>5, <1>6, <1>7, <1>8 DEF Gapless, Undisturbed, s

(* Where the deliveries are when one has ended.                            *)
LEMMA RemovedPlaces ==
  ASSUME Typed, NEW i \in DOMAIN tasks, tasks' = without(tasks, i)
  PROVE  /\ Len(tasks') = Len(tasks) - 1 /\ DOMAIN tasks' = 1 .. Len(tasks) - 1
         /\ \A k \in DOMAIN tasks' :
              \/ k < i /\ k \in DOMAIN tasks /\ tasks'[k] = tasks[k]
              \/ k >= i /\ k + 1 \in DOMAIN tasks /\ tasks'[k] = tasks[k + 1]
         /\ \A k \in DOMAIN tasks :
              /\ k < i => k \in DOMAIN tasks' /\ tasks'[k] = tasks[k]
              /\ k > i => k - 1 \in DOMAIN tasks' /\ tasks'[k - 1] = tasks[k]
<1> DEFINE front == SubSeq(tasks, 1, i - 1)
           rest  == SubSeq(tasks, i + 1, Len(tasks))
           n == Len(tasks)
           s == tasks'
<1>1. /\ i \in 1 .. n /\ n \in Nat /\ DOMAIN tasks = 1 .. n
      /\ \A j \in 1 .. n : tasks[j] \in Delivering
  BY Domains, TaskFacts
<1>2. /\ front \in Seq(Delivering) /\ Len(front) = i - 1
      /\ \A k \in 1 .. i - 1 : front[k] = tasks[k]
  BY <1>1, SubSeqProperties
<1>3. /\ rest \in Seq(Delivering) /\ Len(rest) = n - i
      /\ \A k \in 1 .. n - i : rest[k] = tasks[i + k]
  BY <1>1, SubSeqProperties
<1>4. s = front \o rest
  BY DEF without
<1> HIDE DEF front, rest, n, s
<1>5. /\ s \in Seq(Delivering) /\ Len(s) = n - 1
      /\ \A k \in 1 .. n - 1 : s[k] = IF k <= i - 1 THEN front[k] ELSE rest[k - (i - 1)]
  <2>1. /\ s \in Seq(Delivering) /\ Len(s) = Len(front) + Len(rest)
        /\ \A k \in 1 .. Len(front) + Len(rest) :
             s[k] = IF k <= Len(front) THEN front[k] ELSE rest[k - Len(front)]
    BY <1>2, <1>3, <1>4, ConcatProperties
  <2> QED
    BY <2>1, <1>1, <1>2, <1>3
<1>6. DOMAIN s = 1 .. n - 1
  BY <1>5, LenProperties
<1>7. ASSUME NEW k \in 1 .. n - 1
      PROVE  s[k] = IF k < i THEN tasks[k] ELSE tasks[k + 1]
  <2>1. CASE k < i
    BY <2>1, <1>1, <1>2, <1>5
  <2>2. CASE ~(k < i)
    <3>1. k - (i - 1) \in 1 .. n - i /\ i + (k - (i - 1)) = k + 1 /\ ~(k <= i - 1)
      BY <2>2, <1>1
    <3>2. s[k] = rest[k - (i - 1)]
      BY <3>1, <1>5
    <3>3. rest[k - (i - 1)] = tasks[i + (k - (i - 1))]
      BY <3>1, <1>3
    <3> QED
      BY <2>2, <3>1, <3>2, <3>3
  <2> QED
    BY <2>1, <2>2
<1>8. ASSUME NEW k \in DOMAIN s
      PROVE  \/ k < i /\ k \in DOMAIN tasks /\ s[k] = tasks[k]
             \/ k >= i /\ k + 1 \in DOMAIN tasks /\ s[k] = tasks[k + 1]
  BY <1>1, <1>6, <1>7
<1>9. ASSUME NEW k \in DOMAIN tasks
      PROVE  /\ k < i => k \in DOMAIN s /\ s[k] = tasks[k]
             /\ k > i => k - 1 \in DOMAIN s /\ s[k - 1] = tasks[k]
  <2>1. ASSUME k > i PROVE k - 1 \in 1 .. n - 1 /\ ~(k - 1 < i) /\ k - 1 + 1 = k
    BY <1>1, <2>1
  <2> QED
    BY <1>1, <1>6, <1>7, <2>1
<1> QED
  BY <1>5, <1>6, <1>8, <1>9 DEF s, n

(* A delivery ends: one that has come to the end of its chunk, or one that *)
(* waited for the write to a connection that is down.                      *)
LEMMA EndGapless ==
  ASSUME Typed, Gapless, NEW i \in DOMAIN tasks, tasks' = without(tasks, i),
         UNCHANGED <<net, conn, policy, offset, local, closed, known, leaving, origin, handled>>,
         sub'.next = sub.next, sub'.on = sub.on,
         \/ tasks[i].phase = "granting" /\ conn = "down"
         \/ tasks[i].phase = "ready" /\ tasks[i].at = ChunkSize
  PROVE  Gapless'
<1> DEFINE s == tasks'
<1>1. /\ Len(s) = Len(tasks) - 1 /\ DOMAIN s = 1 .. Len(tasks) - 1
      /\ \A k \in DOMAIN s :
           \/ k < i /\ k \in DOMAIN tasks /\ s[k] = tasks[k]
           \/ k >= i /\ k + 1 \in DOMAIN tasks /\ s[k] = tasks[k + 1]
      /\ \A k \in DOMAIN tasks :
           /\ k < i => k \in DOMAIN s /\ s[k] = tasks[k]
           /\ k > i => k - 1 \in DOMAIN s /\ s[k - 1] = tasks[k]
  BY RemovedPlaces
<1>2. /\ DOMAIN tasks = 1 .. Len(tasks) /\ Len(tasks) \in Nat /\ i \in 1 .. Len(tasks)
      /\ origin \in Nat
  BY Domains
<1> HIDE DEF s
<1>3. \A o \in Nat : ~Carries(tasks[i], o)
  <2> SUFFICES ASSUME NEW o \in Nat, Carries(tasks[i], o) PROVE FALSE
    OBVIOUS
  <2>1. tasks[i].chunk \in Nat \ {0} /\ tasks[i].chunk = ChunkOf(o)
    BY TaskFacts, ConsumerAssumption DEF Chunks, Carries
  <2>2. o < FirstOf(tasks[i].chunk) + ChunkSize /\ FirstOf(tasks[i].chunk) \in Nat
    BY <2>1, ChunkOfMeans, FirstOfType
  <2>3. FirstOf(tasks[i].chunk) + ChunkSize <= o
    BY DEF Carries
  <2> QED
    BY <2>2, <2>3, ConsumerAssumption
<1>4. ASSUME NEW k \in DOMAIN tasks, k # i
      PROVE  \E m \in DOMAIN s : s[m] = tasks[k] /\ (m = k \/ m = k - 1)
  <2>1. k < i \/ k > i
    BY <1>2, <1>4
  <2> QED
    BY <1>1, <2>1
<1>5. \A o \in Nat : Covered(handled, tasks, o) => Covered(handled, s, o)
  BY <1>3, <1>4 DEF Covered
<1>6. conn = "up" => tasks[i].phase # "granting"
  OBVIOUS
<1>7. conn = "up" => \A o \in Nat :
        Awaits(tasks, Len(tasks) + 1, o) => Awaits(s, Len(s) + 1, o)
  <2> SUFFICES ASSUME conn = "up", NEW o \in Nat, NEW j \in DOMAIN tasks,
                      tasks[j].phase = "granting", tasks[j].chunk = ChunkOf(o)
               PROVE  Awaits(s, Len(s) + 1, o)
    BY DEF Awaits
  <2>1. PICK m \in DOMAIN s : s[m] = tasks[j]
    BY <1>4, <1>6
  <2>2. m < Len(s) + 1
    BY <1>1, <1>2
  <2> QED
    BY <2>1, <2>2 DEF Awaits
<1>8. WireCovers'
  <2>1. Len(s) \in Nat
    BY <1>1, <1>2
  <2> QED
    BY <1>5, <1>7, <2>1, WireStays DEF s
<1>9. \A q \in Nat : Settled(q) => \A o \in origin' .. q - 1 : Covered(handled', s, o)
  BY <1>2, <1>5 DEF Settled
<1>10. Settled(getOffset)'
  <2>1. getOffset \in Nat /\ getOffset' = getOffset
    BY DEF getOffset, Typed, TypeOK
  <2> QED
    BY <1>9, <2>1 DEF Gapless, Settled, s
<1>11. \A j \in DOMAIN handled' : Settled(handled[j] + 1)'
  <2>1. \A j \in DOMAIN handled : handled[j] + 1 \in Nat
    BY HandledFacts
  <2> QED
    BY <1>9, <2>1 DEF Gapless, Settled, s
<1>12. ASSUME NEW k \in DOMAIN s PROVE TaskCovers(k)'
  <2>1. PICK m \in DOMAIN tasks : s[k] = tasks[m] /\ ((k < i /\ m = k) \/ (k >= i /\ m = k + 1))
    BY <1>1, <1>12
  <2>2. /\ TaskCovers(m) /\ Current(m) \in Nat /\ FirstOf(tasks[m].chunk) \in Nat
        /\ Current(k)' = Current(m) /\ FirstOf(tasks[k].chunk)' = FirstOf(tasks[m].chunk)
    <3>1. tasks[m].chunk \in Nat \ {0} /\ Current(m) \in Nat
      BY TaskFacts, ConsumerAssumption DEF Chunks
    <3> QED
      BY <2>1, <3>1, FirstOfType DEF Gapless, Current, FirstOf, s
  <2>3. ASSUME s[k].phase # "granting" PROVE Settled(Current(k))'
    <3>1. \A o \in origin' .. Current(m) - 1 : Covered(handled', s, o)
      BY <1>9, <2>1, <2>2, <2>3 DEF TaskCovers
    <3> QED
      BY <2>2, <3>1 DEF Settled, s
  <2>4. ASSUME s[k].phase = "granting", conn' = "up"
        PROVE  Promised(FirstOf(tasks[k].chunk), k)'
    <3>1. Promised(FirstOf(tasks[m].chunk), m)
      BY <2>1, <2>2, <2>4 DEF TaskCovers
    <3>2. ASSUME NEW o \in Nat, Awaits(tasks, m, o) PROVE Awaits(s, k, o)
      <4>1. PICK j \in DOMAIN tasks :
              j < m /\ tasks[j].phase = "granting" /\ tasks[j].chunk = ChunkOf(o)
        BY <3>2 DEF Awaits
      <4>2. j # i
        BY <1>6, <2>4, <4>1
      <4>3. CASE j < i
        <5>1. j \in DOMAIN s /\ s[j] = tasks[j] /\ j < k
          BY <1>1, <1>2, <2>1, <4>1, <4>3
        <5> QED
          BY <4>1, <5>1 DEF Awaits
      <4>4. CASE j > i
        <5>1. j - 1 \in DOMAIN s /\ s[j - 1] = tasks[j] /\ j - 1 < k
          BY <1>1, <1>2, <2>1, <4>1, <4>4
        <5> QED
          BY <4>1, <5>1 DEF Awaits
      <4> QED
        BY <1>2, <4>2, <4>3, <4>4
    <3>3. \A o \in origin .. FirstOf(tasks[m].chunk) - 1 : Covered(handled, s, o) \/ Awaits(s, k, o)
      BY <1>2, <1>5, <2>2, <3>1, <3>2 DEF Promised
    <3> QED
      BY <2>2, <3>3 DEF Promised, s
  <2>5. s[k].phase = "handling" => Has(handled, Current(k))'
    BY <2>1, <2>2 DEF TaskCovers
  <2>6. s[k].phase = "granting" => s[k].at = 0 /\ policy' = "received" /\ conn' \in {"up", "down"}
    BY <2>1, <2>2 DEF TaskCovers
  <2> QED
    BY <2>3, <2>4, <2>5, <2>6 DEF TaskCovers, s
<1> QED
  BY <1>8, <1>10, <1>11, <1>12 DEF Gapless, Undisturbed, s

(* A chunk leaves the wire, and its delivery takes over its promise.       *)
LEMMA ArrivalGapless ==
  ASSUME Typed, Gapless, ChunkArrives
  PROVE  Gapless'
<1> DEFINE c == Head(net)
           n == Len(tasks)
<1>0. UNCHANGED <<conn, policy, offset, local, closed, known, leaving, origin, handled>>
  BY DEF ChunkArrives, consumer, history
<1>1. /\ net # <<>> /\ net' = Tail(net) /\ sub'.next = sub.next /\ sub'.on = sub.on
      /\ c = net[1] /\ 1 \in DOMAIN net /\ c \in Nat \ {0} /\ c \in Chunks
  <2>1. net # <<>> /\ net' = Tail(net) /\ sub'.next = sub.next /\ sub'.on = sub.on
    BY ArrivalEffect
  <2>2. c \in Chunks /\ c = net[1] /\ Len(net) \in Nat \ {0}
    BY <2>1, FrameFacts DEF Typed
  <2> QED
    BY <2>1, <2>2, Domains, ConsumerAssumption DEF Chunks
<1>2. conn = "up"
  BY <1>1 DEF Gapless, WireCovers
<1>3. PICK p \in {"granting", "ready"} :
        /\ tasks' = Append(tasks, [chunk |-> c, at |-> 0, phase |-> p])
        /\ p = "granting" <=> policy = "received"
  BY DEF ChunkArrives, Gapless, Undisturbed
<1> DEFINE t == [chunk |-> c, at |-> 0, phase |-> p]
           s == tasks'
<1>4. t \in Delivering /\ t.chunk = c /\ t.at = 0 /\ t.phase = p
  BY <1>1, NewTask
<1> HIDE DEF t
<1>5. /\ s \in Seq(Delivering) /\ Len(s) = n + 1 /\ n \in Nat /\ DOMAIN tasks = 1 .. n
      /\ \A j \in 1 .. n : s[j] = tasks[j]
      /\ s[n + 1] = t
  BY <1>3, <1>4, Added, Domains DEF t
<1>6. DOMAIN s = 1 .. n + 1 /\ origin \in Nat
  BY <1>5, LenProperties, Domains
<1>7. /\ \A k \in 1 .. Len(net') : k \in Nat /\ k + 1 \in DOMAIN net /\ net'[k] = net[k + 1]
      /\ DOMAIN net' = 1 .. Len(net') /\ Len(net') = Len(net) - 1
      /\ Len(net) \in Nat /\ DOMAIN net = 1 .. Len(net)
  <2>1. /\ Tail(net) \in Seq(Chunks) /\ Len(Tail(net)) = Len(net) - 1 /\ Len(net) \in Nat \ {0}
        /\ \A k \in 1 .. Len(Tail(net)) : Tail(net)[k] = net[k + 1]
    BY <1>1, FrameFacts DEF Typed
  <2>2. DOMAIN Tail(net) = 1 .. Len(Tail(net)) /\ DOMAIN net = 1 .. Len(net)
    BY <2>1, LenProperties, Domains
  <2> QED
    BY <1>1, <2>1, <2>2
<1> HIDE DEF c, n, s
<1>8. FirstOf(c) \in Nat
  BY <1>1, FirstOfType
<1>9. \A o \in Nat : Covered(handled, tasks, o) => Covered(handled, s, o)
  <2>1. \A i \in DOMAIN tasks : i \in DOMAIN s /\ s[i] = tasks[i]
    BY <1>5, <1>6
  <2> QED
    BY <2>1 DEF Covered
<1>10. \A o, m : Awaits(tasks, m, o) => Awaits(s, m, o)
  <2>1. \A i \in DOMAIN tasks : i \in DOMAIN s /\ s[i] = tasks[i]
    BY <1>5, <1>6
  <2> QED
    BY <2>1 DEF Awaits
<1>11. \A o : Awaits(tasks, n + 1, o) => Awaits(s, n + 2, o)
  <2>1. \A i \in DOMAIN tasks : i \in DOMAIN s /\ s[i] = tasks[i] /\ i < n + 2
    BY <1>5, <1>6
  <2> QED
    BY <2>1 DEF Awaits
<1>12. ASSUME NEW o \in Nat, ChunkOf(o) = c
       PROVE  Covered(handled, s, o) \/ Awaits(s, n + 2, o)
  <2>0. n + 1 \in DOMAIN s /\ n + 1 < n + 2
    BY <1>5, <1>6
  <2>1. CASE p = "granting"
    BY <1>4, <1>5, <1>12, <2>0, <2>1 DEF Awaits
  <2>2. CASE p = "ready"
    <3>1. FirstOf(c) + 0 <= o
      BY <1>1, <1>8, <1>12, ChunkOfMeans
    <3>2. Carries(s[n + 1], o)
      BY <1>4, <1>5, <1>12, <2>2, <3>1 DEF Carries
    <3> QED
      BY <2>0, <3>2 DEF Covered
  <2> QED
    BY <2>1, <2>2
<1>13. ASSUME NEW q \in Nat, NEW k \in Nat, Reached(q, k + 1)
       PROVE  \A o \in origin .. q - 1 :
                Covered(handled, s, o) \/ Awaits(s, n + 2, o) \/ OnWire(net', k, o)
  <2> SUFFICES ASSUME NEW o \in origin .. q - 1
               PROVE  Covered(handled, s, o) \/ Awaits(s, n + 2, o) \/ OnWire(net', k, o)
    OBVIOUS
  <2>0. o \in Nat
    BY <1>6
  <2>1. CASE Covered(handled, tasks, o)
    BY <1>9, <2>0, <2>1
  <2>2. CASE Awaits(tasks, n + 1, o)
    BY <1>11, <2>2
  <2>3. CASE OnWire(net, k + 1, o)
    <3>1. PICK l \in DOMAIN net : l < k + 1 /\ net[l] = ChunkOf(o)
      BY <2>3 DEF OnWire
    <3>2. CASE l = 1
      BY <1>1, <1>12, <2>0, <3>1, <3>2
    <3>3. CASE l # 1
      <4>1. l - 1 \in 1 .. Len(net') /\ l - 1 < k /\ l - 1 + 1 = l
        BY <1>7, <3>1, <3>3
      <4>2. l - 1 \in DOMAIN net' /\ net'[l - 1] = ChunkOf(o)
        BY <1>7, <3>1, <4>1
      <4> QED
        BY <4>1, <4>2 DEF OnWire
    <3> QED
      BY <3>2, <3>3
  <2> QED
    BY <1>13, <2>1, <2>2, <2>3 DEF Reached, n
<1>14. WireCovers'
  <2>0. Len(s) + 1 = n + 2
    BY <1>5
  <2>1. ASSUME NEW k \in DOMAIN net' PROVE Reached(FirstOf(net[k]), k)'
    <3>1. k \in Nat /\ k + 1 \in DOMAIN net /\ net'[k] = net[k + 1]
      BY <1>7
    <3>2. Reached(FirstOf(net[k + 1]), k + 1) /\ FirstOf(net[k + 1]) \in Nat
      BY <3>1, Domains, FirstOfType DEF Gapless, WireCovers
    <3>3. FirstOf(net[k])' = FirstOf(net[k + 1])
      BY <3>1 DEF FirstOf
    <3>4. \A o \in origin .. FirstOf(net[k + 1]) - 1 :
            Covered(handled, s, o) \/ Awaits(s, n + 2, o) \/ OnWire(net', k, o)
      BY <1>13, <3>1, <3>2
    <3> QED
      BY <1>0, <2>0, <3>3, <3>4 DEF Reached, s
  <2>2. ASSUME sub'.on PROVE Reached(FirstOf(sub.next), Len(net) + 1)'
    <3>1. Reached(FirstOf(sub.next), Len(net) + 1) /\ FirstOf(sub.next) \in Nat
      BY <1>1, <2>2, Domains, FirstOfType DEF Gapless, WireCovers
    <3>2. (Len(net) + 1)' = Len(net) /\ FirstOf(sub.next)' = FirstOf(sub.next)
      BY <1>1, <1>7 DEF FirstOf
    <3>3. \A o \in origin .. FirstOf(sub.next) - 1 :
            Covered(handled, s, o) \/ Awaits(s, n + 2, o) \/ OnWire(net', Len(net), o)
      BY <1>7, <1>13, <3>1
    <3> QED
      BY <1>0, <2>0, <3>2, <3>3 DEF Reached, s
  <2> QED
    BY <1>0, <1>2, <2>1, <2>2 DEF WireCovers
<1>15. \A q \in Nat : Settled(q) => \A o \in origin' .. q - 1 : Covered(handled', s, o)
  BY <1>0, <1>6, <1>9 DEF Settled
<1>16. Settled(getOffset)'
  <2>1. getOffset \in Nat /\ getOffset' = getOffset
    BY <1>0 DEF getOffset, Typed, TypeOK
  <2> QED
    BY <1>15, <2>1 DEF Gapless, Settled, s
<1>17. \A j \in DOMAIN handled' : Settled(handled[j] + 1)'
  <2>1. \A j \in DOMAIN handled : handled[j] + 1 \in Nat
    BY HandledFacts
  <2> QED
    BY <1>0, <1>15, <2>1 DEF Gapless, Settled, s
<1>18. Promised(FirstOf(c), n + 1)
  <2>1. Reached(FirstOf(c), 1)
    BY <1>1 DEF Gapless, WireCovers
  <2>2. \A o : ~OnWire(net, 1, o)
    BY <1>7 DEF OnWire
  <2> QED
    BY <2>1, <2>2 DEF Reached, Promised, n
<1>19. ASSUME NEW k \in DOMAIN s PROVE TaskCovers(k)'
  <2>1. CASE k \in DOMAIN tasks
    <3>1. s[k] = tasks[k] /\ TaskCovers(k) /\ Current(k) \in Nat /\ FirstOf(tasks[k].chunk) \in Nat
      <4>1. tasks[k].chunk \in Nat \ {0} /\ Current(k) \in Nat
        BY <2>1, TaskFacts, ConsumerAssumption DEF Chunks
      <4> QED
        BY <1>5, <2>1, <4>1, FirstOfType DEF Gapless
    <3>2. Current(k)' = Current(k) /\ FirstOf(tasks[k].chunk)' = FirstOf(tasks[k].chunk)
      BY <3>1 DEF Current, FirstOf, s
    <3>3. ASSUME s[k].phase # "granting" PROVE Settled(Current(k))'
      <4>1. \A o \in origin' .. Current(k) - 1 : Covered(handled', s, o)
        BY <1>15, <3>1, <3>3 DEF TaskCovers
      <4> QED
        BY <3>2, <4>1 DEF Settled, s
    <3>4. ASSUME s[k].phase = "granting" PROVE Promised(FirstOf(tasks[k].chunk), k)'
      <4>1. Promised(FirstOf(tasks[k].chunk), k)
        BY <1>2, <3>1, <3>4 DEF TaskCovers
      <4>2. \A o \in origin .. FirstOf(tasks[k].chunk) - 1 :
              Covered(handled, s, o) \/ Awaits(s, k, o)
        BY <1>6, <1>9, <1>10, <3>1, <4>1 DEF Promised
      <4> QED
        BY <1>0, <3>2, <4>2 DEF Promised, s
    <3> QED
      BY <1>0, <3>1, <3>2, <3>3, <3>4 DEF TaskCovers, s
  <2>2. CASE k = n + 1
    <3>1. s[k].chunk = c /\ s[k].at = 0 /\ s[k].phase = p
      BY <1>4, <1>5, <2>2
    <3>2. /\ Current(k)' = FirstOf(c) /\ FirstOf(tasks[k].chunk)' = FirstOf(c)
      BY <1>8, <3>1 DEF Current, FirstOf, s
    <3>3. CASE p = "granting"
      <4>1. \A o \in origin .. FirstOf(c) - 1 : Covered(handled, s, o) \/ Awaits(s, k, o)
        BY <1>6, <1>8, <1>9, <1>10, <1>18, <2>2 DEF Promised
      <4>2. Promised(FirstOf(tasks[k].chunk), k)'
        BY <1>0, <3>2, <4>1 DEF Promised, s
      <4> QED
        BY <1>0, <1>2, <1>3, <3>1, <3>3, <4>2 DEF TaskCovers, s
    <3>4. CASE p = "ready"
      <4>1. \A o : ~Awaits(tasks, n + 1, o)
        BY <1>3, <3>4 DEF Awaits, Gapless, TaskCovers
      <4>2. Settled(FirstOf(c))
        BY <1>18, <4>1 DEF Promised, Settled
      <4>3. \A o \in origin' .. FirstOf(c) - 1 : Covered(handled', s, o)
        BY <1>8, <1>15, <4>2
      <4>4. Settled(Current(k))'
        BY <3>2, <4>3 DEF Settled, s
      <4> QED
        BY <3>1, <3>4, <4>4 DEF TaskCovers, s
    <3> QED
      BY <3>3, <3>4
  <2> QED
    BY <1>5, <1>6, <2>1, <2>2
<1> QED
  BY <1>0, <1>14, <1>16, <1>17, <1>19 DEF Gapless, Undisturbed, s

(* Steps of the broker and the connection leave the deliveries alone.      *)
LEMMA QuietGapless ==
  ASSUME Typed, Gapless,
         UNCHANGED <<tasks, policy, offset, local, closed, known, leaving, handled, origin>>,
         \A k \in DOMAIN tasks : tasks[k].phase = "granting" =>
           conn' \in {"up", "down"} /\ (conn' = "up" => conn = "up"),
         WireCovers'
  PROVE  Gapless'
<1>1. Undisturbed' /\ Settled(getOffset)'
  BY DEF Gapless, Undisturbed, Settled, getOffset
<1>2. \A i \in DOMAIN handled' : Settled(handled[i] + 1)'
  BY DEF Gapless, Settled
<1>3. ASSUME NEW k \in DOMAIN tasks PROVE TaskCovers(k)'
  <2>1. TaskCovers(k) /\ Current(k)' = Current(k)
        /\ FirstOf(tasks[k].chunk)' = FirstOf(tasks[k].chunk)
    BY DEF Gapless, Current, FirstOf
  <2>2. Settled(Current(k)) => Settled(Current(k))'
    BY <2>1 DEF Settled
  <2>3. Promised(FirstOf(tasks[k].chunk), k) => Promised(FirstOf(tasks[k].chunk), k)'
    BY <2>1 DEF Promised
  <2>4. Has(handled, Current(k)) => Has(handled, Current(k))'
    BY <2>1 DEF Has
  <2> QED
    BY <2>1, <2>2, <2>3, <2>4 DEF TaskCovers
<1> QED
  BY <1>1, <1>2, <1>3 DEF Gapless

LEMMA DeliverGapless ==
  ASSUME Typed, Gapless, Deliver
  PROVE  Gapless'
<1> DEFINE c == sub.next
           n == Len(net)
<1>1. UNCHANGED <<conn, tasks, policy, offset, local, closed, known, leaving, handled, origin>>
  BY DEF Deliver, consumer, history
<1>2. sub.on /\ conn = "up" /\ sub'.on = sub.on
  BY DEF Deliver, Gapless, WireCovers, Typed, TypeOK
<1>3. /\ c \in Nat \ {0} /\ sub'.next = c + 1 /\ net' = Append(net, c) /\ net' \in Seq(Chunks)
      /\ net \in Seq(Chunks)
      /\ n \in Nat /\ DOMAIN net = 1 .. n /\ c \in Chunks
  BY DeliverEffect, Domains DEF Typed, TypeOK
<1>4. /\ Len(net') = n + 1 /\ DOMAIN net' = 1 .. n + 1 /\ net'[n + 1] = c
      /\ \A k \in 1 .. n : net'[k] = net[k]
  <2>1. /\ Len(Append(net, c)) = n + 1 /\ Append(net, c)[n + 1] = c
        /\ \A k \in 1 .. n : Append(net, c)[k] = net[k]
    BY <1>3, AppendProperties
  <2>2. DOMAIN net' = 1 .. Len(net')
    BY <1>3, LenProperties
  <2> QED
    BY <1>3, <2>1, <2>2
<1> HIDE DEF c, n
<1>5. \A o, k : OnWire(net, k, o) => OnWire(net', k, o)
  <2>1. \A l \in DOMAIN net : l \in DOMAIN net' /\ net'[l] = net[l]
    BY <1>3, <1>4
  <2> QED
    BY <2>1 DEF OnWire
<1>6. \A p, k : Reached(p, k) =>
        \A o \in origin .. p - 1 :
          Covered(handled, tasks, o) \/ Awaits(tasks, Len(tasks) + 1, o) \/ OnWire(net', k, o)
  BY <1>5 DEF Reached
<1>7. Reached(FirstOf(c), n + 1)
  BY <1>2 DEF Gapless, WireCovers, c, n
<1>8. ASSUME NEW k \in DOMAIN net' PROVE Reached(FirstOf(net[k]), k)'
  <2>1. Reached(FirstOf(net'[k]), k)
    <3>1. CASE k \in 1 .. n
      BY <1>3, <1>4, <3>1 DEF Gapless, WireCovers
    <3>2. CASE k = n + 1
      BY <1>4, <1>7, <3>2
    <3> QED
      BY <1>3, <1>4, <1>8, <3>1, <3>2
  <2>2. FirstOf(net[k])' = FirstOf(net'[k])
    BY DEF FirstOf
  <2> QED
    BY <1>1, <1>6, <2>1, <2>2 DEF Reached
<1>9. Reached(FirstOf(sub.next), Len(net) + 1)'
  <2>1. FirstOf(sub.next)' = FirstOf(c + 1) /\ (Len(net) + 1)' = n + 2
    BY <1>3, <1>4 DEF FirstOf
  <2>2. FirstOf(c) \in Nat /\ FirstOf(c + 1) = FirstOf(c) + ChunkSize
    BY <1>3, FirstOfType
  <2>3. ASSUME NEW o \in origin .. FirstOf(c + 1) - 1
        PROVE  \/ Covered(handled, tasks, o) \/ Awaits(tasks, Len(tasks) + 1, o)
               \/ OnWire(net', n + 2, o)
    <3>0. origin \in Nat /\ o \in Nat
      BY Domains
    <3>1. CASE o < FirstOf(c)
      <4>1. o \in origin .. FirstOf(c) - 1
        BY <2>2, <3>0, <3>1
      <4>2. OnWire(net', n + 1, o) => OnWire(net', n + 2, o)
        BY <1>3, <1>4 DEF OnWire
      <4> QED
        BY <1>6, <1>7, <4>1, <4>2
    <3>2. CASE ~(o < FirstOf(c))
      <4>1. ChunkOf(o) = c
        <5>1. FirstOf(c) <= o /\ o < FirstOf(c) + ChunkSize
          BY <2>2, <3>0, <3>2, ConsumerAssumption
        <5> QED
          BY <1>3, <3>0, <5>1, ChunkOfMeans
      <4>2. n + 1 \in DOMAIN net' /\ n + 1 < n + 2
        BY <1>3, <1>4
      <4> QED
        BY <1>4, <4>1, <4>2 DEF OnWire
    <3> QED
      BY <3>1, <3>2
  <2> QED
    BY <1>1, <2>1, <2>3 DEF Reached
<1>10. WireCovers'
  BY <1>1, <1>2, <1>8, <1>9 DEF WireCovers
<1>11. \A k \in DOMAIN tasks : tasks[k].phase = "granting" => conn' \in {"up", "down"}
  BY <1>1, <1>2
<1> QED
  BY <1>1, <1>10, <1>11, QuietGapless

(* The connection ends: what is on the wire is lost with the subscription. *)
LEMMA EndsGapless ==
  ASSUME Typed, Gapless, SubscriptionEnds,
         UNCHANGED <<tasks, policy, offset, local, closed, known, leaving, handled, origin>>,
         conn' = "down" \/ (conn' = "opening" /\ \A k \in DOMAIN tasks : tasks[k].phase # "granting")
  PROVE  Gapless'
<1>1. ~sub'.on /\ DOMAIN net' = {}
  BY DEF SubscriptionEnds, Typed, TypeOK
<1>2. WireCovers'
  BY <1>1 DEF WireCovers
<1> QED
  BY <1>2, QuietGapless

(* The restarted subscription begins at or before the local offset, before *)
(* which all is covered.                                                   *)
LEMMA ResubscribeGapless ==
  ASSUME Typed, Gapless, Resubscribe
  PROVE  Gapless'
<1>1. UNCHANGED <<net, tasks, policy, offset, local, closed, known, leaving, handled, origin>>
      /\ conn = "handshake" /\ conn' = "up" /\ sub'.next = Position(getOffset)
  BY DEF Resubscribe, consumer, history
<1>2. DOMAIN net = {}
  BY <1>1 DEF Gapless, WireCovers
<1>3. \A k \in DOMAIN tasks : tasks[k].phase # "granting"
  BY <1>1 DEF Gapless, TaskCovers
<1>4. FirstOf(Position(getOffset)) <= getOffset /\ getOffset \in Nat
      /\ FirstOf(Position(getOffset)) \in Nat
  <2>1. getOffset \in Nat /\ tail \in 0 .. NumChunks
    BY DEF getOffset, Typed, TypeOK
  <2>2. Position(getOffset) \in Nat \ {0}
    BY <2>1, PositionType, ConsumerAssumption
  <2> QED
    BY <2>1, <2>2, PositionBelow, FirstOfType
<1>5. Reached(FirstOf(sub.next), Len(net) + 1)'
  <2>1. FirstOf(sub.next)' = FirstOf(Position(getOffset))
    BY <1>1 DEF FirstOf
  <2>2. \A o \in origin .. FirstOf(Position(getOffset)) - 1 : Covered(handled, tasks, o)
    BY <1>4, Domains DEF Gapless, Settled
  <2> QED
    BY <1>1, <2>1, <2>2 DEF Reached
<1>6. WireCovers'
  BY <1>1, <1>2, <1>5 DEF WireCovers
<1> QED
  BY <1>1, <1>3, <1>6, QuietGapless

(* What a delivery comes to next.                                          *)
LEMMA PlaceFacts ==
  ASSUME Typed, NEW i \in DOMAIN tasks
  PROVE  /\ tasks[i].chunk \in Nat \ {0} /\ tasks[i].at \in Nat /\ tasks[i].at + 1 \in Nat
         /\ FirstOf(tasks[i].chunk) \in Nat /\ Current(i) \in Nat /\ origin \in Nat
         /\ Current(i) = FirstOf(tasks[i].chunk) + tasks[i].at
         /\ Current(i) + 1 = FirstOf(tasks[i].chunk) + (tasks[i].at + 1)
         /\ tasks[i].at < ChunkSize => ChunkOf(Current(i)) = tasks[i].chunk
<1>1. /\ tasks[i].chunk \in Nat \ {0} /\ tasks[i].at \in Nat /\ Current(i) \in Nat
  BY TaskFacts, ConsumerAssumption DEF Chunks
<1>2. FirstOf(tasks[i].chunk) \in Nat
  BY <1>1, FirstOfType
<1>3. Current(i) = FirstOf(tasks[i].chunk) + tasks[i].at
  BY DEF Current
<1>4. Current(i) + 1 = FirstOf(tasks[i].chunk) + (tasks[i].at + 1)
  BY <1>1, <1>2, <1>3
<1>5. ASSUME tasks[i].at < ChunkSize PROVE ChunkOf(Current(i)) = tasks[i].chunk
  <2>1. /\ FirstOf(tasks[i].chunk) <= Current(i)
        /\ Current(i) < FirstOf(tasks[i].chunk) + ChunkSize
    BY <1>1, <1>2, <1>3, <1>5, ConsumerAssumption
  <2> QED
    BY <1>1, <2>1, ChunkOfMeans
<1> QED
  BY <1>1, <1>2, <1>3, <1>4, <1>5, Domains

LEMMA WrittenGapless ==
  ASSUME Typed, Gapless, NEW i \in DOMAIN tasks, CreditWritten(i)
  PROVE  Gapless'
<1>1. /\ tasks[i].phase = "granting" /\ \A j \in 1 .. i - 1 : j \in DOMAIN tasks => tasks[j].phase # "granting"
      /\ UNCHANGED <<sub, net, conn, policy, offset, local, closed, known, leaving, handled, origin>>
  BY DEF CreditWritten, InTask, consumer, history
<1>2. tasks[i].at = 0 /\ (conn = "up" => Promised(FirstOf(tasks[i].chunk), i))
  BY <1>1 DEF Gapless, TaskCovers
<1>3. CASE conn = "up" /\ tasks' = [tasks EXCEPT ![i].phase = "ready"]
  <2>0. i \in 1 .. Len(tasks) /\ DOMAIN tasks = 1 .. Len(tasks) /\ Len(tasks) \in Nat
    BY Domains
  <2>1. Becomes(i, 0, "ready")
    <3>1. tasks[i].at < ChunkSize
      BY <1>2, ConsumerAssumption
    <3> QED
      BY <1>2, <1>3, <3>1, PhaseChanges
  <2>2. \A j \in 1 .. i - 1 : j \in DOMAIN tasks /\ tasks[j].phase # "granting"
    BY <1>1, <2>0
  <2>3. Settled(FirstOf(tasks[i].chunk) + 0)
    <3>1. \A o : ~Awaits(tasks, i, o)
      BY <2>0, <2>2 DEF Awaits
    <3>2. Settled(FirstOf(tasks[i].chunk))
      BY <1>2, <1>3, <3>1 DEF Promised, Settled
    <3>3. FirstOf(tasks[i].chunk) + 0 = FirstOf(tasks[i].chunk)
      BY PlaceFacts
    <3> QED
      BY <3>2, <3>3
  <2>4. Settled(getOffset') /\ \A j \in DOMAIN handled' : Settled(handled'[j] + 1)
    <3>1. getOffset' = getOffset
      BY <1>1 DEF getOffset
    <3> QED
      BY <1>1, <3>1 DEF Gapless
  <2>5. \A o \in Nat : ~Carries(tasks[i], o)
    BY <1>1 DEF Carries
  <2> QED
    BY <1>1, <1>3, <2>1, <2>2, <2>3, <2>4, <2>5, BecomesGapless
<1>4. CASE conn = "down" /\ tasks' = without(tasks, i)
  BY <1>1, <1>4, EndGapless
<1> QED
  BY <1>3, <1>4 DEF CreditWritten

LEMMA SkipGapless ==
  ASSUME Typed, Gapless, NEW i \in DOMAIN tasks, SkipMessage(i)
  PROVE  Gapless'
<1>1. UNCHANGED <<sub, net, conn, policy, offset, local, closed, known, leaving, handled, origin>>
  BY DEF SkipMessage, consumer, history
<1>2. Current(i) < origin
  BY DEF SkipMessage, Skipped, Gapless, Undisturbed
<1>3. tasks[i].phase = "ready" /\ Becomes(i, tasks[i].at + 1, "ready")
  <2>1. i \in 1 .. Len(tasks)
    BY TaskFacts
  <2> QED
    BY <2>1, SkipEffect
<1>4. ASSUME NEW o \in Nat, o >= origin, Carries(tasks[i], o) PROVE Carries(tasks'[i], o)
  <2>1. FirstOf(tasks[i].chunk) + (tasks[i].at + 1) <= o
    BY <1>2, <1>4, PlaceFacts
  <2> QED
    BY <1>3, <1>4, <2>1 DEF Carries, Becomes
<1>5. Settled(FirstOf(tasks[i].chunk) + (tasks[i].at + 1))
  <2>1. FirstOf(tasks[i].chunk) + (tasks[i].at + 1) <= origin
    BY <1>2, PlaceFacts
  <2>2. FirstOf(tasks[i].chunk) + (tasks[i].at + 1) \in Nat /\ origin \in Nat
    BY PlaceFacts
  <2> QED
    BY <2>1, <2>2 DEF Settled
<1>6. Settled(getOffset') /\ \A j \in DOMAIN handled' : Settled(handled'[j] + 1)
  <2>1. getOffset' = getOffset
    BY <1>1 DEF getOffset
  <2> QED
    BY <1>1, <2>1 DEF Gapless
<1>7. tasks[i].at + 1 \in Nat
  BY PlaceFacts
<1> QED
  BY <1>1, <1>3, <1>4, <1>5, <1>6, <1>7, BecomesGapless

LEMMA StartsGapless ==
  ASSUME Typed, Gapless, NEW i \in DOMAIN tasks, HandlerStarts(i)
  PROVE  Gapless'
<1> DEFINE h == handled'
           o == Current(i)
           n == Len(handled)
<1>1. UNCHANGED <<sub, net, conn, policy, offset, local, closed, known, leaving, origin>>
  BY DEF HandlerStarts, consumer, history
<1>2. /\ tasks[i].phase = "ready" /\ tasks[i].at < ChunkSize /\ Becomes(i, tasks[i].at, "handling")
      /\ h = Append(handled, o) /\ h \in Seq(Nat)
  <2>1. i \in 1 .. Len(tasks)
    BY TaskFacts
  <2> QED
    BY <2>1, StartEffect
<1>3. /\ \A j \in DOMAIN handled : j \in DOMAIN h /\ h[j] = handled[j]
      /\ \A j \in DOMAIN h : j \in DOMAIN handled \/ h[j] = o
      /\ \E j \in DOMAIN h : h[j] = o
  <2>1. handled \in Seq(Nat) /\ n \in Nat /\ DOMAIN handled = 1 .. n /\ o \in Nat
    BY HandledFacts, PlaceFacts
  <2>2. /\ Len(Append(handled, o)) = n + 1 /\ Append(handled, o)[n + 1] = o
        /\ \A j \in 1 .. n : Append(handled, o)[j] = handled[j]
    BY <2>1, AppendProperties
  <2>3. DOMAIN h = 1 .. n + 1
    BY <1>2, <2>2, LenProperties
  <2> HIDE DEF h, o, n
  <2>4. n + 1 \in DOMAIN h /\ h[n + 1] = o
    BY <1>2, <2>1, <2>2, <2>3
  <2>5. \A j \in DOMAIN h : j \in DOMAIN handled \/ j = n + 1
    BY <2>1, <2>3
  <2>6. \A j \in DOMAIN handled : j \in DOMAIN h /\ h[j] = handled[j]
    BY <1>2, <2>1, <2>2, <2>3
  <2> QED
    BY <2>4, <2>5, <2>6
<1> HIDE DEF h, o, n
<1>4. Settled(o)
  BY <1>2 DEF Gapless, TaskCovers, o
<1>5. Settled(o + 1)
  <2>1. Carries(tasks[i], o)
    BY <1>2, PlaceFacts DEF Carries, o
  <2>2. Covered(handled, tasks, o)
    BY <2>1 DEF Covered
  <2>3. \A x \in origin .. (o + 1) - 1 : x = o \/ x \in origin .. o - 1
    BY PlaceFacts DEF o
  <2> QED
    BY <1>4, <2>2, <2>3 DEF Settled
<1>6. \A j \in DOMAIN handled' : Settled(handled'[j] + 1)
  BY <1>3, <1>5 DEF Gapless, h
<1>7. Settled(getOffset')
  <2>1. getOffset' = getOffset
    BY <1>1 DEF getOffset
  <2> QED
    BY <2>1 DEF Gapless
<1>8. \A x \in Nat : Has(handled, x) => Has(handled', x)
  BY <1>3 DEF Has, h
<1>9. \A x \in Nat : x >= origin /\ Carries(tasks[i], x) => Carries(tasks'[i], x)
  BY <1>2 DEF Carries, Becomes
<1>10. /\ o = FirstOf(tasks[i].chunk) + tasks[i].at /\ tasks[i].at \in Nat
       /\ Has(handled', FirstOf(tasks[i].chunk) + tasks[i].at)
  <2>1. o = FirstOf(tasks[i].chunk) + tasks[i].at /\ tasks[i].at \in Nat
    BY PlaceFacts DEF o
  <2> QED
    BY <1>3, <2>1 DEF Has, h
<1> QED
  BY <1>1, <1>2, <1>4, <1>6, <1>7, <1>8, <1>9, <1>10, BecomesGapless

LEMMA ReturnsGapless ==
  ASSUME Typed, Gapless, NEW i \in DOMAIN tasks, HandlerReturns(i)
  PROVE  Gapless'
<1> DEFINE o == Current(i)
<1>1. /\ UNCHANGED <<sub, net, conn, policy, offset, closed, known, leaving, origin, handled>>
      /\ local' = Offset("numeric", o)
  BY DEF HandlerReturns
<1>2. /\ tasks[i].phase = "handling" /\ Becomes(i, tasks[i].at + 1, "ready")
  <2>1. i \in 1 .. Len(tasks)
    BY TaskFacts
  <2> QED
    BY <2>1, ReturnEffect
<1>3. getOffset' = o
  BY <1>1 DEF getOffset, Offset
<1>4. Settled(o) /\ Has(handled, o)
  BY <1>2 DEF Gapless, TaskCovers
<1>5. o \in Nat /\ o + 1 = FirstOf(tasks[i].chunk) + (tasks[i].at + 1) /\ tasks[i].at + 1 \in Nat
      /\ origin \in Nat /\ o = FirstOf(tasks[i].chunk) + tasks[i].at
  BY PlaceFacts
<1> HIDE DEF o
<1>6. Settled(o + 1)
  <2>1. \A x \in origin .. (o + 1) - 1 : x = o \/ x \in origin .. o - 1
    BY <1>5
  <2> QED
    BY <1>4, <2>1 DEF Settled, Covered
<1>7. ASSUME NEW x \in Nat, x >= origin, Carries(tasks[i], x)
      PROVE  Has(handled', x) \/ Carries(tasks'[i], x)
  <2>1. CASE x = o
    BY <1>1, <1>4, <2>1
  <2>2. CASE x # o
    <3>1. o <= x
      BY <1>5, <1>7 DEF Carries
    <3>2. FirstOf(tasks[i].chunk) + (tasks[i].at + 1) <= x
      BY <1>5, <2>2, <3>1
    <3> QED
      BY <1>2, <1>7, <3>2 DEF Carries, Becomes
  <2> QED
    BY <2>1, <2>2
<1>8. \A j \in DOMAIN handled' : Settled(handled'[j] + 1)
  BY <1>1 DEF Gapless
<1>9. Settled(FirstOf(tasks[i].chunk) + (tasks[i].at + 1)) /\ Settled(getOffset')
  BY <1>3, <1>4, <1>5, <1>6
<1> QED
  BY <1>1, <1>2, <1>5, <1>7, <1>8, <1>9, BecomesGapless

LEMMA DeliveryGapless ==
  ASSUME Typed, Gapless, NEW i \in 1 .. Len(tasks), Delivery(i)
  PROVE  Gapless'
<1>0. i \in DOMAIN tasks
  BY Domains
<1>1. CASE ChunkCompleted(i)
  <2>1. /\ tasks' = without(tasks, i) /\ tasks[i].phase = "ready" /\ tasks[i].at = ChunkSize
        /\ UNCHANGED <<net, conn, policy, offset, local, closed, known, leaving, origin, handled>>
    BY <1>1 DEF ChunkCompleted, InTask, consumer, history
  <2>2. sub'.next = sub.next /\ sub'.on = sub.on
    BY <1>1 DEF ChunkCompleted, Granted, Typed, TypeOK
  <2> QED
    BY <1>0, <2>1, <2>2, EndGapless
<1> QED
  BY <1>0, <1>1, WrittenGapless, SkipGapless, StartsGapless, ReturnsGapless DEF Delivery

GapInv == ~Excused => Gapless

(* Nobody comes to be excused.                                             *)
LEMMA ExcuseStays ==
  ASSUME Typed, [Next]_vars, ~Excused'
  PROVE  /\ ~Excused /\ ~Close /\ ~Unsubscribe
         /\ \A i \in 1 .. Len(tasks) : ~HandlerThrows(i)
<1>1. used \in [Events -> Nat] /\ {"throw", "close", "drop", "restart"} \subseteq Events
  BY DEF Typed, TypeOK, Events
<1>2. \A e \in Events : Spend(e) => used'[e] = used[e] + 1
                                    /\ \A f \in Events : f # e => used'[f] = used[f]
  BY <1>1 DEF Spend
<1>3. ~Spend("throw") /\ ~Spend("close")
  BY <1>1, <1>2 DEF Excused
<1>4. used' = used \/ Spend("drop") \/ Spend("restart")
  BY <1>3 DEF Next, vars, Publish, Deliver, ChunkArrives, Delivery, CreditWritten, SkipMessage,
         HandlerStarts, HandlerReturns, ChunkCompleted, HandlerThrows, Drop, Restart,
         SocketConnects, Resubscribe, Close, Unsubscribe, Closing
<1>5. used'["throw"] = used["throw"] /\ used'["close"] = used["close"]
  BY <1>1, <1>2, <1>4
<1> QED
  BY <1>3, <1>5 DEF Excused, Close, Unsubscribe, HandlerThrows

LEMMA StepGap == Typed /\ GapInv /\ [Next]_vars => GapInv'
<1> SUFFICES ASSUME Typed, Gapless, [Next]_vars, ~Excused' PROVE Gapless'
  BY ExcuseStays DEF GapInv
<1> USE DEF history, consumer
<1>1. ASSUME UNCHANGED <<sub, net, conn, tasks, consumer, handled, origin>> PROVE Gapless'
  <2>1. WireCovers'
    <3>1. Len(tasks') \in Nat
      BY <1>1, Domains
    <3> QED
      BY <1>1, <3>1, WireStays
  <2>2. \A k \in DOMAIN tasks : tasks[k].phase = "granting" => conn' \in {"up", "down"}
    BY <1>1 DEF Gapless, TaskCovers
  <2> QED
    BY <1>1, <2>1, <2>2, QuietGapless
<1>2. CASE UNCHANGED vars
  BY <1>1, <1>2 DEF vars
<1>3. CASE Publish
  BY <1>1, <1>3 DEF Publish
<1>4. CASE Deliver
  BY <1>4, DeliverGapless
<1>5. CASE ChunkArrives
  BY <1>5, ArrivalGapless
<1>6. ASSUME NEW i \in 1 .. Len(tasks), Delivery(i) PROVE Gapless'
  BY <1>6, DeliveryGapless
<1>7. CASE Drop
  BY <1>7, EndsGapless DEF Drop
<1>8. CASE Restart
  BY <1>8, EndsGapless DEF Restart
<1>9. CASE SocketConnects
  <2>1. \A k \in DOMAIN tasks : tasks[k].phase # "granting"
    BY <1>9 DEF SocketConnects, Gapless, TaskCovers
  <2>2. ~sub.on /\ DOMAIN net = {}
    BY <1>9 DEF SocketConnects, Gapless, WireCovers
  <2>3. WireCovers'
    BY <1>9, <2>2 DEF SocketConnects, WireCovers
  <2> QED
    BY <1>9, <2>1, <2>3, QuietGapless DEF SocketConnects
<1>10. CASE Resubscribe
  BY <1>10, ResubscribeGapless
<1>11. ~Closing
  BY DEF Closing, Gapless, Undisturbed
<1> QED
  BY <1>2, <1>3, <1>4, <1>5, <1>6, <1>7, <1>8, <1>9, <1>10, <1>11, ExcuseStays DEF Next

(* The first subscription starts at or before the first offset asked for.  *)
LEMMA StartsAtOrigin ==
  ASSUME Init
  PROVE  FirstOf(sub.next) <= origin /\ FirstOf(sub.next) \in Nat
<1>1. Typed /\ tail \in 0 .. NumChunks /\ origin \in Nat
  BY InitTyped DEF Typed, TypeOK
<1>2. PICK first \in Positions(StartType, StartValue) :
        /\ sub = [on |-> TRUE, next |-> first, credit |-> StartFrom]
        /\ origin = IF StartType = "numeric" THEN StartValue ELSE FirstOf(first)
  BY DEF Init
<1>3. CASE StartType = "numeric"
  <2>1. sub.next = Position(StartValue) /\ origin = StartValue /\ StartValue \in Nat
    BY <1>2, <1>3, ConsumerAssumption DEF Positions
  <2>2. Position(StartValue) \in Nat \ {0}
    BY <1>1, <2>1, PositionType, ConsumerAssumption
  <2> QED
    BY <1>1, <2>1, <2>2, PositionBelow, FirstOfType
<1>4. CASE StartType # "numeric"
  BY <1>1, <1>2, <1>4
<1> QED
  BY <1>3, <1>4

LEMMA InitGap ==
  ASSUME StartType # "timestamp", Init
  PROVE  Gapless
<1>1. /\ DOMAIN handled = {} /\ DOMAIN net = {} /\ DOMAIN tasks = {} /\ Len(net) = 0
  <2>1. handled = <<>> /\ net = <<>> /\ tasks = <<>>
    BY DEF Init
  <2> QED
    BY <2>1
<1>2. Typed /\ tail \in 0 .. NumChunks /\ origin \in Nat
  BY InitTyped DEF Typed, TypeOK
<1>3. FirstOf(sub.next) <= origin /\ FirstOf(sub.next) \in Nat
  BY StartsAtOrigin
<1>4. /\ offset.type = "numeric" => offset.value = origin
      /\ getOffset <= origin /\ getOffset \in Nat
  <2>1. CASE StartType = "numeric"
    BY <1>2, <1>3, <2>1, ConsumerAssumption DEF Init, Offset, getOffset
  <2>2. CASE StartType # "numeric"
    <3>1. offset.type = StartType /\ getOffset = 0
      BY <2>2 DEF Init, Offset, getOffset
    <3> QED
      BY <1>2, <2>2, <3>1
  <2> QED
    BY <2>1, <2>2
<1>5. \A p \in Nat : p <= origin => origin .. p - 1 = {}
  BY <1>2
<1>6. WireCovers
  <2>1. Reached(FirstOf(sub.next), Len(net) + 1)
    BY <1>3, <1>5 DEF Reached
  <2>2. conn = "up"
    BY DEF Init
  <2> QED
    BY <1>1, <2>1, <2>2 DEF WireCovers
<1>7. Settled(getOffset)
  BY <1>4, <1>5 DEF Settled
<1>8. Undisturbed
  BY <1>4 DEF Init, Undisturbed
<1> QED
  BY <1>1, <1>6, <1>7, <1>8 DEF Gapless

LEMMA GaplessMeansNothingSkipped == Typed /\ GapInv => NothingSkipped
<1> SUFFICES ASSUME Typed, Gapless, NEW i \in DOMAIN handled, NEW o \in origin .. handled[i]
             PROVE  InTasks(o) \/ \E j \in DOMAIN handled : handled[j] = o
  BY DEF NothingSkipped, GapInv
<1>1. handled[i] \in Nat /\ origin \in Nat
  BY HandledFacts, Domains
<1>2. o \in origin .. (handled[i] + 1) - 1
  BY <1>1
<1>3. Covered(handled, tasks, o)
  BY <1>2 DEF Gapless, Settled
<1>4. ASSUME NEW k \in DOMAIN tasks, Carries(tasks[k], o) PROVE InTasks(o)
  <2>1. Current(k) = FirstOf(tasks[k].chunk) + tasks[k].at
    BY PlaceFacts
  <2> QED
    BY <1>4, <2>1 DEF Carries, InTasks
<1> QED
  BY <1>3, <1>4 DEF Covered, Has

(* Reconnections skip nothing: while the handler does not throw and nobody *)
(* closes the consumer, every message from the first one asked for up to   *)
(* one that was handled was handled too or is held by a running delivery,  *)
(* for every policy and amount of credit.  A consumer that starts at a     *)
(* timestamp is the exception: its first getOffset is that number of       *)
(* milliseconds, and a restart before the first message skips the stream.  *)
THEOREM NothingIsSkipped ==
  ASSUME StartType # "timestamp"
  PROVE  Spec => []NothingSkipped
<1>1. Init => Typed /\ GapInv
  BY InitTyped, InitGap DEF GapInv
<1>2. Typed /\ GapInv /\ [Next]_vars => (Typed /\ GapInv)'
  BY StepTyped, StepGap
<1> QED
  BY <1>1, <1>2, GaplessMeansNothingSkipped, PTL DEF Spec
-----------------------------------------------------------------------------
(* Progress.  With one chunk under way at a time, the handler is done with *)
(* all that lies before the delivery's place, before the chunk on the wire *)
(* and, while there is credit, before the next one, unless closed.         *)

DoneTo(p) == \A o \in origin .. p - 1 : o \in done
TaskDone(k) ==
  /\ tasks[k].chunk + 1 = sub.next
  /\ (closed /\ tasks[k].phase # "handling") \/ DoneTo(Current(k))
WireDone == \A k \in DOMAIN net : net[k] + 1 = sub.next /\ (closed \/ DoneTo(FirstOf(net[k])))
CreditDone == closed \/ sub.credit = 0 \/ DoneTo(FirstOf(sub.next))
LocalDone == done # {} /\ local.type = "numeric" => DoneTo(local.value + 1)
Complete ==
  /\ offset.type = "numeric" => offset.value = origin
  /\ LocalDone /\ CreditDone /\ WireDone
  /\ \A k \in DOMAIN tasks : TaskDone(k)
ProgressInv == Sequential /\ ~restarted => Complete

(* Steps that handle nothing and let nothing more be delivered.            *)
LEMMA CompleteStays ==
  ASSUME Complete, UNCHANGED <<offset, local, done, origin>>, closed => closed',
         sub'.next = sub.next, sub'.credit \in {sub.credit, 0},
         net' = net \/ DOMAIN net' = {}, tasks' = tasks \/ DOMAIN tasks' = {}
  PROVE  Complete'
<1>1. LocalDone' /\ (offset.type = "numeric" => offset.value = origin)'
  BY DEF Complete, LocalDone, DoneTo
<1>2. CreditDone'
  <2>1. FirstOf(sub.next)' = FirstOf(sub.next)
    BY DEF FirstOf
  <2> QED
    BY <2>1 DEF Complete, CreditDone, DoneTo
<1>3. WireDone'
  BY DEF Complete, WireDone, DoneTo, FirstOf
<1>4. \A k \in DOMAIN tasks' : TaskDone(k)'
  BY DEF Complete, TaskDone, DoneTo, Current, FirstOf
<1> QED
  BY <1>1, <1>2, <1>3, <1>4 DEF Complete

LEMMA EndComplete ==
  ASSUME Typed, CreditInv, Sequential, ~restarted, Complete,
         NEW i \in 1 .. Len(tasks), tasks' = without(tasks, i),
         UNCHANGED <<offset, local, done, origin, closed, net, sub>>
  PROVE  Complete'
<1>1. tasks' \in Seq(Delivering) /\ Len(tasks') = 0
  BY EndEffect, OneUnderWay, Lengths
<1>2. DOMAIN tasks' = {}
  BY <1>1, EmptyDomain
<1>3. /\ UNCHANGED <<offset, local, done, origin>> /\ (closed => closed')
      /\ sub'.next = sub.next /\ sub'.credit \in {sub.credit, 0}
      /\ (net' = net \/ DOMAIN net' = {}) /\ (tasks' = tasks \/ DOMAIN tasks' = {})
  BY <1>2
<1> QED
  BY <1>3, CompleteStays

LEMMA NothingElse ==
  ASSUME Typed, CreditInv, Sequential, ~restarted, NEW i \in DOMAIN tasks
  PROVE  i = 1 /\ Len(tasks) = 1 /\ DOMAIN net = {} /\ sub.credit = 0
<1>1. i \in 1 .. Len(tasks) /\ Len(tasks) <= 1 /\ Len(tasks) \in Nat
  BY TaskFacts, OneUnderWay, Lengths
<1>2. i = 1 /\ Len(tasks) = 1
  <2>1. \A n \in Nat : \A j \in 1 .. n : n <= 1 => j = 1 /\ n = 1
    OBVIOUS
  <2> QED
    BY <1>1, <2>1
<1>3. Len(net) = 0 /\ sub.credit = 0
  BY <1>2, OneUnderWay
<1>4. DOMAIN net = 1 .. 0
  BY <1>3, Domains
<1> QED
  BY <1>2, <1>3, <1>4

(* The delivery goes on.                                                   *)
LEMMA BecomesComplete ==
  ASSUME Typed, CreditInv, Sequential, ~restarted, Complete,
         NEW i \in DOMAIN tasks, NEW a \in Nat, NEW p, Becomes(i, a, p),
         UNCHANGED <<offset, closed, origin, sub, net>>,
         (closed /\ p # "handling")
           \/ \A o \in origin .. (FirstOf(tasks[i].chunk) + a) - 1 : o \in done',
         LocalDone'
  PROVE  Complete'
<1>1. i = 1 /\ Len(tasks) = 1 /\ DOMAIN net = {} /\ sub.credit = 0
  BY NothingElse
<1>2. DOMAIN tasks' = {1}
  <2>1. tasks' \in Seq(Delivering) /\ Len(tasks') = 1
    BY <1>1 DEF Becomes
  <2>2. DOMAIN tasks' = 1 .. 1
    BY <2>1, LenProperties
  <2> QED
    BY <2>2
<1>3. tasks'[i].chunk = tasks[i].chunk /\ tasks'[i].at = a /\ tasks'[i].phase = p
  BY DEF Becomes
<1>4. TaskDone(i)'
  <2>1. Current(i)' = FirstOf(tasks[i].chunk) + a
    BY <1>3 DEF Current, FirstOf
  <2>2. tasks'[i].chunk + 1 = sub'.next
    BY <1>3 DEF Complete, TaskDone
  <2> QED
    BY <1>3, <2>1, <2>2 DEF TaskDone, DoneTo
<1>5. CreditDone' /\ WireDone'
  BY <1>1 DEF CreditDone, WireDone
<1> QED
  BY <1>1, <1>2, <1>4, <1>5 DEF Complete

LEMMA DoneMore ==
  ASSUME NEW p \in Nat, NEW q \in Nat, q <= p, origin \in Nat, DoneTo(p)
  PROVE  DoneTo(q)
  BY DEF DoneTo

LEMMA DeliverComplete ==
  ASSUME Typed, CreditInv, Sequential, ~restarted, Complete, Deliver
  PROVE  Complete'
<1> DEFINE c == sub.next
<1>1. /\ UNCHANGED <<offset, local, done, origin, closed, tasks>>
      /\ c \in Nat \ {0} /\ sub'.next = c + 1 /\ sub'.credit = sub.credit - 1 /\ net' = Append(net, c)
      /\ sub.credit \in Nat \ {0} /\ c \in Chunks
  BY DeliverEffect, ConsumerAssumption DEF Deliver, history, consumer, Chunks
<1>2. sub.credit = 1 /\ Len(net) = 0 /\ Len(tasks) = 0
  <2>1. sub.credit + Len(net) + Len(tasks) <= 1
    BY OneUnderWay
  <2> QED
    BY <1>1, <2>1, Lengths
<1>3. DOMAIN tasks = {} /\ DOMAIN net' = {1} /\ net'[1] = c
  <2>1. Len(Append(net, c)) = 1 /\ Append(net, c)[1] = c /\ Append(net, c) \in Seq(Chunks)
    BY <1>1, <1>2, AppendProperties DEF Typed, TypeOK
  <2>2. DOMAIN net' = 1 .. 1
    BY <1>1, <2>1, LenProperties
  <2>3. DOMAIN tasks = 1 .. 0
    BY <1>2, Domains
  <2> QED
    BY <1>1, <2>1, <2>2, <2>3
<1>4. closed \/ DoneTo(FirstOf(c))
  BY <1>2 DEF Complete, CreditDone
<1>5. WireDone'
  <2>1. FirstOf(net[1])' = FirstOf(c)
    BY <1>3 DEF FirstOf
  <2> QED
    BY <1>1, <1>3, <1>4, <2>1 DEF WireDone, DoneTo
<1>6. CreditDone'
  BY <1>1, <1>2 DEF CreditDone
<1>7. LocalDone' /\ (offset.type = "numeric" => offset.value = origin)'
  BY <1>1 DEF Complete, LocalDone, DoneTo
<1> QED
  BY <1>1, <1>3, <1>5, <1>6, <1>7 DEF Complete

LEMMA ArrivalComplete ==
  ASSUME Typed, CreditInv, Sequential, ~restarted, Complete, ChunkArrives
  PROVE  Complete'
<1> DEFINE c == Head(net)
<1>1. /\ UNCHANGED <<offset, local, done, origin, closed, sub>> /\ net' = Tail(net) /\ net # <<>>
      /\ \/ tasks' = tasks
         \/ \E p \in {"granting", "ready"} :
              tasks' = Append(tasks, [chunk |-> c, at |-> 0, phase |-> p])
  BY ArrivalEffect DEF ChunkArrives, history, consumer, Sequential
<1>2. /\ Len(net) = 1 /\ Len(tasks) = 0 /\ c = net[1] /\ c \in Nat \ {0} /\ c \in Chunks
      /\ Len(net') = 0 /\ net' \in Seq(Chunks)
  <2>1. /\ Len(net) \in Nat \ {0} /\ c = net[1] /\ c \in Chunks
        /\ Len(Tail(net)) = Len(net) - 1 /\ Tail(net) \in Seq(Chunks)
    BY <1>1, FrameFacts DEF Typed
  <2>2. sub.credit + Len(net) + Len(tasks) <= 1
    BY OneUnderWay
  <2>3. Len(net) = 1 /\ Len(tasks) = 0
    BY <2>1, <2>2, Lengths
  <2> QED
    BY <1>1, <2>1, <2>3, ConsumerAssumption DEF Chunks
<1>3. DOMAIN net' = {} /\ DOMAIN tasks = {} /\ 1 \in DOMAIN net
  <2>1. DOMAIN net' = 1 .. 0 /\ DOMAIN tasks = 1 .. 0 /\ DOMAIN net = 1 .. 1
    BY <1>2, Domains, LenProperties
  <2> QED
    BY <2>1
<1>4. c + 1 = sub.next /\ (closed \/ DoneTo(FirstOf(c)))
  BY <1>2, <1>3 DEF Complete, WireDone
<1> HIDE DEF c
<1>5. WireDone' /\ CreditDone' /\ LocalDone' /\ (offset.type = "numeric" => offset.value = origin)'
  BY <1>1, <1>3 DEF Complete, WireDone, CreditDone, LocalDone, DoneTo, FirstOf
<1>6. ASSUME NEW p \in {"granting", "ready"},
             tasks' = Append(tasks, [chunk |-> c, at |-> 0, phase |-> p])
      PROVE  \A k \in DOMAIN tasks' : TaskDone(k)'
  <2> DEFINE t == [chunk |-> c, at |-> 0, phase |-> p]
  <2>1. t \in Delivering /\ t.chunk = c /\ t.at = 0 /\ t.phase = p
    BY <1>2, NewTask
  <2>2. tasks' = Append(tasks, t)
    BY <1>6
  <2> HIDE DEF t
  <2>3. tasks' \in Seq(Delivering) /\ Len(tasks') = 1 /\ tasks'[1] = t
    BY <1>2, <2>1, <2>2, Added
  <2>4. DOMAIN tasks' = {1}
    <3>1. DOMAIN tasks' = 1 .. 1
      BY <2>3, LenProperties
    <3> QED
      BY <3>1
  <2>5. Current(1)' = FirstOf(c)
    <3>1. FirstOf(c) \in Nat
      BY <1>2, FirstOfType
    <3> QED
      BY <2>1, <2>3, <3>1 DEF Current, FirstOf
  <2>6. TaskDone(1)'
    BY <1>1, <1>4, <2>1, <2>3, <2>5 DEF TaskDone, DoneTo
  <2> QED
    BY <2>4, <2>6
<1>7. CASE tasks' = tasks
  BY <1>3, <1>5, <1>7 DEF Complete
<1> QED
  BY <1>1, <1>5, <1>6, <1>7 DEF Complete

LEMMA DeliveryComplete ==
  ASSUME Typed, CreditInv, Sequential, ~restarted, Complete,
         NEW i \in 1 .. Len(tasks), Delivery(i)
  PROVE  Complete'
<1> USE DEF history, consumer
<1>0. /\ i \in DOMAIN tasks /\ TaskDone(i) /\ origin \in Nat
      /\ tasks[i].at \in Nat /\ tasks[i].at + 1 \in Nat
      /\ Current(i) \in Nat /\ Current(i) = FirstOf(tasks[i].chunk) + tasks[i].at
      /\ Current(i) + 1 = FirstOf(tasks[i].chunk) + (tasks[i].at + 1)
      /\ tasks[i].chunk \in Nat \ {0} /\ FirstOf(tasks[i].chunk) \in Nat
  <2>1. i \in DOMAIN tasks
    BY Domains
  <2>2. TaskDone(i)
    BY <2>1 DEF Complete
  <2> QED
    BY <2>1, <2>2, PlaceFacts
<1>1. LocalDone /\ Complete
  BY DEF Complete
<1>2. CASE CreditWritten(i)
  <2>1. /\ tasks[i].phase = "granting"
        /\ UNCHANGED <<offset, local, done, origin, closed, net, sub>>
    BY <1>2 DEF CreditWritten, InTask
  <2>2. CASE tasks' = [tasks EXCEPT ![i].phase = "ready"]
    <3>1. Becomes(i, tasks[i].at, "ready")
      BY <1>0, <2>2, PhaseChanges
    <3>2. closed \/ \A o \in origin .. (FirstOf(tasks[i].chunk) + tasks[i].at) - 1 : o \in done'
      BY <1>0, <2>1 DEF TaskDone, DoneTo
    <3>3. LocalDone'
      BY <1>1, <2>1 DEF LocalDone, DoneTo
    <3> QED
      BY <1>0, <1>1, <2>1, <3>1, <3>2, <3>3, BecomesComplete
  <2>3. CASE tasks' = without(tasks, i)
    BY <2>1, <2>3, EndComplete
  <2> QED
    BY <1>2, <2>2, <2>3 DEF CreditWritten
<1>3. CASE SkipMessage(i)
  <2>1. Becomes(i, tasks[i].at + 1, "ready") /\ UNCHANGED <<offset, local, done, origin, closed, net, sub>>
    BY <1>3, SkipEffect DEF SkipMessage
  <2>2. closed \/ Current(i) < origin
    BY <1>3 DEF SkipMessage, Skipped, Complete
  <2>3. closed \/ \A o \in origin .. (FirstOf(tasks[i].chunk) + (tasks[i].at + 1)) - 1 : o \in done'
    BY <1>0, <2>2
  <2>4. LocalDone'
    BY <1>1, <2>1 DEF LocalDone, DoneTo
  <2> QED
    BY <1>0, <1>1, <2>1, <2>3, <2>4, BecomesComplete
<1>4. CASE HandlerStarts(i)
  <2>1. Becomes(i, tasks[i].at, "handling") /\ UNCHANGED <<offset, local, done, origin, closed, net, sub>>
    BY <1>4, StartEffect DEF HandlerStarts
  <2>2. ~closed
    BY <1>4 DEF HandlerStarts, Skipped
  <2>3. \A o \in origin .. (FirstOf(tasks[i].chunk) + tasks[i].at) - 1 : o \in done'
    BY <1>0, <2>1, <2>2 DEF TaskDone, DoneTo
  <2>4. LocalDone'
    BY <1>1, <2>1 DEF LocalDone, DoneTo
  <2> QED
    BY <1>0, <1>1, <2>1, <2>3, <2>4, BecomesComplete
<1>5. CASE HandlerReturns(i)
  <2>1. /\ Becomes(i, tasks[i].at + 1, "ready") /\ tasks[i].phase = "handling"
        /\ UNCHANGED <<offset, origin, closed, net, sub>>
        /\ done' = done \cup {Current(i)} /\ local' = Offset("numeric", Current(i))
    BY <1>5, ReturnEffect DEF HandlerReturns
  <2>2. \A o \in origin .. (Current(i) + 1) - 1 : o \in done'
    <3>1. DoneTo(Current(i))
      BY <1>0, <2>1 DEF TaskDone
    <3>2. \A o \in origin .. (Current(i) + 1) - 1 : o = Current(i) \/ o \in origin .. Current(i) - 1
      BY <1>0
    <3> QED
      BY <2>1, <3>1, <3>2 DEF DoneTo
  <2>3. \A o \in origin .. (FirstOf(tasks[i].chunk) + (tasks[i].at + 1)) - 1 : o \in done'
    BY <1>0, <2>2
  <2>4. LocalDone'
    <3>1. local'.value = Current(i)
      BY <2>1 DEF Offset
    <3> QED
      BY <2>1, <2>2, <3>1 DEF LocalDone, DoneTo
  <2> QED
    BY <1>0, <1>1, <2>1, <2>3, <2>4, BecomesComplete
<1>6. CASE ChunkCompleted(i)
  <2>1. /\ UNCHANGED <<offset, local, done, origin, closed, net>> /\ tasks' = without(tasks, i)
        /\ tasks[i].phase = "ready" /\ tasks[i].at = ChunkSize /\ sub'.next = sub.next
    BY <1>6 DEF ChunkCompleted, InTask, Granted, Typed, TypeOK
  <2>2. DOMAIN net = {} /\ Len(tasks) = 1
    BY <1>0, NothingElse
  <2>3. DOMAIN tasks' = {}
    <3>1. tasks' \in Seq(Delivering) /\ Len(tasks') = 0
      BY <2>1, <2>2, EndEffect
    <3> QED
      BY <3>1, EmptyDomain
  <2>4. closed \/ DoneTo(FirstOf(sub.next))
    <3>1. FirstOf(tasks[i].chunk + 1) = FirstOf(tasks[i].chunk) + ChunkSize
      BY <1>0, FirstOfType
    <3> QED
      BY <1>0, <2>1, <3>1 DEF TaskDone
  <2>5. CreditDone'
    <3>1. FirstOf(sub.next)' = FirstOf(sub.next)
      BY <2>1 DEF FirstOf
    <3> QED
      BY <2>1, <2>4, <3>1 DEF CreditDone, DoneTo
  <2>6. LocalDone' /\ (offset.type = "numeric" => offset.value = origin)'
    BY <2>1 DEF Complete, LocalDone, DoneTo
  <2> QED
    BY <2>1, <2>2, <2>3, <2>5, <2>6 DEF Complete, WireDone
<1> QED
  BY <1>2, <1>3, <1>4, <1>5, <1>6 DEF Delivery

LEMMA StepProgress == Typed /\ CreditInv /\ ProgressInv /\ [Next]_vars => ProgressInv'
<1> SUFFICES ASSUME Typed, CreditInv, Sequential, ~restarted', ProgressInv, [Next]_vars
             PROVE  Complete'
  BY PolicyStays DEF ProgressInv, Sequential
<1> USE DEF history, consumer
<1>0. ~restarted /\ Complete /\ conn # "handshake" /\ ~Restart
  <2>1. ~Restart
    BY DEF Restart
  <2>2. restarted' = restarted
    BY <2>1, ArrivalCredit, DeliveryCredit
       DEF Next, vars, Publish, Deliver, HandlerThrows, Drop, SocketConnects, Resubscribe,
           Close, Unsubscribe, Closing
  <2> QED
    BY <2>1, <2>2 DEF ProgressInv, CreditInv, Reopened
<1>1. ASSUME UNCHANGED <<offset, local, done, origin, tasks>>, closed => closed',
             UNCHANGED <<net, sub>> \/ SubscriptionEnds
      PROVE  Complete'
  <2>1. sub'.next = sub.next /\ sub'.credit \in {sub.credit, 0} /\ (net' = net \/ DOMAIN net' = {})
    <3>1. CASE SubscriptionEnds
      <4>1. sub'.next = sub.next /\ sub'.credit = 0 /\ net' = <<>>
        BY <3>1, EndsType DEF Typed, TypeOK, SubType
      <4> QED
        BY <4>1
    <3> QED
      BY <1>1, <3>1
  <2> QED
    BY <1>0, <1>1, <2>1, CompleteStays
<1>2. CASE UNCHANGED vars
  BY <1>1, <1>2 DEF vars
<1>3. CASE Publish
  BY <1>1, <1>3 DEF Publish
<1>4. CASE Deliver
  BY <1>0, <1>4, DeliverComplete
<1>5. CASE ChunkArrives
  BY <1>0, <1>5, ArrivalComplete
<1>6. ASSUME NEW i \in 1 .. Len(tasks), Delivery(i) PROVE Complete'
  BY <1>0, <1>6, DeliveryComplete
<1>7. ASSUME NEW i \in 1 .. Len(tasks), HandlerThrows(i) PROVE Complete'
  <2>1. tasks' = without(tasks, i) /\ UNCHANGED <<offset, local, done, origin, closed, net, sub>>
    BY <1>7 DEF HandlerThrows
  <2> QED
    BY <1>0, <2>1, EndComplete
<1>8. CASE Drop
  BY <1>1, <1>8 DEF Drop
<1>9. CASE SocketConnects
  BY <1>1, <1>9 DEF SocketConnects
<1>10. CASE Close
  BY <1>1, <1>10 DEF Close, releaseConnection
<1>11. CASE Unsubscribe
  <2>1. sub'.next = sub.next /\ sub'.credit \in {sub.credit, 0}
    BY <1>11 DEF Unsubscribe, Typed, TypeOK
  <2> QED
    BY <1>0, <1>11, <2>1, CompleteStays DEF Unsubscribe
<1>12. CASE Closing
  BY <1>1, <1>12 DEF Closing, releaseConnection
<1> QED
  BY <1>0, <1>2, <1>3, <1>4, <1>5, <1>6, <1>7, <1>8, <1>9, <1>10, <1>11, <1>12
     DEF Next, Resubscribe

LEMMA InitProgress == Init => ProgressInv
<1> SUFFICES ASSUME Init PROVE Complete
  BY DEF ProgressInv
<1>1. DOMAIN net = {} /\ DOMAIN tasks = {} /\ done = {}
  <2>1. net = <<>> /\ tasks = <<>>
    BY DEF Init
  <2> QED
    BY <2>1 DEF Init
<1>2. Typed /\ tail \in 0 .. NumChunks /\ origin \in Nat
  BY InitTyped DEF Typed, TypeOK
<1>3. FirstOf(sub.next) <= origin /\ FirstOf(sub.next) \in Nat
  BY StartsAtOrigin
<1>4. DoneTo(FirstOf(sub.next))
  BY <1>2, <1>3 DEF DoneTo
<1>5. offset.type = "numeric" => offset.value = origin
  BY DEF Init, Offset
<1> QED
  BY <1>1, <1>4, <1>5 DEF Complete, LocalDone, CreditDone, WireDone

LEMMA CompleteMeansProgress == Typed /\ ProgressInv => ProgressIsComplete
<1> SUFFICES ASSUME Typed, Complete, done # {}, local.type = "numeric", NEW o \in origin .. local.value
             PROVE  o \in done
  BY DEF ProgressIsComplete, ProgressInv, Sequential
<1>1. local.value \in Nat /\ origin \in Nat
  BY DEF Typed, TypeOK
<1>2. o \in origin .. (local.value + 1) - 1
  BY <1>1
<1> QED
  BY <1>2 DEF Complete, LocalDone, DoneTo

(* With the default policy and until a reconnection, the local offset is   *)
(* safe to store: the handler has returned from every message between the  *)
(* first one asked for and that offset, whatever throws, drops or closes.  *)
THEOREM ProgressKept == Spec => []ProgressIsComplete
<1>1. Init => Typed /\ CreditInv /\ ProgressInv
  BY InitTyped, InitCredit, InitProgress
<1>2. Typed /\ CreditInv /\ ProgressInv /\ [Next]_vars => (Typed /\ CreditInv /\ ProgressInv)'
  BY StepTyped, StepCredit, StepProgress
<1> QED
  BY <1>1, <1>2, CompleteMeansProgress, PTL DEF Spec
=============================================================================
