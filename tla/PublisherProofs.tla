--------------------------- MODULE PublisherProofs ---------------------------
(***************************************************************************)
(* Proofs about Publisher: its types, the order and uniqueness of what a   *)
(* publisher stores, the wakeup of its timer, the contract, where each     *)
(* message is, and that the first publisher is declared in time.           *)
(***************************************************************************)
EXTENDS Publisher, SequenceTheorems, FiniteSetTheorems, TLAPS

USE DEF Publishers

(* popChunk splits a queue into its first messages and the rest.           *)
LEMMA ChunkSplit ==
  ASSUME NEW q \in Seq(Nat), q # <<>>
  PROVE  LET n == IF Len(q) < MaxChunkLength THEN Len(q) ELSE MaxChunkLength IN
         /\ n \in 1 .. Len(q) /\ n <= MaxChunkLength
         /\ popped(q) \in Seq(Nat) /\ Len(popped(q)) = n
         /\ \A i \in 1 .. n : popped(q)[i] = q[i]
         /\ remaining(q) \in Seq(Nat) /\ Len(remaining(q)) = Len(q) - n
         /\ \A i \in 1 .. Len(q) - n : remaining(q)[i] = q[n + i]
<1> DEFINE n == IF Len(q) < MaxChunkLength THEN Len(q) ELSE MaxChunkLength
<1>1. n \in 1 .. Len(q) /\ n <= MaxChunkLength
  BY PublisherAssumption
<1>2. popped(q) = SubSeq(q, 1, n)
  BY DEF popped
<1>3. popped(q) \in Seq(Nat) /\ Len(popped(q)) = n /\ \A i \in 1 .. n : popped(q)[i] = q[i]
  BY <1>1, <1>2
<1>4. /\ remaining(q) \in Seq(Nat) /\ Len(remaining(q)) = Len(q) - n
      /\ \A i \in 1 .. Len(q) - n : remaining(q)[i] = q[n + i]
  <2> DEFINE m == MaxChunkLength + 1
  <2>1. m \in Int /\ Len(q) \in Int /\ m >= 1 /\ \A i \in m .. Len(q) : q[i] \in Nat
    BY PublisherAssumption
  <2>2. /\ SubSeq(q, m, Len(q)) \in Seq(Nat)
        /\ Len(SubSeq(q, m, Len(q))) = IF m <= Len(q) THEN Len(q) - m + 1 ELSE 0
        /\ \A i \in 1 .. Len(q) - m + 1 : SubSeq(q, m, Len(q))[i] = q[m + i - 1]
    BY SMTT(40), <2>1, SubSeqProperties
  <2>3. remaining(q) = SubSeq(q, m, Len(q))
    BY DEF remaining
  <2>4. CASE m <= Len(q)
    <3>1. n = MaxChunkLength /\ Len(q) - n = Len(q) - m + 1
      BY <2>4, PublisherAssumption
    <3>2. ASSUME NEW i \in 1 .. Len(q) - n
          PROVE  remaining(q)[i] = q[n + i]
      <4>1. m + i - 1 = n + i /\ i \in 1 .. Len(q) - m + 1
        BY <3>1, PublisherAssumption
      <4> QED
        BY <4>1, <2>2, <2>3
    <3> QED
      BY <2>2, <2>3, <2>4, <3>1, <3>2
  <2>5. CASE ~(m <= Len(q))
    <3>1. n = Len(q) /\ Len(q) - n = 0
      BY <2>5, PublisherAssumption
    <3> QED
      BY <2>2, <2>3, <2>5, <3>1
  <2> QED
    BY <2>4, <2>5
<1> QED
  BY <1>1, <1>3, <1>4

-----------------------------------------------------------------------------
(* Type correctness.                                                       *)

LEMMA PublishFrameType ==
  ASSUME NEW p \in Publishers, NEW m \in Seq(Nat)
  PROVE  [type |-> "publish", pub |-> p, msgs |-> m] \in Frame
BY DEF Frame

LEMMA ControlFrameType ==
  ASSUME NEW p \in Publishers, NEW t \in {"declare", "delete", "close"}
  PROVE  [type |-> t, pub |-> p] \in Frame
BY DEF Frame

LEMMA ReadFrameType ==
  ASSUME NEW f \in Frame
  PROVE  f.pub \in Publishers /\ (f.type = "publish" => f.msgs \in Seq(Nat))
BY DEF Frame

LEMMA SendBufferType ==
  ASSUME TypeOK, NEW p \in Publishers, NEW q \in Seq(Nat), NEW by \in Callers,
         sendBuffer(p, q, by)
  PROVE  /\ queue' \in [Publishers -> Seq(Nat)]
         /\ wire' \in Seq(Frame) /\ writing' \in Seq(Call) /\ hung' \in SUBSET Call
         /\ lost' \in [Publishers -> SUBSET Nat]
<1>1. q # <<>> /\ popped(q) \in Seq(Nat) /\ remaining(q) \in Seq(Nat)
  BY ChunkSplit DEF sendBuffer, NothingToSend
<1>2. queue' \in [Publishers -> Seq(Nat)]
  BY <1>1 DEF sendBuffer, TypeOK
<1>3. [pub |-> p, by |-> by] \in Call
  BY DEF Call
<1>4. [type |-> "publish", pub |-> p, msgs |-> popped(q)] \in Frame
  BY <1>1, PublishFrameType
<1>5. Elements(popped(q)) \in SUBSET Nat
  BY <1>1 DEF Elements
<1>6. CASE SocketIsOpen
  <2> DEFINE f == [type |-> "publish", pub |-> p, msgs |-> popped(q)]
             c == [pub |-> p, by |-> by]
  <2>0. wire' = Append(wire, f) /\ writing' = Append(writing, c)
    BY <1>6 DEF sendBuffer
  <2> HIDE DEF f, c
  <2>1. wire' \in Seq(Frame)
    BY <1>4, <2>0, AppendProperties DEF TypeOK, f
  <2>2. writing' \in Seq(Call)
    BY <1>3, <2>0, AppendProperties DEF TypeOK, c
  <2>3. hung' = hung /\ lost' = lost
    BY <1>6 DEF sendBuffer
  <2> QED
    BY <1>2, <2>1, <2>2, <2>3 DEF TypeOK
<1>7. CASE ~SocketIsOpen
  <2> DEFINE c == [pub |-> p, by |-> by]
             e == Elements(popped(q))
  <2>0. /\ hung' = hung \cup {c} /\ UNCHANGED <<wire, writing>>
        /\ lost' = [lost EXCEPT ![p] = @ \cup e]
    BY <1>7 DEF sendBuffer
  <2>1. c \in Call /\ e \in SUBSET Nat
    BY <1>3, <1>5
  <2> HIDE DEF c, e
  <2>2. hung' \in SUBSET Call
    BY <2>0, <2>1 DEF TypeOK
  <2>3. lost' \in [Publishers -> SUBSET Nat]
    BY <2>0, <2>1 DEF TypeOK
  <2> QED
    BY <1>2, <2>0, <2>2, <2>3 DEF TypeOK
<1> QED
  BY <1>6, <1>7

LEMMA ScheduleType ==
  ASSUME TypeOK, NEW p \in Publishers, NEW b \in BOOLEAN, NEW q, scheduleIfNeeded(p, b, q)
  PROVE  scheduled' \in [Publishers -> BOOLEAN]
BY DEF scheduleIfNeeded, TypeOK

LEMMA ReleaseType ==
  ASSUME TypeOK, NEW p \in Publishers, releaseConnection(p)
  PROVE  refs' \in Int /\ closed' \in [Publishers -> BOOLEAN] /\ wire' \in Seq(Frame)
<1>1. [type |-> "close", pub |-> p] \in Frame
  BY ControlFrameType
<1>2. refs' \in Int
  BY DEF releaseConnection, TypeOK
<1>3. CASE wire' = Append(wire, [type |-> "close", pub |-> p]) /\ UNCHANGED closed
  <2>1. wire' \in Seq(Frame)
    BY <1>1, <1>3, AppendProperties DEF TypeOK
  <2> QED
    BY <1>2, <1>3, <2>1 DEF TypeOK
<1>4. CASE closed' = [closed EXCEPT ![p] = TRUE] /\ UNCHANGED wire
  BY <1>2, <1>4 DEF TypeOK
<1> QED
  BY <1>3, <1>4 DEF releaseConnection

LEMMA ClosePublisherType ==
  ASSUME TypeOK, NEW p \in Publishers, closePublisher(p)
  PROVE  /\ queue' \in [Publishers -> Seq(Nat)] /\ closed' \in [Publishers -> BOOLEAN]
         /\ refs' \in Int /\ lost' \in [Publishers -> SUBSET Nat]
         /\ wire' \in Seq(Frame) /\ writing' \in Seq(Call) /\ hung' \in SUBSET Call
<1>1. CASE closed[p] /\ UNCHANGED <<queue, closed, refs, calls, lost>>
  BY <1>1 DEF TypeOK, calls
<1>2. CASE sendBuffer(p, queue[p], "close") /\ UNCHANGED <<closed, refs>>
  <2>1. queue[p] \in Seq(Nat) /\ "close" \in Callers
    BY DEF TypeOK, Callers
  <2> QED
    BY <1>2, <2>1, SendBufferType DEF TypeOK
<1>3. CASE releaseConnection(p) /\ UNCHANGED <<queue, writing, hung, lost>>
  BY <1>3, ReleaseType DEF TypeOK
<1> QED
  BY <1>1, <1>2, <1>3 DEF closePublisher

LEMMA EnqueueType ==
  ASSUME TypeOK, NEW p \in Publishers, enqueue(p)
  PROVE  TypeOK'
<1> DEFINE q == Append(queue[p], accepted[p] + 1)
<1>1. q \in Seq(Nat) /\ "send" \in Callers
  <2>1. queue[p] \in Seq(Nat) /\ accepted[p] + 1 \in Nat
    BY SMTT(40) DEF TypeOK
  <2> QED
    BY <2>1, AppendProperties DEF Callers
<1>2. accepted' \in [Publishers -> Nat]
  <2>1. accepted' = [accepted EXCEPT ![p] = @ + 1]
    BY DEF enqueue
  <2> QED
    BY <2>1 DEF TypeOK
<1>3. CASE sendBuffer(p, q, "send") /\ UNCHANGED scheduled
  <2>1. /\ queue' \in [Publishers -> Seq(Nat)]
        /\ wire' \in Seq(Frame) /\ writing' \in Seq(Call) /\ hung' \in SUBSET Call
        /\ lost' \in [Publishers -> SUBSET Nat]
    BY <1>1, <1>3, SendBufferType
  <2> QED
    BY <1>2, <1>3, <2>1 DEF enqueue, TypeOK, conn
<1>4. CASE /\ queue' = [queue EXCEPT ![p] = q]
           /\ scheduleIfNeeded(p, scheduled[p], q)
           /\ UNCHANGED <<wire, writing, hung, lost>>
  <2>1. queue' \in [Publishers -> Seq(Nat)]
    <3> HIDE DEF q
    <3> QED
      BY <1>1, <1>4 DEF TypeOK
  <2>2. scheduled' \in [Publishers -> BOOLEAN]
    <3>1. scheduled[p] \in BOOLEAN
      BY DEF TypeOK
    <3> HIDE DEF q
    <3> QED
      BY <1>4, <3>1, ScheduleType
  <2> QED
    BY <1>2, <1>4, <2>1, <2>2 DEF enqueue, TypeOK, conn
<1> QED
  BY <1>3, <1>4 DEF enqueue

LEMMA WireLostType ==
  ASSUME TypeOK, WireIsLost
  PROVE  wire' \in Seq(Frame) /\ lost' \in [Publishers -> SUBSET Nat]
<1>1. ASSUME NEW p \in Publishers PROVE OnWire(p) \in SUBSET Nat
  <2>1. ASSUME NEW i \in DOMAIN wire, wire[i].type = "publish"
        PROVE  Elements(wire[i].msgs) \in SUBSET Nat
    <3>1. wire[i] \in Frame
      BY DEF TypeOK
    <3>2. wire[i].msgs \in Seq(Nat)
      BY <2>1, <3>1, ReadFrameType
    <3> QED
      BY <3>2 DEF Elements
  <2> QED
    BY <2>1 DEF OnWire
<1> QED
  BY <1>1 DEF WireIsLost, TypeOK

LEMMA RedeclareType ==
  ASSUME NEW k \in Nat, NEW w \in Seq(Frame), redeclareAfter(k, w)
  PROVE  cursor' \in 0 .. NumPublishers /\ wire' \in Seq(Frame)
<1>1. CASE cursor' = 0 /\ wire' = w
  BY <1>1, PublisherAssumption
<1>2. ASSUME NEW p \in Known, cursor' = p, wire' = Append(w, [type |-> "declare", pub |-> p])
      PROVE  cursor' \in 0 .. NumPublishers /\ wire' \in Seq(Frame)
  <2>1. p \in Publishers
    BY DEF Known
  <2>2. [type |-> "declare", pub |-> p] \in Frame
    BY <2>1, ControlFrameType
  <2> QED
    BY <1>2, <2>1, <2>2, AppendProperties, PublisherAssumption
<1> QED
  BY <1>1, <1>2 DEF redeclareAfter

LEMMA SpendType ==
  ASSUME TypeOK, NEW e \in Events, Spend(e)
  PROVE  used' \in [Events -> Nat]
BY DEF Spend, TypeOK

LEMMA StepType ==
  ASSUME TypeOK, [Next]_vars
  PROVE  TypeOK'
<1> USE DEF client, conn, calls, broker
<1>1. ASSUME NEW p \in Publishers, Send(p) PROVE TypeOK'
  BY <1>1, EnqueueType DEF Send
<1>2. ASSUME NEW p \in Publishers, BasicSend(p) PROVE TypeOK'
  BY <1>2, EnqueueType DEF BasicSend
<1>3. ASSUME NEW p \in Publishers, TimerFires(p) PROVE TypeOK'
  <2>1. queue[p] \in Seq(Nat) /\ "timer" \in Callers
    BY DEF TypeOK, Callers
  <2>2. CASE sendBuffer(p, queue[p], "timer") /\ scheduled' = [scheduled EXCEPT ![p] = FALSE]
    <3>1. /\ queue' \in [Publishers -> Seq(Nat)]
          /\ wire' \in Seq(Frame) /\ writing' \in Seq(Call) /\ hung' \in SUBSET Call
          /\ lost' \in [Publishers -> SUBSET Nat]
      BY <2>1, <2>2, SendBufferType
    <3>2. scheduled' \in [Publishers -> BOOLEAN]
      BY <2>2 DEF TypeOK
    <3> QED
      BY <1>3, <3>1, <3>2 DEF TimerFires, TypeOK
  <2>3. CASE scheduleIfNeeded(p, FALSE, queue[p]) /\ UNCHANGED <<queue, calls, lost>>
    <3>1. scheduled' \in [Publishers -> BOOLEAN]
      BY <2>3, ScheduleType
    <3> QED
      BY <1>3, <2>3, <3>1 DEF TimerFires, TypeOK
  <2> QED
    BY <1>3, <2>2, <2>3 DEF TimerFires
<1>4. ASSUME NEW p \in Publishers, Flush(p) PROVE TypeOK'
  <2>1. queue[p] \in Seq(Nat) /\ "flush" \in Callers
    BY DEF TypeOK, Callers
  <2>2. /\ queue' \in [Publishers -> Seq(Nat)]
        /\ wire' \in Seq(Frame) /\ writing' \in Seq(Call) /\ hung' \in SUBSET Call
        /\ lost' \in [Publishers -> SUBSET Nat]
    BY <1>4, <2>1, SendBufferType DEF Flush
  <2> QED
    BY <1>4, <2>2 DEF Flush, TypeOK
<1>5. ASSUME NEW p \in Publishers, Close(p) PROVE TypeOK'
  <2>1. /\ queue' \in [Publishers -> Seq(Nat)] /\ closed' \in [Publishers -> BOOLEAN]
        /\ refs' \in Int /\ lost' \in [Publishers -> SUBSET Nat]
        /\ wire' \in Seq(Frame) /\ writing' \in Seq(Call) /\ hung' \in SUBSET Call
    BY <1>5, ClosePublisherType DEF Close
  <2>2. used' \in [Events -> Nat]
    BY <1>5, SpendType DEF Close, Events
  <2> QED
    BY <1>5, <2>1, <2>2 DEF Close, closePublisher, TypeOK
<1>6. ASSUME NEW p \in Publishers, DeletePublisher(p) PROVE TypeOK'
  <2>1. [type |-> "delete", pub |-> p] \in Frame
    BY ControlFrameType
  <2>2. wire' \in Seq(Frame)
    BY <1>6, <2>1, AppendProperties DEF DeletePublisher, TypeOK
  <2>3. notice' \in [Publishers -> Notices]
    BY <1>6 DEF DeletePublisher, TypeOK, Notices
  <2>4. used' \in [Events -> Nat]
    BY <1>6, SpendType DEF DeletePublisher, Events
  <2> QED
    BY <1>6, <2>2, <2>3, <2>4 DEF DeletePublisher, TypeOK
<1>7. ASSUME NEW p \in Publishers, ClosedByBroker(p) PROVE TypeOK'
  <2>1. /\ queue' \in [Publishers -> Seq(Nat)] /\ closed' \in [Publishers -> BOOLEAN]
        /\ refs' \in Int /\ lost' \in [Publishers -> SUBSET Nat]
        /\ wire' \in Seq(Frame) /\ writing' \in Seq(Call) /\ hung' \in SUBSET Call
    BY <1>7, ClosePublisherType DEF ClosedByBroker
  <2>2. notice' \in [Publishers -> Notices]
    BY <1>7 DEF ClosedByBroker, TypeOK, Notices
  <2> QED
    BY <1>7, <2>1, <2>2 DEF ClosedByBroker, closePublisher, TypeOK
<1>8. CASE WriteDone
  <2> DEFINE c == Head(writing)
  <2>1. c \in Call /\ writing' \in Seq(Call)
    BY <1>8, HeadTailProperties DEF WriteDone, TypeOK
  <2>2. c.pub \in Publishers
    BY <2>1 DEF Call
  <2>3. CASE scheduleIfNeeded(c.pub, scheduled[c.pub], queue[c.pub]) /\ UNCHANGED <<closed, refs, wire>>
    <3>1. scheduled[c.pub] \in BOOLEAN
      BY <2>2 DEF TypeOK
    <3> HIDE DEF c
    <3>2. scheduled' \in [Publishers -> BOOLEAN]
      BY <2>2, <2>3, <3>1, ScheduleType
    <3> QED
      BY <1>8, <2>1, <2>3, <3>2 DEF WriteDone, TypeOK
  <2>4. CASE UNCHANGED <<scheduled, closed, refs, wire>>
    BY <1>8, <2>1, <2>4 DEF WriteDone, TypeOK
  <2>5. CASE releaseConnection(c.pub) /\ UNCHANGED scheduled
    BY <1>8, <2>1, <2>2, <2>5, ReleaseType DEF WriteDone, TypeOK
  <2> QED
    BY <1>8, <2>3, <2>4, <2>5 DEF WriteDone
<1>9. CASE WriteFails
  <2> DEFINE c == Head(writing)
  <2>1. c \in Call /\ writing' \in Seq(Call)
    BY <1>9, HeadTailProperties DEF WriteFails, TypeOK
  <2>2. c.pub \in Publishers
    BY <2>1 DEF Call
  <2>3. CASE scheduleIfNeeded(c.pub, scheduled[c.pub], queue[c.pub])
    <3>1. scheduled[c.pub] \in BOOLEAN
      BY <2>2 DEF TypeOK
    <3> HIDE DEF c
    <3>2. scheduled' \in [Publishers -> BOOLEAN]
      BY <2>2, <2>3, <3>1, ScheduleType
    <3> QED
      BY <1>9, <2>1, <2>3, <3>2 DEF WriteFails, TypeOK
  <2>4. CASE UNCHANGED scheduled
    BY <1>9, <2>1, <2>4 DEF WriteFails, TypeOK
  <2> QED
    BY <1>9, <2>3, <2>4 DEF WriteFails
<1>10. CASE SocketCloses
  BY <1>10 DEF SocketCloses, TypeOK, SocketStates
<1>11. CASE SocketConnects
  BY <1>11 DEF SocketConnects, TypeOK, SocketStates
<1>12. CASE HandshakeDone
  <2>1. cursor' \in 0 .. NumPublishers /\ wire' \in Seq(Frame)
    BY <1>12, RedeclareType DEF HandshakeDone, TypeOK
  <2> QED
    BY <1>12, <2>1 DEF HandshakeDone, TypeOK, SocketStates
<1>13. CASE Drop
  <2>1. wire' \in Seq(Frame) /\ lost' \in [Publishers -> SUBSET Nat]
    BY <1>13, WireLostType DEF Drop
  <2>2. used' \in [Events -> Nat]
    BY <1>13, SpendType DEF Drop, Events
  <2> QED
    BY SMTT(40), <1>13, <2>1, <2>2, PublisherAssumption DEF Drop, TypeOK, SocketStates
<1>14. CASE Restart
  <2>1. used' \in [Events -> Nat]
    BY SMTT(40), <1>14, SpendType DEF Restart, Events, TypeOK
  <2> QED
    BY <1>14, <2>1 DEF Restart, TypeOK, SocketStates
<1>15. CASE BrokerStores
  <2>1. Head(wire) \in Frame /\ wire' \in Seq(Frame)
    BY SMTT(40), <1>15, HeadTailProperties, SMTT(30), SMTT(30) DEF BrokerStores, BrokerReads, TypeOK
  <2>2. Head(wire).pub \in Publishers /\ Head(wire).msgs \in Seq(Nat)
    BY SMTT(40), <1>15, <2>1, ReadFrameType, SMTT(30) DEF BrokerStores, BrokerReads
  <2>3. CASE stored' = [stored EXCEPT ![Head(wire).pub] = @ \o Head(wire).msgs] /\ UNCHANGED refused
    <3>1. stored[Head(wire).pub] \o Head(wire).msgs \in Seq(Nat)
      BY <2>2, ConcatProperties DEF TypeOK
    <3>2. stored' \in [Publishers -> Seq(Nat)]
      <4> DEFINE p == Head(wire).pub
                 s == stored[p] \o Head(wire).msgs
      <4>1. stored' = [stored EXCEPT ![p] = s] /\ s \in Seq(Nat) /\ p \in Publishers
        BY SMTT(40), <2>2, <2>3, <3>1
      <4> HIDE DEF p, s
      <4> QED
        BY <4>1 DEF TypeOK
    <3> QED
      BY <1>15, <2>1, <2>3, <3>2 DEF BrokerStores, TypeOK
  <2>4. CASE refused' = [refused EXCEPT ![Head(wire).pub] = @ \cup Elements(Head(wire).msgs)] /\ UNCHANGED stored
    <3>1. Elements(Head(wire).msgs) \in SUBSET Nat
      BY <2>2 DEF Elements
    <3>2. refused' \in [Publishers -> SUBSET Nat]
      BY <2>4, <3>1 DEF TypeOK
    <3> QED
      BY <1>15, <2>1, <2>4, <3>2 DEF BrokerStores, TypeOK
  <2> QED
    BY <1>15, <2>3, <2>4 DEF BrokerStores
<1>16. CASE BrokerDeclares
  <2>1. Head(wire) \in Frame /\ Tail(wire) \in Seq(Frame)
    BY <1>16, HeadTailProperties DEF BrokerDeclares, BrokerReads, TypeOK
  <2>2. Head(wire).pub \in Publishers /\ Head(wire).pub \in Nat
    BY <2>1, ReadFrameType, PublisherAssumption
  <2>3. redeclareAfter(Head(wire).pub, Tail(wire))
    BY <1>16 DEF BrokerDeclares
  <2>4. cursor' \in 0 .. NumPublishers /\ wire' \in Seq(Frame)
    BY <2>1, <2>2, <2>3, RedeclareType
  <2> QED
    BY <1>16, <2>2, <2>4 DEF BrokerDeclares, TypeOK
<1>17. CASE BrokerDeletes
  <2>1. Head(wire) \in Frame /\ wire' \in Seq(Frame)
    BY <1>17, HeadTailProperties DEF BrokerDeletes, BrokerReads, TypeOK
  <2>2. notice' \in [Publishers -> Notices]
    BY <1>17 DEF BrokerDeletes, TypeOK, Notices
  <2>3. declared' \in SUBSET Publishers
    BY <1>17 DEF BrokerDeletes, TypeOK
  <2> QED
    BY <1>17, <2>1, <2>2, <2>3 DEF BrokerDeletes, TypeOK
<1>18. CASE BrokerCloses
  <2>1. wire' \in Seq(Frame) /\ lost' \in [Publishers -> SUBSET Nat]
    BY <1>18, WireLostType DEF BrokerCloses
  <2>2. closed' \in [Publishers -> BOOLEAN]
    BY <1>18 DEF BrokerCloses, TypeOK
  <2>3. sock' \in SocketStates /\ declared' \in SUBSET Publishers /\ cursor' \in 0 .. NumPublishers
    BY <1>18, PublisherAssumption DEF BrokerCloses, SocketStates
  <2> QED
    BY <1>18, <2>1, <2>2, <2>3 DEF BrokerCloses, TypeOK
<1>19. CASE MetadataUpdate
  <2>1. notice' \in [Publishers -> Notices]
    BY <1>19 DEF MetadataUpdate, TypeOK, Notices
  <2>2. used' \in [Events -> Nat]
    BY <1>19, SpendType DEF MetadataUpdate, Events
  <2> QED
    BY <1>19, <2>1, <2>2 DEF MetadataUpdate, TypeOK
<1>20. CASE UNCHANGED vars
  BY <1>20 DEF vars, TypeOK
<1> QED
  BY <1>1, <1>2, <1>3, <1>4, <1>5, <1>6, <1>7, <1>8, <1>9, <1>10, <1>11, <1>12, <1>13,
     <1>14, <1>15, <1>16, <1>17, <1>18, <1>19, <1>20 DEF Next, Socket, Broker

(* Every state of the specification is well typed, for any number of       *)
(* publishers, any chunk length and any number of failures.                *)
THEOREM TypeCorrect == Spec => []TypeOK
<1>1. Init => TypeOK
  BY PublisherAssumption
     DEF Init, TypeOK, SocketStates, Notices, Frame, Call, Events
<1>2. TypeOK /\ [Next]_vars => TypeOK'
  BY StepType
<1> QED
  BY <1>1, <1>2, PTL DEF Spec

-----------------------------------------------------------------------------
(* The order of what is stored: OrderInv is inductive.                     *)

(* The wire keeps some of its publish frames, in their order, and gets no  *)
(* new one: it is unchanged, read from, lost or given a control frame.     *)
ChunksShift(d) ==
  \A i \in 1 .. Len(wire') : wire'[i].type = "publish" =>
    i + d \in 1 .. Len(wire) /\ wire'[i] = wire[i + d]

LEMMA PublisherFacts ==
  ASSUME TypeOK, NEW p \in Publishers
  PROVE  /\ accepted[p] \in Nat /\ queue[p] \in Seq(Nat) /\ Len(queue[p]) \in Nat
         /\ stored[p] \in Seq(Nat) /\ Sent(p) \in Int
         /\ \A k \in 1 .. Len(stored[p]) : stored[p][k] \in Nat
<1>1. accepted[p] \in Nat /\ queue[p] \in Seq(Nat) /\ stored[p] \in Seq(Nat)
  BY DEF TypeOK
<1>2. Len(queue[p]) \in Nat
  BY <1>1
<1> QED
  BY <1>1, <1>2 DEF Sent

LEMMA PublisherFactsNext ==
  ASSUME TypeOK', NEW p \in Publishers
  PROVE  accepted'[p] \in Nat /\ Len(queue'[p]) \in Nat /\ Sent(p)' \in Int
<1>1. accepted'[p] \in Nat /\ queue'[p] \in Seq(Nat)
  BY DEF TypeOK
<1>2. Len(queue'[p]) \in Nat
  BY <1>1
<1> QED
  BY <1>1, <1>2 DEF Sent

LEMMA SentIsNat ==
  ASSUME TypeOK, OrderInv, NEW p \in Publishers
  PROVE  Sent(p) \in Nat
<1>1. Len(queue[p]) <= accepted[p]
  BY DEF OrderInv, QueueIsTail
<1> QED
  BY <1>1, PublisherFacts DEF Sent

LEMMA FrameFacts ==
  ASSUME TypeOK, NEW i \in 1 .. Len(wire), wire[i].type = "publish"
  PROVE  wire[i].pub \in Publishers /\ wire[i].msgs \in Seq(Nat)
<1>1. wire[i] \in Frame
  BY DEF TypeOK
<1> QED
  BY <1>1, ReadFrameType

LEMMA ChunkFacts ==
  ASSUME TypeOK, OrderInv, NEW i \in 1 .. Len(wire), wire[i].type = "publish"
  PROVE  /\ IsRun(wire[i].msgs) /\ wire[i].msgs[1] >= 1
         /\ LastOf(wire[i].msgs) <= Sent(wire[i].pub)
         /\ LastOf(wire[i].msgs) \in Int /\ wire[i].msgs[1] \in Nat
<1>1. /\ IsRun(wire[i].msgs) /\ wire[i].msgs[1] >= 1
      /\ LastOf(wire[i].msgs) <= Sent(wire[i].pub)
  BY DEF OrderInv, ChunksAreRuns
<1>2. wire[i].msgs \in Seq(Nat)
  BY FrameFacts
<1>3. Len(wire[i].msgs) >= 1 /\ Len(wire[i].msgs) \in Nat
  BY <1>1, <1>2, PublisherAssumption DEF IsRun
<1>4. wire[i].msgs[1] \in Nat
  BY <1>2, <1>3
<1> QED
  BY <1>1, <1>3, <1>4 DEF LastOf

LEMMA QuietStep ==
  ASSUME TypeOK, TypeOK', OrderInv, UNCHANGED <<accepted, queue, stored>>,
         NEW d \in Nat, ChunksShift(d)
  PROVE  OrderInv'
<1>1. QueueIsTail' /\ StoredWasSent' /\ StoredInOrder'
  BY DEF OrderInv, QueueIsTail, StoredWasSent, StoredInOrder, Sent
<1>2. ChunksAreRuns'
  BY DEF OrderInv, ChunksAreRuns, ChunksShift, Sent
<1>3. WireInOrder'
  <2> SUFFICES ASSUME NEW i \in 1 .. Len(wire'), NEW j \in 1 .. Len(wire'), i < j,
                      wire'[i].type = "publish", wire'[j].type = "publish",
                      wire'[i].pub = wire'[j].pub
               PROVE  LastOf(wire'[i].msgs) < wire'[j].msgs[1]
    BY DEF WireInOrder
  <2>1. /\ i + d \in 1 .. Len(wire) /\ j + d \in 1 .. Len(wire) /\ i + d < j + d
        /\ wire'[i] = wire[i + d] /\ wire'[j] = wire[j + d]
    BY SMTT(40) DEF ChunksShift, TypeOK
  <2> QED
    BY <2>1 DEF OrderInv, WireInOrder
<1>4. StoredBeforeWire'
  BY DEF OrderInv, StoredBeforeWire, ChunksShift
<1> QED
  BY <1>1, <1>2, <1>3, <1>4 DEF OrderInv

(* A chunk popped from the tail q of the accepted messages is the run that *)
(* follows the messages sent before; the lemma serves every sendBuffer.    *)
LEMMA SendBufferOrder ==
  ASSUME TypeOK, TypeOK', OrderInv, UNCHANGED stored,
         NEW p \in Publishers, NEW q \in Seq(Nat), NEW by, sendBuffer(p, q, by),
         \A r \in Publishers : r # p => accepted'[r] = accepted[r],
         Len(q) <= accepted'[p], accepted'[p] - Len(q) = Sent(p),
         \A i \in 1 .. Len(q) : q[i] = Sent(p) + i
  PROVE  OrderInv'
<1> DEFINE n == IF Len(q) < MaxChunkLength THEN Len(q) ELSE MaxChunkLength
           T(r) == accepted'[r] - Len(queue'[r])
<1>1. /\ n \in 1 .. Len(q) /\ n <= MaxChunkLength
      /\ popped(q) \in Seq(Nat) /\ Len(popped(q)) = n
      /\ \A i \in 1 .. n : popped(q)[i] = q[i]
      /\ remaining(q) \in Seq(Nat) /\ Len(remaining(q)) = Len(q) - n
      /\ \A i \in 1 .. Len(q) - n : remaining(q)[i] = q[n + i]
  BY ChunkSplit DEF sendBuffer, NothingToSend
<1>2. queue' = [queue EXCEPT ![p] = remaining(q)]
  BY DEF sendBuffer
<1>3. Sent(p) \in Nat /\ accepted'[p] \in Nat /\ Len(q) \in Nat /\ n \in Nat
  BY <1>1, SentIsNat, PublisherFactsNext
<1> HIDE DEF n
<1>q. /\ queue'[p] = remaining(q)
      /\ \A r \in Publishers : r # p => queue'[r] = queue[r]
  BY <1>2 DEF TypeOK
<1>4. T(p) = Sent(p) + n
  <2>1. T(p) = accepted'[p] - (Len(q) - n)
    BY <1>1, <1>q
  <2> QED
    BY <1>3, <2>1
<1>5. \A r \in Publishers : r # p => T(r) = Sent(r) /\ queue'[r] = queue[r]
  BY <1>q DEF Sent
<1>6. \A r \in Publishers : Sent(r) \in Nat /\ T(r) \in Int /\ Sent(r) <= T(r)
  <2> TAKE r \in Publishers
  <2>1. Sent(r) \in Nat
    BY SentIsNat
  <2>2. CASE r = p
    BY <1>3, <1>4, <2>1, <2>2
  <2>3. CASE r # p
    BY <1>5, <2>1, <2>3
  <2> QED
    BY <2>2, <2>3
<1> HIDE DEF T
<1>7. QueueIsTail'
  <2>1. ASSUME NEW r \in Publishers, r # p
        PROVE  /\ Len(queue'[r]) <= accepted'[r]
               /\ \A i \in 1 .. Len(queue'[r]) : queue'[r][i] = T(r) + i
    BY SMTT(40), <1>5, <2>1 DEF OrderInv, QueueIsTail
  <2>2. queue'[p] = remaining(q)
    BY <1>2 DEF TypeOK
  <2>3. Len(queue'[p]) <= accepted'[p]
    BY SMTT(40), <1>1, <1>3, <2>2
  <2>4. ASSUME NEW i \in 1 .. Len(queue'[p]) PROVE queue'[p][i] = T(p) + i
    <3>1. i \in 1 .. Len(q) - n /\ n + i \in 1 .. Len(q) /\ i \in Nat
      BY <1>1, <1>3, <2>2
    <3>2. remaining(q)[i] = q[n + i] /\ q[n + i] = Sent(p) + (n + i)
      BY <1>1, <3>1
    <3> QED
      BY <1>3, <1>4, <2>2, <3>1, <3>2
  <2> QED
    BY <2>1, <2>3, <2>4 DEF QueueIsTail, Sent, T
<1>8. StoredWasSent'
  <2>1. ASSUME NEW r \in Publishers, NEW k \in 1 .. Len(stored[r])
        PROVE  stored[r][k] <= T(r)
    <3>1. stored[r][k] <= Sent(r) /\ stored[r][k] \in Nat
      BY PublisherFacts DEF OrderInv, StoredWasSent
    <3> QED
      BY SMTT(40), <1>6, <3>1
  <2> QED
    BY <2>1 DEF StoredWasSent, Sent, T
<1>9. StoredInOrder'
  BY DEF OrderInv, StoredInOrder
<1>10. CASE wire' = wire
  <2>1. ChunksAreRuns'
    <3> SUFFICES ASSUME NEW i \in 1 .. Len(wire), wire[i].type = "publish"
                 PROVE  /\ IsRun(wire[i].msgs) /\ wire[i].msgs[1] >= 1
                        /\ LastOf(wire[i].msgs) <= T(wire[i].pub)
      BY <1>10 DEF ChunksAreRuns, Sent, T
    <3>1. /\ IsRun(wire[i].msgs) /\ wire[i].msgs[1] >= 1
          /\ LastOf(wire[i].msgs) <= Sent(wire[i].pub) /\ LastOf(wire[i].msgs) \in Int
      BY ChunkFacts
    <3>2. wire[i].pub \in Publishers
      BY FrameFacts
    <3> QED
      BY SMTT(40), <1>6, <3>1, <3>2
  <2>2. WireInOrder' /\ StoredBeforeWire'
    BY <1>10 DEF OrderInv, WireInOrder, StoredBeforeWire
  <2> QED
    BY <1>7, <1>8, <1>9, <2>1, <2>2 DEF OrderInv
<1>11. CASE wire' = Append(wire, [type |-> "publish", pub |-> p, msgs |-> popped(q)])
  <2> DEFINE m == popped(q)
             last == Len(wire) + 1
  <2>1. /\ Len(wire') = last /\ last \in Nat
        /\ \A i \in 1 .. Len(wire) : wire'[i] = wire[i]
        /\ wire'[last].type = "publish" /\ wire'[last].pub = p /\ wire'[last].msgs = m
    BY <1>11 DEF TypeOK
  <2>2. /\ Len(m) = n /\ m[1] = Sent(p) + 1 /\ LastOf(m) = T(p)
        /\ \A k \in 1 .. Len(m) : m[k] = m[1] + k - 1
    <3> HIDE DEF m
    <3>1. Len(m) = n
      BY <1>1 DEF m
    <3>2. ASSUME NEW k \in 1 .. n PROVE m[k] = Sent(p) + k
      <4>1. k \in 1 .. Len(q)
        BY <1>1, <1>3
      <4>2. m[k] = q[k]
        BY <1>1 DEF m
      <4> QED
        BY <4>1, <4>2
    <3>3. m[1] = Sent(p) + 1
      BY <1>1, <1>3, <3>2
    <3>4. \A k \in 1 .. Len(m) : m[k] = m[1] + k - 1
      BY <1>3, <3>1, <3>2, <3>3
    <3> QED
      BY <1>3, <1>4, <3>1, <3>3, <3>4 DEF LastOf
  <2>3. IsRun(m) /\ m[1] >= 1 /\ LastOf(m) <= T(p)
    <3> HIDE DEF m
    <3> QED
      BY SMTT(40), <1>1, <1>3, <1>4, <2>2, PublisherAssumption DEF IsRun
  <2> HIDE DEF m, last
  <2>4. ASSUME NEW i \in 1 .. Len(wire), wire[i].type = "publish"
        PROVE  /\ IsRun(wire[i].msgs) /\ wire[i].msgs[1] >= 1
               /\ LastOf(wire[i].msgs) <= Sent(wire[i].pub)
               /\ LastOf(wire[i].msgs) <= T(wire[i].pub)
               /\ LastOf(wire[i].msgs) \in Int /\ wire[i].pub \in Publishers
    <3>1. /\ IsRun(wire[i].msgs) /\ wire[i].msgs[1] >= 1
          /\ LastOf(wire[i].msgs) <= Sent(wire[i].pub) /\ LastOf(wire[i].msgs) \in Int
      BY <2>4, ChunkFacts
    <3>2. wire[i].pub \in Publishers
      BY <2>4, FrameFacts
    <3> QED
      BY <1>6, <3>1, <3>2
  <2>5. \A i \in 1 .. Len(wire') : i = last \/ (i \in 1 .. Len(wire) /\ i < last)
    BY <2>1 DEF last, TypeOK
  <2>6. ChunksAreRuns'
    BY <2>1, <2>3, <2>4, <2>5 DEF ChunksAreRuns, Sent, T
  <2>7. WireInOrder'
    <3> SUFFICES ASSUME NEW i \in 1 .. Len(wire'), NEW j \in 1 .. Len(wire'), i < j,
                        wire'[i].type = "publish", wire'[j].type = "publish",
                        wire'[i].pub = wire'[j].pub
                 PROVE  LastOf(wire'[i].msgs) < wire'[j].msgs[1]
      BY DEF WireInOrder
    <3>1. CASE j = last
      <4>1. i \in 1 .. Len(wire) /\ wire[i].pub = p /\ wire[i].type = "publish"
        BY <2>1, <2>5, <3>1
      <4>2. LastOf(wire[i].msgs) <= Sent(p) /\ LastOf(wire[i].msgs) \in Int
        BY <2>4, <4>1
      <4>3. wire'[i] = wire[i] /\ wire'[j].msgs[1] = Sent(p) + 1
        BY <2>1, <2>2, <3>1, <4>1
      <4> QED
        BY <1>3, <4>2, <4>3
    <3>2. CASE j # last
      <4>1. i \in 1 .. Len(wire) /\ j \in 1 .. Len(wire)
        BY <2>1, <2>5, <3>2
      <4> QED
        BY ZenonT(40), <2>1, <4>1 DEF OrderInv, WireInOrder
    <3> QED
      BY <3>1, <3>2
  <2>8. StoredBeforeWire'
    <3> SUFFICES ASSUME NEW i \in 1 .. Len(wire'), wire'[i].type = "publish",
                        NEW k \in 1 .. Len(stored[wire'[i].pub])
                 PROVE  stored[wire'[i].pub][k] < wire'[i].msgs[1]
      BY DEF StoredBeforeWire
    <3>1. CASE i = last
      <4>1. stored[p][k] <= Sent(p) /\ stored[p][k] \in Nat
        BY <2>1, <3>1, PublisherFacts DEF OrderInv, StoredWasSent
      <4>2. wire'[i].pub = p /\ wire'[i].msgs[1] = Sent(p) + 1
        BY <2>1, <2>2, <3>1
      <4> QED
        BY SMTT(40), <1>3, <4>1, <4>2
    <3>2. CASE i # last
      <4>1. i \in 1 .. Len(wire)
        BY <2>5, <3>2
      <4> QED
        BY <2>1, <4>1 DEF OrderInv, StoredBeforeWire
    <3> QED
      BY <3>1, <3>2
  <2> QED
    BY <1>7, <1>8, <1>9, <2>6, <2>7, <2>8 DEF OrderInv
<1> QED
  BY <1>10, <1>11 DEF sendBuffer

LEMMA EnqueueOrder ==
  ASSUME TypeOK, TypeOK', OrderInv, NEW p \in Publishers, enqueue(p)
  PROVE  OrderInv'
<1> DEFINE q == Append(queue[p], accepted[p] + 1)
<1>1. /\ accepted[p] \in Nat /\ queue[p] \in Seq(Nat) /\ Len(queue[p]) \in Nat
      /\ Len(queue[p]) <= accepted[p]
      /\ \A i \in 1 .. Len(queue[p]) : queue[p][i] = Sent(p) + i
      /\ Sent(p) = accepted[p] - Len(queue[p])
  BY PublisherFacts DEF OrderInv, QueueIsTail, Sent
<1>2. /\ q \in Seq(Nat) /\ Len(q) = Len(queue[p]) + 1
      /\ \A i \in 1 .. Len(queue[p]) : q[i] = queue[p][i]
      /\ q[Len(queue[p]) + 1] = accepted[p] + 1
  BY <1>1, AppendProperties
<1>3. accepted' = [accepted EXCEPT ![p] = @ + 1] /\ UNCHANGED stored
  BY DEF enqueue
<1> HIDE DEF q
<1>4. /\ accepted'[p] = accepted[p] + 1
      /\ \A r \in Publishers : r # p => accepted'[r] = accepted[r]
  BY <1>3 DEF TypeOK
<1>5. \A i \in 1 .. Len(q) : q[i] = Sent(p) + i
  <2> TAKE i \in 1 .. Len(q)
  <2>1. CASE i \in 1 .. Len(queue[p])
    BY <1>1, <1>2, <2>1
  <2>2. CASE i = Len(queue[p]) + 1
    BY <1>1, <1>2, <2>2
  <2> QED
    BY <1>1, <1>2, <2>1, <2>2
<1>6. Len(q) <= accepted'[p] /\ accepted'[p] - Len(q) = Sent(p)
  BY SMTT(40), <1>1, <1>2, <1>4
<1>7. CASE sendBuffer(p, q, "send")
  BY <1>2, <1>3, <1>4, <1>5, <1>6, <1>7, SendBufferOrder
<1>8. CASE queue' = [queue EXCEPT ![p] = q] /\ wire' = wire
  <2>1. queue'[p] = q /\ \A r \in Publishers : r # p => queue'[r] = queue[r]
    BY <1>8 DEF TypeOK
  <2>2. ASSUME NEW r \in Publishers
        PROVE  accepted'[r] - Len(queue'[r]) = accepted[r] - Len(queue[r])
    <3>1. CASE r = p
      BY <1>1, <1>6, <2>1, <3>1
    <3>2. CASE r # p
      BY <1>4, <2>1, <3>2
    <3> QED
      BY <3>1, <3>2
  <2>3. QueueIsTail'
    <3> SUFFICES ASSUME NEW r \in Publishers
                 PROVE  /\ Len(queue'[r]) <= accepted'[r]
                        /\ \A i \in 1 .. Len(queue'[r]) :
                             queue'[r][i] = accepted'[r] - Len(queue'[r]) + i
      BY DEF QueueIsTail, Sent
    <3>1. CASE r = p
      BY <1>1, <1>5, <1>6, <2>1, <3>1
    <3>2. CASE r # p
      BY <1>4, <2>1, <3>2 DEF OrderInv, QueueIsTail, Sent
    <3> QED
      BY <3>1, <3>2
  <2>4. ChunksAreRuns'
    <3> SUFFICES ASSUME NEW i \in 1 .. Len(wire), wire[i].type = "publish"
                 PROVE  /\ IsRun(wire[i].msgs) /\ wire[i].msgs[1] >= 1
                        /\ LastOf(wire[i].msgs)
                             <= accepted'[wire[i].pub] - Len(queue'[wire[i].pub])
      BY <1>8 DEF ChunksAreRuns, Sent
    <3> QED
      BY <2>2, ChunkFacts, FrameFacts DEF Sent
  <2>5. StoredWasSent'
    BY <1>3, <2>2 DEF OrderInv, StoredWasSent, Sent
  <2>6. WireInOrder' /\ StoredBeforeWire' /\ StoredInOrder'
    BY <1>3, <1>8 DEF OrderInv, WireInOrder, StoredBeforeWire, StoredInOrder
  <2> QED
    BY <2>3, <2>4, <2>5, <2>6 DEF OrderInv
<1> QED
  BY <1>7, <1>8 DEF enqueue, q

(* sendBuffer on the whole queue: from a timer, flush or close.            *)
LEMMA FlushOrder ==
  ASSUME TypeOK, TypeOK', OrderInv, UNCHANGED <<accepted, stored>>,
         NEW p \in Publishers, NEW by, sendBuffer(p, queue[p], by)
  PROVE  OrderInv'
<1>1. queue[p] \in Seq(Nat) /\ accepted' = accepted
  BY DEF TypeOK
<1>2. /\ Len(queue[p]) <= accepted'[p] /\ accepted'[p] - Len(queue[p]) = Sent(p)
      /\ \A i \in 1 .. Len(queue[p]) : queue[p][i] = Sent(p) + i
  BY <1>1 DEF OrderInv, QueueIsTail, Sent
<1> QED
  BY <1>1, <1>2, SendBufferOrder

LEMMA ShiftSame ==
  ASSUME TypeOK, UNCHANGED wire \/ wire' = <<>>
  PROVE  ChunksShift(0)
BY DEF ChunksShift, TypeOK

LEMMA ShiftTail ==
  ASSUME TypeOK, wire # <<>>, wire' = Tail(wire)
  PROVE  ChunksShift(1)
BY HeadTailProperties DEF ChunksShift, TypeOK

LEMMA ShiftControl ==
  ASSUME TypeOK, NEW t \in {"declare", "delete", "close"}, NEW p \in Publishers,
         NEW w \in Seq(Frame), wire' = Append(w, [type |-> t, pub |-> p]),
         NEW d \in Nat, \A i \in 1 .. Len(w) : i + d \in 1 .. Len(wire) /\ w[i] = wire[i + d]
  PROVE  ChunksShift(d)
<1> DEFINE f == [type |-> t, pub |-> p]
<1>1. f \in Frame /\ f.type # "publish"
  BY ControlFrameType
<1> HIDE DEF f
<1>2. /\ Len(wire') = Len(w) + 1 /\ wire'[Len(w) + 1] = f
      /\ \A i \in 1 .. Len(w) : wire'[i] = w[i]
  BY <1>1, AppendProperties DEF f
<1>3. ASSUME NEW i \in 1 .. Len(wire'), wire'[i].type = "publish"
      PROVE  i + d \in 1 .. Len(wire) /\ wire'[i] = wire[i + d]
  <2>1. i # Len(w) + 1
    BY <1>1, <1>2, <1>3
  <2>2. i \in 1 .. Len(w)
    BY <1>2, <2>1, LenProperties
  <2> QED
    BY <1>2, <2>2
<1> QED
  BY <1>3 DEF ChunksShift

LEMMA ShiftControlSame ==
  ASSUME TypeOK, NEW t \in {"declare", "delete", "close"}, NEW p \in Publishers,
         wire' = Append(wire, [type |-> t, pub |-> p])
  PROVE  ChunksShift(0)
<1>1. wire \in Seq(Frame) /\ \A i \in 1 .. Len(wire) : i + 0 = i
  BY DEF TypeOK
<1> QED
  BY <1>1, ShiftControl

LEMMA ReleaseOrder ==
  ASSUME TypeOK, TypeOK', OrderInv, UNCHANGED <<accepted, queue, stored>>,
         NEW p \in Publishers, releaseConnection(p)
  PROVE  OrderInv'
<1>1. ChunksShift(0)
  BY ShiftSame, ShiftControlSame DEF releaseConnection
<1> QED
  BY <1>1, QuietStep

LEMMA CloseOrder ==
  ASSUME TypeOK, TypeOK', OrderInv, NEW p \in Publishers, closePublisher(p)
  PROVE  OrderInv'
<1>1. UNCHANGED <<accepted, stored>>
  BY DEF closePublisher
<1>2. CASE UNCHANGED <<queue, closed, refs, calls, lost>>
  BY <1>1, <1>2, ShiftSame, QuietStep DEF calls
<1>3. CASE sendBuffer(p, queue[p], "close")
  BY <1>1, <1>3, FlushOrder
<1>4. CASE releaseConnection(p) /\ UNCHANGED <<queue, writing, hung, lost>>
  BY <1>1, <1>4, ReleaseOrder
<1> QED
  BY <1>2, <1>3, <1>4 DEF closePublisher

LEMMA RedeclareOrder ==
  ASSUME TypeOK, TypeOK', OrderInv, UNCHANGED <<accepted, queue, stored>>,
         NEW k, NEW w \in Seq(Frame), redeclareAfter(k, w),
         NEW d \in Nat, \A i \in 1 .. Len(w) : i + d \in 1 .. Len(wire) /\ w[i] = wire[i + d]
  PROVE  OrderInv'
<1>1. CASE wire' = w
  BY <1>1, QuietStep DEF ChunksShift
<1>2. ASSUME NEW p \in Known, wire' = Append(w, [type |-> "declare", pub |-> p])
      PROVE  OrderInv'
  <2>1. p \in Publishers
    BY DEF Known
  <2> QED
    BY <1>2, <2>1, ShiftControl, QuietStep
<1> QED
  BY <1>1, <1>2 DEF redeclareAfter

LEMMA RunFacts ==
  ASSUME NEW m \in Seq(Nat), IsRun(m)
  PROVE  /\ m[1] \in Nat /\ LastOf(m) \in Int
         /\ \A k \in 1 .. Len(m) :
              m[k] = m[1] + k - 1 /\ m[k] \in Nat /\ m[1] <= m[k] /\ m[k] <= LastOf(m)
<1>1. Len(m) \in Nat /\ Len(m) >= 1
  BY PublisherAssumption DEF IsRun
<1>2. m[1] \in Nat
  BY <1>1
<1>3. ASSUME NEW k \in 1 .. Len(m)
      PROVE  m[k] = m[1] + k - 1 /\ m[k] \in Nat /\ m[1] <= m[k] /\ m[k] <= LastOf(m)
  <2>1. m[k] = m[1] + k - 1
    BY DEF IsRun
  <2> QED
    BY SMTT(40), <1>1, <1>2, <2>1 DEF LastOf
<1> QED
  BY <1>1, <1>2, <1>3 DEF LastOf

LEMMA ConcatFacts ==
  ASSUME NEW s \in Seq(Nat), NEW m \in Seq(Nat)
  PROVE  /\ Len(s \o m) = Len(s) + Len(m)
         /\ \A k \in 1 .. Len(s) : (s \o m)[k] = s[k]
         /\ \A k \in 1 .. Len(m) : (s \o m)[Len(s) + k] = m[k]
         /\ \A k \in 1 .. Len(s \o m) :
              k \in 1 .. Len(s) \/ \E h \in 1 .. Len(m) : k = Len(s) + h
<1>1. /\ Len(s) \in Nat /\ Len(m) \in Nat /\ Len(s \o m) = Len(s) + Len(m)
      /\ \A i \in 1 .. Len(s) + Len(m) :
           (s \o m)[i] = IF i <= Len(s) THEN s[i] ELSE m[i - Len(s)]
  BY ConcatProperties
<1>2. ASSUME NEW k \in 1 .. Len(s) PROVE (s \o m)[k] = s[k]
  BY <1>1
<1>3. ASSUME NEW k \in 1 .. Len(m) PROVE (s \o m)[Len(s) + k] = m[k]
  <2>1. /\ Len(s) + k \in 1 .. Len(s) + Len(m) /\ ~(Len(s) + k <= Len(s))
        /\ (Len(s) + k) - Len(s) = k
    BY <1>1
  <2> QED
    BY <1>1, <2>1
<1>4. ASSUME NEW k \in 1 .. Len(s \o m)
      PROVE  k \in 1 .. Len(s) \/ \E h \in 1 .. Len(m) : k = Len(s) + h
  <2>1. CASE k <= Len(s)
    BY <1>1, <2>1
  <2>2. CASE k > Len(s)
    <3>1. k - Len(s) \in 1 .. Len(m) /\ k = Len(s) + (k - Len(s))
      BY <1>1, <2>2
    <3> QED
      BY <3>1
  <2> QED
    BY <1>1, <2>1, <2>2
<1> QED
  BY <1>1, <1>2, <1>3, <1>4

LEMMA Transitive ==
  ASSUME NEW a \in Int, NEW b \in Int, NEW c \in Int
  PROVE  /\ a <= b /\ b < c => a < c
         /\ a < b /\ b <= c => a < c
         /\ a <= b /\ b <= c => a <= c
OBVIOUS

(* The broker appends the first chunk on the wire: it follows what is      *)
(* stored and precedes the other chunks of its publisher.                  *)
LEMMA StoreOrder ==
  ASSUME TypeOK, TypeOK', OrderInv, UNCHANGED <<accepted, queue>>,
         wire # <<>>, wire' = Tail(wire),
         NEW p \in Publishers, NEW m \in Seq(Nat), NEW old \in Seq(Nat),
         wire[1].type = "publish", wire[1].pub = p, wire[1].msgs = m,
         stored[p] = old, stored' = [stored EXCEPT ![p] = old \o m]
  PROVE  OrderInv'
<1>1. /\ 1 \in 1 .. Len(wire) /\ Len(wire) \in Nat
      /\ Len(wire') = Len(wire) - 1
      /\ \A i \in 1 .. Len(wire') : i + 1 \in 1 .. Len(wire) /\ wire'[i] = wire[i + 1]
  BY HeadTailProperties DEF TypeOK
<1>2. /\ IsRun(m) /\ m[1] >= 1 /\ m[1] \in Int
      /\ LastOf(m) <= Sent(p) /\ LastOf(m) \in Int
  <2> DEFINE f == wire[1]
  <2>1. /\ IsRun(f.msgs) /\ f.msgs[1] >= 1 /\ LastOf(f.msgs) <= Sent(f.pub)
        /\ LastOf(f.msgs) \in Int /\ f.msgs[1] \in Nat
    BY <1>1, ChunkFacts, Zenon
  <2>2. f.msgs = m /\ f.pub = p
    OBVIOUS
  <2> HIDE DEF f
  <2> QED
    BY <2>1, <2>2
<1>3. Len(old) \in Nat /\ Len(m) \in Nat
  OBVIOUS
<1>4. stored'[p] = old \o m /\ \A r \in Publishers : r # p => stored'[r] = stored[r]
  BY DEF TypeOK
<1>5. /\ Len(stored'[p]) = Len(old) + Len(m)
      /\ \A k \in 1 .. Len(old) : stored'[p][k] = old[k]
      /\ \A k \in 1 .. Len(m) : stored'[p][Len(old) + k] = m[k]
      /\ \A k \in 1 .. Len(stored'[p]) :
           k \in 1 .. Len(old) \/ \E h \in 1 .. Len(m) : k = Len(old) + h
  BY SMTT(40), <1>4, ConcatFacts
<1>6. \A k \in 1 .. Len(m) : m[k] = m[1] + k - 1 /\ m[k] \in Int /\ m[1] <= m[k] /\ m[k] <= LastOf(m)
  BY SMTT(40), <1>2, RunFacts
<1>7. \A k \in 1 .. Len(old) : old[k] \in Int /\ old[k] < m[1] /\ old[k] <= Sent(p)
  <2> TAKE k \in 1 .. Len(old)
  <2>1. old[k] \in Int
    OBVIOUS
  <2>2. old[k] < m[1]
    BY <1>1 DEF OrderInv, StoredBeforeWire
  <2>3. old[k] <= Sent(p)
    BY DEF OrderInv, StoredWasSent
  <2> QED
    BY <2>1, <2>2, <2>3
<1>8. QueueIsTail'
  BY DEF OrderInv, QueueIsTail, Sent
<1>9. ChunksAreRuns'
  BY <1>1 DEF OrderInv, ChunksAreRuns, Sent
<1>10. WireInOrder'
  <2> SUFFICES ASSUME NEW i \in 1 .. Len(wire'), NEW j \in 1 .. Len(wire'), i < j,
                      wire'[i].type = "publish", wire'[j].type = "publish",
                      wire'[i].pub = wire'[j].pub
               PROVE  LastOf(wire'[i].msgs) < wire'[j].msgs[1]
    BY DEF WireInOrder
  <2>1. /\ i + 1 \in 1 .. Len(wire) /\ j + 1 \in 1 .. Len(wire) /\ i + 1 < j + 1
        /\ wire'[i] = wire[i + 1] /\ wire'[j] = wire[j + 1]
    BY <1>1
  <2> QED
    BY <2>1 DEF OrderInv, WireInOrder
<1>11. StoredBeforeWire'
  <2> SUFFICES ASSUME NEW i \in 1 .. Len(wire'), wire'[i].type = "publish",
                      NEW k \in 1 .. Len(stored'[wire'[i].pub])
               PROVE  stored'[wire'[i].pub][k] < wire'[i].msgs[1]
    BY DEF StoredBeforeWire
  <2>1. i + 1 \in 1 .. Len(wire) /\ wire'[i] = wire[i + 1] /\ 1 < i + 1
    BY <1>1
  <2>2. wire[i + 1].pub \in Publishers /\ wire[i + 1].msgs[1] \in Int
    BY SMTT(40), <2>1, FrameFacts, ChunkFacts
  <2>3. CASE wire'[i].pub = p
    <3>1. LastOf(m) < wire[i + 1].msgs[1]
      BY <1>1, <2>1, <2>3 DEF OrderInv, WireInOrder
    <3>2. CASE k \in 1 .. Len(old)
      <4>1. stored'[p][k] = stored[p][k]
        BY <1>5, <3>2
      <4>2. wire[i + 1].type = "publish" /\ wire[i + 1].pub = p
        BY <2>1, <2>3
      <4>3. stored[p][k] < wire[i + 1].msgs[1]
        BY <2>1, <3>2, <4>2 DEF OrderInv, StoredBeforeWire
      <4> QED
        BY <2>1, <2>3, <4>1, <4>3
    <3>3. ASSUME NEW h \in 1 .. Len(m), k = Len(old) + h
          PROVE  stored'[wire'[i].pub][k] < wire'[i].msgs[1]
      <4>1. stored'[p][k] = m[h] /\ m[h] \in Int /\ m[h] <= LastOf(m)
        BY <1>5, <1>6, <3>3
      <4>2. m[h] < wire[i + 1].msgs[1]
        BY <1>2, <2>2, <3>1, <4>1, Transitive
      <4>3. stored'[wire'[i].pub][k] = m[h] /\ wire'[i].msgs[1] = wire[i + 1].msgs[1]
        BY <2>1, <2>3, <4>1, Zenon
      <4> QED
        BY <4>2, <4>3, Zenon
    <3>4. k \in 1 .. Len(stored'[p])
      BY <2>3, Zenon
    <3> QED
      BY <1>5, <3>2, <3>3, <3>4, Zenon
  <2>4. CASE wire'[i].pub # p
    BY ZenonT(40), <1>4, <2>1, <2>2, <2>4 DEF OrderInv, StoredBeforeWire
  <2> QED
    BY <2>3, <2>4
<1>12. StoredWasSent'
  <2> SUFFICES ASSUME NEW r \in Publishers, NEW k \in 1 .. Len(stored'[r])
               PROVE  stored'[r][k] <= accepted[r] - Len(queue[r])
    BY DEF StoredWasSent, Sent
  <2>1. CASE r # p
    BY <1>4, <2>1 DEF OrderInv, StoredWasSent, Sent
  <2>2. CASE r = p
    <3>1. CASE k \in 1 .. Len(old)
      BY <1>5, <1>7, <2>2, <3>1 DEF Sent
    <3>2. ASSUME NEW h \in 1 .. Len(m), k = Len(old) + h
          PROVE  stored'[r][k] <= accepted[r] - Len(queue[r])
      <4>1. stored'[p][k] = m[h] /\ m[h] \in Int /\ m[h] <= LastOf(m)
        BY <1>5, <1>6, <3>2
      <4>2. m[h] <= Sent(p)
        BY <1>2, <4>1, PublisherFacts, Transitive
      <4>3. m[h] <= accepted[p] - Len(queue[p])
        BY <4>2, Zenon DEF Sent
      <4> QED
        BY <2>2, <4>1, <4>3, Zenon
    <3>3. k \in 1 .. Len(stored'[p])
      BY <2>2, Zenon
    <3> QED
      BY <1>5, <3>1, <3>2, <3>3, Zenon
  <2> QED
    BY <2>1, <2>2
<1>13. StoredInOrder'
  <2> SUFFICES ASSUME NEW r \in Publishers, NEW i \in DOMAIN stored'[r],
                      NEW j \in DOMAIN stored'[r], i < j
               PROVE  stored'[r][i] < stored'[r][j]
    BY DEF StoredInOrder
  <2>1. CASE r # p
    BY <1>4, <2>1 DEF OrderInv, StoredInOrder
  <2>2. CASE r = p
    <3>1. i \in 1 .. Len(stored'[p]) /\ j \in 1 .. Len(stored'[p]) /\ i \in Nat /\ j \in Nat
      <4>1. stored'[p] \in Seq(Nat)
        BY DEF TypeOK
      <4> QED
        BY <2>2, <4>1
    <3>2. CASE i \in 1 .. Len(old) /\ j \in 1 .. Len(old)
      <4>1. old[i] < old[j]
        BY SMTT(40), <1>3, <3>2 DEF OrderInv, StoredInOrder
      <4> QED
        BY <1>5, <2>2, <3>2, <4>1
    <3>3. ASSUME NEW h \in 1 .. Len(m), j = Len(old) + h, i \in 1 .. Len(old)
          PROVE  stored'[r][i] < stored'[r][j]
      <4>1. /\ stored'[p][i] = old[i] /\ stored'[p][j] = m[h]
            /\ old[i] \in Int /\ old[i] < m[1] /\ m[1] <= m[h] /\ m[h] \in Int
        BY <1>5, <1>6, <1>7, <3>3
      <4>2. old[i] < m[h]
        BY <1>2, <4>1, Transitive
      <4> QED
        BY <2>2, <4>1, <4>2
    <3>4. ASSUME NEW h \in 1 .. Len(m), j = Len(old) + h,
                 NEW g \in 1 .. Len(m), i = Len(old) + g
          PROVE  stored'[r][i] < stored'[r][j]
      <4>1. stored'[p][i] = m[1] + g - 1 /\ stored'[p][j] = m[1] + h - 1
        <5>1. stored'[p][i] = m[g] /\ stored'[p][j] = m[h]
          BY <1>5, <3>4, Zenon
        <5>2. m[g] = m[1] + g - 1 /\ m[h] = m[1] + h - 1
          BY <1>2 DEF IsRun
        <5> QED
          BY <5>1, <5>2, Zenon
      <4>2. g < h
        BY <1>3, <3>4
      <4>3. m[1] + g - 1 < m[1] + h - 1
        BY SMTT(40), <1>2, <1>3, <4>2
      <4> QED
        BY <2>2, <4>1, <4>3, Zenon
    <3>5. ASSUME NEW g \in 1 .. Len(m), i = Len(old) + g, j \in 1 .. Len(old) PROVE FALSE
      BY <1>3, <3>5
    <3>6. /\ i \in 1 .. Len(old) \/ \E g \in 1 .. Len(m) : i = Len(old) + g
          /\ j \in 1 .. Len(old) \/ \E h \in 1 .. Len(m) : j = Len(old) + h
      BY <1>5, <3>1, Zenon
    <3> QED
      BY <3>2, <3>3, <3>4, <3>5, <3>6, Zenon
  <2> QED
    BY <2>1, <2>2
<1> QED
  BY <1>8, <1>9, <1>10, <1>11, <1>12, <1>13 DEF OrderInv

LEMMA BrokerStoresOrder ==
  ASSUME TypeOK, TypeOK', OrderInv, BrokerStores
  PROVE  OrderInv'
<1> DEFINE p == wire[1].pub
<1>1. wire # <<>> /\ wire' = Tail(wire) /\ Head(wire) = wire[1] /\ wire[1].type = "publish"
  BY SMTT(30), SMTT(30) DEF BrokerStores, BrokerReads, TypeOK
<1>2. UNCHANGED <<accepted, queue>>
  BY DEF BrokerStores, client
<1>3. 1 \in 1 .. Len(wire)
  BY <1>1 DEF TypeOK
<1>4. p \in Publishers /\ wire[1].msgs \in Seq(Nat)
  BY <1>1, <1>3, FrameFacts
<1>5. stored[p] \in Seq(Nat)
  BY <1>4, PublisherFacts
<1>6. CASE UNCHANGED stored
  BY <1>1, <1>2, <1>6, ShiftTail, QuietStep
<1>7. CASE stored' = [stored EXCEPT ![wire[1].pub] = @ \o wire[1].msgs]
  BY <1>1, <1>2, <1>4, <1>5, <1>7, StoreOrder
<1> QED
  BY <1>1, <1>6, <1>7 DEF BrokerStores

LEMMA StepOrder ==
  ASSUME TypeOK, TypeOK', OrderInv, [Next]_vars
  PROVE  OrderInv'
<1> USE DEF client, conn, calls, broker
<1>1. ASSUME NEW p \in Publishers, Send(p) PROVE OrderInv'
  BY <1>1, EnqueueOrder DEF Send
<1>2. ASSUME NEW p \in Publishers, BasicSend(p) PROVE OrderInv'
  BY <1>2, EnqueueOrder DEF BasicSend
<1>3. ASSUME NEW p \in Publishers, TimerFires(p) PROVE OrderInv'
  <2>1. CASE sendBuffer(p, queue[p], "timer")
    BY <1>3, <2>1, FlushOrder DEF TimerFires
  <2>2. CASE UNCHANGED <<queue, wire, writing, hung, lost>>
    BY <1>3, <2>2, ShiftSame, QuietStep DEF TimerFires
  <2> QED
    BY <1>3, <2>1, <2>2 DEF TimerFires
<1>4. ASSUME NEW p \in Publishers, Flush(p) PROVE OrderInv'
  BY <1>4, FlushOrder DEF Flush
<1>5. ASSUME NEW p \in Publishers, Close(p) PROVE OrderInv'
  BY <1>5, CloseOrder DEF Close
<1>6. ASSUME NEW p \in Publishers, DeletePublisher(p) PROVE OrderInv'
  BY <1>6, ShiftControlSame, QuietStep DEF DeletePublisher
<1>7. ASSUME NEW p \in Publishers, ClosedByBroker(p) PROVE OrderInv'
  BY <1>7, CloseOrder DEF ClosedByBroker
<1>8. CASE WriteDone
  <2>1. writing # <<>> /\ UNCHANGED <<accepted, queue, stored>>
    BY <1>8 DEF WriteDone
  <2>2. Head(writing) \in Call
    BY <2>1, HeadTailProperties DEF TypeOK
  <2>3. Head(writing).pub \in Publishers
    BY <2>2 DEF Call
  <2>4. CASE UNCHANGED wire
    BY <2>1, <2>4, ShiftSame, QuietStep
  <2>5. CASE releaseConnection(Head(writing).pub)
    BY <2>1, <2>3, <2>5, ReleaseOrder
  <2> QED
    BY <1>8, <2>4, <2>5 DEF WriteDone
<1>9. CASE WriteFails
  BY <1>9, ShiftSame, QuietStep DEF WriteFails
<1>10. CASE SocketCloses
  BY <1>10, ShiftSame, QuietStep DEF SocketCloses
<1>11. CASE SocketConnects
  BY <1>11, ShiftSame, QuietStep DEF SocketConnects
<1>12. CASE HandshakeDone
  <2>1. redeclareAfter(0, wire) /\ UNCHANGED <<accepted, queue, stored>>
    BY <1>12 DEF HandshakeDone
  <2>2. wire \in Seq(Frame) /\ \A i \in 1 .. Len(wire) : i + 0 \in 1 .. Len(wire) /\ wire[i] = wire[i + 0]
    BY DEF TypeOK
  <2> QED
    BY <2>1, <2>2, RedeclareOrder
<1>13. CASE Drop
  BY <1>13, ShiftSame, QuietStep DEF Drop, WireIsLost
<1>14. CASE Restart
  BY <1>14, ShiftSame, QuietStep DEF Restart
<1>15. CASE BrokerStores
  BY <1>15, BrokerStoresOrder
<1>16. CASE BrokerDeclares
  <2>1. /\ wire # <<>> /\ UNCHANGED <<accepted, queue, stored>>
        /\ redeclareAfter(Head(wire).pub, Tail(wire))
    BY <1>16 DEF BrokerDeclares, BrokerReads
  <2>2. /\ Tail(wire) \in Seq(Frame)
        /\ \A i \in 1 .. Len(Tail(wire)) : i + 1 \in 1 .. Len(wire) /\ Tail(wire)[i] = wire[i + 1]
    BY <2>1, HeadTailProperties DEF TypeOK
  <2> QED
    BY <2>1, <2>2, RedeclareOrder
<1>17. CASE BrokerDeletes
  BY <1>17, ShiftTail, QuietStep DEF BrokerDeletes, BrokerReads
<1>18. CASE BrokerCloses
  BY <1>18, ShiftSame, QuietStep DEF BrokerCloses, WireIsLost
<1>19. CASE MetadataUpdate
  BY <1>19, ShiftSame, QuietStep DEF MetadataUpdate
<1>20. CASE UNCHANGED vars
  BY <1>20, ShiftSame, QuietStep DEF vars
<1> QED
  BY <1>1, <1>2, <1>3, <1>4, <1>5, <1>6, <1>7, <1>8, <1>9, <1>10, <1>11, <1>12, <1>13,
     <1>14, <1>15, <1>16, <1>17, <1>18, <1>19, <1>20 DEF Next, Socket, Broker

(* The queue holds the messages not sent yet, chunks are runs of           *)
(* consecutive messages, and they reach the stream in order.               *)
THEOREM OrderHolds == Spec => []OrderInv
<1>1. Init => OrderInv
  BY DEF Init, OrderInv, QueueIsTail, ChunksAreRuns, WireInOrder, StoredBeforeWire,
         StoredWasSent, StoredInOrder, Sent
<1>2. TypeOK /\ TypeOK' /\ OrderInv /\ [Next]_vars => OrderInv'
  BY StepOrder
<1> QED
  BY <1>1, <1>2, TypeCorrect, PTL DEF Spec

(* The stream holds each publisher's messages in the order of its sends    *)
(* and none twice, across failures, restarts, flushes and closes.          *)
THEOREM StoredOnceInOrder == Spec => []StoredInOrder
<1>1. OrderInv => StoredInOrder
  BY DEF OrderInv
<1> QED
  BY <1>1, OrderHolds, PTL

-----------------------------------------------------------------------------
(* The wakeup of the timer.                                                *)

LEMMA WakeupKept ==
  ASSUME NoLostWakeup, UNCHANGED hung,
         \A p \in Publishers :
           /\ queue'[p] # <<>> => queue[p] # <<>> \/ scheduled'[p]
           /\ scheduled[p] => scheduled'[p]
           /\ TimerWrites(p) => TimerWrites(p)' \/ queue'[p] = <<>> \/ scheduled'[p]
  PROVE  NoLostWakeup'
<1> SUFFICES ASSUME NEW p \in Publishers, queue'[p] # <<>>
             PROVE  scheduled'[p] \/ TimerWrites(p)' \/ TimerHangs(p)'
  BY DEF NoLostWakeup
<1>1. TimerHangs(p) => TimerHangs(p)'
  BY DEF TimerHangs
<1> QED
  BY <1>1 DEF NoLostWakeup

(* A chunk popped for anybody keeps the timers there are, and what remains *)
(* in the queue was there before: the queue needs no new one.              *)
LEMMA WakeupSendBuffer ==
  ASSUME TypeOK, NoLostWakeup, NEW p \in Publishers, NEW q \in Seq(Nat), NEW by \in Callers,
         sendBuffer(p, q, by), by = "timer" \/ UNCHANGED scheduled,
         \A r \in Publishers : r # p => scheduled'[r] = scheduled[r],
         Len(q) <= Len(queue[p]) + 1
  PROVE  NoLostWakeup'
<1> DEFINE c == [pub |-> p, by |-> by]
<1>1. /\ queue' = [queue EXCEPT ![p] = remaining(q)]
      /\ \/ writing' = Append(writing, c) /\ UNCHANGED hung
         \/ hung' = hung \cup {c} /\ UNCHANGED writing
  BY DEF sendBuffer
<1>2. queue'[p] # <<>> => queue[p] # <<>>
  <2> SUFFICES ASSUME queue[p] = <<>> PROVE queue'[p] = <<>>
    OBVIOUS
  <2>1. Len(q) <= 1 /\ Len(q) \in Nat
    OBVIOUS
  <2>2. q # <<>>
    BY DEF sendBuffer, NothingToSend
  <2>3. remaining(q) \in Seq(Nat) /\ Len(remaining(q)) = 0
    BY SMTT(40), <2>1, <2>2, ChunkSplit, PublisherAssumption
  <2>4. remaining(q) = <<>>
    BY <2>3
  <2> QED
    BY <1>1, <2>4 DEF TypeOK
<1>3. \A r \in Publishers : r # p => queue'[r] = queue[r]
  BY <1>1 DEF TypeOK
<1>4. c \in Call
  BY DEF Call
<1> HIDE DEF c
<1>5. \A r \in Publishers : TimerWrites(r) => TimerWrites(r)'
  <2>1. CASE writing' = Append(writing, c)
    <3>1. \A i \in DOMAIN writing : i \in DOMAIN writing' /\ writing'[i] = writing[i]
      BY <1>4, <2>1, AppendProperties DEF TypeOK
    <3> QED
      BY <3>1 DEF TimerWrites
  <2>2. CASE UNCHANGED writing
    BY <2>2 DEF TimerWrites
  <2> QED
    BY <1>1, <2>1, <2>2
<1>6. \A r \in Publishers : TimerHangs(r) => TimerHangs(r)'
  BY <1>1 DEF TimerHangs
<1>7. CASE by = "timer"
  <2>1. TimerWrites(p)' \/ TimerHangs(p)'
    <3>1. CASE writing' = Append(writing, c)
      <4>1. Len(writing) + 1 \in DOMAIN writing' /\ writing'[Len(writing) + 1] = c
        BY <1>4, <3>1, AppendProperties DEF TypeOK
      <4> QED
        BY <1>7, <4>1 DEF TimerWrites, c
    <3>2. CASE hung' = hung \cup {c}
      BY <1>7, <3>2 DEF TimerHangs, c
    <3> QED
      BY <1>1, <3>1, <3>2
  <2> QED
    BY <1>3, <1>5, <1>6, <2>1 DEF NoLostWakeup
<1>8. CASE UNCHANGED scheduled
  BY <1>2, <1>3, <1>5, <1>6, <1>8 DEF NoLostWakeup
<1> QED
  BY <1>7, <1>8

LEMMA WakeupClose ==
  ASSUME TypeOK, NoLostWakeup, NEW p \in Publishers, closePublisher(p)
  PROVE  NoLostWakeup'
<1>1. UNCHANGED scheduled
  BY DEF closePublisher
<1>2. CASE UNCHANGED <<queue, writing, hung>>
  BY <1>1, <1>2, WakeupKept DEF TimerWrites
<1>3. CASE sendBuffer(p, queue[p], "close")
  <2>1. queue[p] \in Seq(Nat) /\ Len(queue[p]) <= Len(queue[p]) + 1 /\ "close" \in Callers
    BY PublisherFacts DEF Callers
  <2> QED
    BY <1>1, <1>3, <2>1, WakeupSendBuffer
<1> QED
  BY <1>2, <1>3 DEF closePublisher, calls

LEMMA WakeupEnqueue ==
  ASSUME TypeOK, NoLostWakeup, NEW p \in Publishers, enqueue(p)
  PROVE  NoLostWakeup'
<1> DEFINE q == Append(queue[p], accepted[p] + 1)
<1>1. q \in Seq(Nat) /\ Len(q) = Len(queue[p]) + 1 /\ Len(q) <= Len(queue[p]) + 1
  <2>1. queue[p] \in Seq(Nat) /\ accepted[p] + 1 \in Nat /\ Len(queue[p]) \in Nat
    BY PublisherFacts
  <2>2. q \in Seq(Nat) /\ Len(q) = Len(queue[p]) + 1
    BY <2>1, AppendProperties
  <2> HIDE DEF q
  <2> QED
    BY <2>1, <2>2
<1>2. q # <<>>
  <2> HIDE DEF q
  <2> QED
    BY <1>1, PublisherFacts
<1> HIDE DEF q
<1>3. CASE sendBuffer(p, q, "send") /\ UNCHANGED scheduled
  BY <1>1, <1>3, WakeupSendBuffer DEF Callers
<1>4. CASE /\ queue' = [queue EXCEPT ![p] = q]
           /\ scheduleIfNeeded(p, scheduled[p], q)
           /\ UNCHANGED <<writing, hung>>
  <2>1. /\ scheduled'[p] = TRUE
        /\ \A r \in Publishers : r # p => scheduled'[r] = scheduled[r] /\ queue'[r] = queue[r]
    BY <1>2, <1>4 DEF scheduleIfNeeded, TypeOK
  <2> QED
    BY <1>4, <2>1, WakeupKept DEF TimerWrites
<1> QED
  BY <1>3, <1>4 DEF enqueue, q

(* The callback of a timer's write looks at the queue again.               *)
LEMMA WakeupCallback ==
  ASSUME TypeOK, NoLostWakeup, writing # <<>>, writing' = Tail(writing),
         UNCHANGED <<queue, hung>>,
         LET c == Head(writing) IN
           \/ scheduleIfNeeded(c.pub, scheduled[c.pub], queue[c.pub])
           \/ c.by # "timer" /\ UNCHANGED scheduled
  PROVE  NoLostWakeup'
<1> DEFINE c == Head(writing)
<1>1. c \in Call /\ c = writing[1]
  BY DEF TypeOK
<1>2. c.pub \in Publishers
  BY <1>1 DEF Call
<1>3. ASSUME NEW p \in Publishers, p # c.pub \/ c.by # "timer", TimerWrites(p)
      PROVE  TimerWrites(p)'
  <2>1. PICK i \in DOMAIN writing : writing[i] = [pub |-> p, by |-> "timer"]
    BY <1>3 DEF TimerWrites
  <2>2. i # 1
    BY <1>1, <1>3, <2>1
  <2>3. i - 1 \in DOMAIN writing' /\ writing'[i - 1] = writing[i]
    BY SMTT(40), <2>1, <2>2, HeadTailProperties DEF TypeOK
  <2> QED
    BY <2>1, <2>3 DEF TimerWrites
<1> HIDE DEF c
<1>4. CASE scheduleIfNeeded(c.pub, scheduled[c.pub], queue[c.pub])
  <2>1. /\ scheduled'[c.pub] = (scheduled[c.pub] \/ queue[c.pub] # <<>>)
        /\ \A p \in Publishers : p # c.pub => scheduled'[p] = scheduled[p]
    BY <1>2, <1>4 DEF scheduleIfNeeded, TypeOK
  <2> QED
    BY <1>3, <2>1, WakeupKept
<1>5. CASE c.by # "timer" /\ UNCHANGED scheduled
  BY <1>3, <1>5, WakeupKept
<1> QED
  BY <1>4, <1>5 DEF c

LEMMA StepWakeup ==
  ASSUME TypeOK, NoLostWakeup, [Next]_vars
  PROVE  NoLostWakeup'
<1> USE DEF client, conn, calls, broker
<1>0. CASE UNCHANGED <<queue, scheduled, writing, hung>>
  BY <1>0, WakeupKept DEF TimerWrites
<1>1. ASSUME NEW p \in Publishers, Send(p) \/ BasicSend(p) PROVE NoLostWakeup'
  BY <1>1, WakeupEnqueue DEF Send, BasicSend
<1>2. ASSUME NEW p \in Publishers, TimerFires(p) PROVE NoLostWakeup'
  <2>1. queue[p] \in Seq(Nat) /\ Len(queue[p]) <= Len(queue[p]) + 1 /\ "timer" \in Callers
    BY PublisherFacts DEF Callers
  <2>2. CASE sendBuffer(p, queue[p], "timer") /\ scheduled' = [scheduled EXCEPT ![p] = FALSE]
    <3>1. \A r \in Publishers : r # p => scheduled'[r] = scheduled[r]
      BY <2>2 DEF TypeOK
    <3> QED
      BY <2>1, <2>2, <3>1, WakeupSendBuffer
  <2>3. CASE scheduleIfNeeded(p, FALSE, queue[p]) /\ UNCHANGED <<queue, writing, hung>>
    <3>1. /\ scheduled'[p] = (queue[p] # <<>>)
          /\ \A r \in Publishers : r # p => scheduled'[r] = scheduled[r]
      BY <2>3 DEF scheduleIfNeeded, TypeOK
    <3> QED
      BY <2>3, <3>1 DEF NoLostWakeup, TimerWrites, TimerHangs
  <2> QED
    BY <1>2, <2>2, <2>3 DEF TimerFires
<1>3. ASSUME NEW p \in Publishers, Flush(p) PROVE NoLostWakeup'
  <2>1. queue[p] \in Seq(Nat) /\ Len(queue[p]) <= Len(queue[p]) + 1 /\ "flush" \in Callers
    BY PublisherFacts DEF Callers
  <2> QED
    BY <1>3, <2>1, WakeupSendBuffer DEF Flush
<1>4. ASSUME NEW p \in Publishers, Close(p) \/ ClosedByBroker(p) PROVE NoLostWakeup'
  BY <1>4, WakeupClose DEF Close, ClosedByBroker
<1>5. CASE WriteDone
  <2>1. /\ writing # <<>> /\ writing' = Tail(writing) /\ UNCHANGED <<queue, hung>>
        /\ \/ scheduleIfNeeded(Head(writing).pub, scheduled[Head(writing).pub], queue[Head(writing).pub])
           \/ Head(writing).by # "timer" /\ UNCHANGED scheduled
    BY <1>5 DEF WriteDone
  <2> QED
    BY <2>1, WakeupCallback
<1>6. CASE WriteFails
  <2>1. /\ writing # <<>> /\ writing' = Tail(writing) /\ UNCHANGED <<queue, hung>>
        /\ \/ scheduleIfNeeded(Head(writing).pub, scheduled[Head(writing).pub], queue[Head(writing).pub])
           \/ Head(writing).by # "timer" /\ UNCHANGED scheduled
    BY <1>6 DEF WriteFails
  <2> QED
    BY <2>1, WakeupCallback
<1>7. CASE SocketCloses \/ SocketConnects \/ HandshakeDone \/ Drop \/ Restart
  BY SMTT(40), <1>0, <1>7 DEF SocketCloses, SocketConnects, HandshakeDone, Drop, Restart
<1>8. CASE Broker \/ MetadataUpdate
  BY <1>0, <1>8 DEF Broker, BrokerStores, BrokerDeclares, BrokerDeletes, BrokerCloses, MetadataUpdate
<1>9. ASSUME NEW p \in Publishers, DeletePublisher(p) PROVE NoLostWakeup'
  BY <1>0, <1>9 DEF DeletePublisher
<1>10. CASE UNCHANGED vars
  BY <1>0, <1>10 DEF vars
<1> QED
  BY <1>1, <1>2, <1>3, <1>4, <1>5, <1>6, <1>7, <1>8, <1>9, <1>10 DEF Next, Socket

(* A nonempty queue always has a timer to look at it, or a timer's flush   *)
(* that waits for its write or hangs: a wakeup is never forgotten.         *)
THEOREM WakeupNeverLost == Spec => []NoLostWakeup
<1>1. Init => NoLostWakeup
  BY DEF Init, NoLostWakeup
<1>2. TypeOK /\ NoLostWakeup /\ [Next]_vars => NoLostWakeup'
  BY StepWakeup
<1> QED
  BY <1>1, <1>2, TypeCorrect, PTL DEF Spec

-----------------------------------------------------------------------------
(* The contract.                                                           *)

(* Every step but enqueue and the broker's append stutters.                *)
LEMMA QuietOrActive ==
  ASSUME [Next]_vars
  PROVE  \/ \E p \in Publishers : enqueue(p)
         \/ BrokerStores
         \/ UNCHANGED <<accepted, stored>>
<1> USE DEF client, conn, calls, broker
<1>1. ASSUME NEW p \in Publishers, Send(p) \/ BasicSend(p) PROVE enqueue(p)
  BY <1>1 DEF Send, BasicSend
<1>2. ASSUME NEW p \in Publishers,
             \/ TimerFires(p) \/ Flush(p) \/ Close(p)
             \/ DeletePublisher(p) \/ ClosedByBroker(p)
      PROVE  UNCHANGED <<accepted, stored>>
  BY <1>2 DEF TimerFires, Flush, Close, DeletePublisher, ClosedByBroker, closePublisher
<1>3. CASE Socket \/ Drop \/ Restart
  BY <1>3 DEF Socket, WriteDone, WriteFails, SocketCloses, SocketConnects, HandshakeDone,
              Drop, Restart
<1>4. CASE BrokerDeclares \/ BrokerDeletes \/ BrokerCloses \/ MetadataUpdate
  BY <1>4 DEF BrokerDeclares, BrokerDeletes, BrokerCloses, MetadataUpdate
<1>5. CASE UNCHANGED vars
  BY <1>5 DEF vars
<1> QED
  BY <1>1, <1>2, <1>3, <1>4, <1>5 DEF Next, Broker

(* What the broker appends is a run of messages the publisher has sent,    *)
(* beyond everything it holds already.                                     *)
LEMMA StoresRun ==
  ASSUME TypeOK, OrderInv, BrokerStores, stored' # stored
  PROVE  \E p \in Publishers : Contract!Store(p)
<1> DEFINE p == wire[1].pub
           m == wire[1].msgs
<1>1. wire # <<>> /\ Head(wire) = wire[1] /\ wire[1].type = "publish"
  BY SMTT(30), SMTT(30) DEF BrokerStores, BrokerReads, TypeOK
<1>2. 1 \in 1 .. Len(wire)
  BY <1>1 DEF TypeOK
<1>3. p \in Publishers /\ m \in Seq(Nat)
  BY SMTT(40), <1>1, <1>2, FrameFacts
<1>4. stored' = [stored EXCEPT ![p] = @ \o m] /\ UNCHANGED accepted
  BY <1>1 DEF BrokerStores, client
<1>5. IsRun(m) /\ m[1] >= 1 /\ LastOf(m) <= Sent(p) /\ m[1] \in Nat
  BY <1>1, <1>2, ChunkFacts
<1>6. \A k \in 1 .. Len(stored[p]) : stored[p][k] < m[1]
  BY <1>1, <1>2 DEF OrderInv, StoredBeforeWire
<1>7. DOMAIN stored[p] = 1 .. Len(stored[p])
  BY <1>3, PublisherFacts
<1>8. Sent(p) <= accepted[p] /\ accepted[p] \in Nat /\ Sent(p) \in Int
  BY SMTT(40), <1>3, PublisherFacts DEF Sent
<1> HIDE DEF p, m
<1>9. Len(m) \in 1 .. MaxChunkLength /\ Len(m) \in Nat /\ m[1] + Len(m) - 1 <= accepted[p]
  BY SMTT(40), <1>3, <1>5, <1>8 DEF IsRun, LastOf
<1>10. m[1] \in 1 .. accepted[p]
  BY <1>5, <1>8, <1>9
<1>11. m = Contract!Run(m[1], Len(m))
  BY <1>3, <1>5 DEF IsRun, Contract!Run
<1> QED
  BY <1>3, <1>4, <1>6, <1>7, <1>9, <1>10, <1>11 DEF Contract!Store

LEMMA StepImplements ==
  ASSUME TypeOK, OrderInv, [Next]_vars
  PROVE  [Contract!Next]_<<accepted, stored>>
<1>1. ASSUME NEW p \in Publishers, enqueue(p) PROVE Contract!Accept(p)
  BY <1>1 DEF enqueue, Contract!Accept
<1>2. CASE BrokerStores
  <2>1. UNCHANGED accepted
    BY <1>2 DEF BrokerStores, client
  <2> QED
    BY <1>2, <2>1, StoresRun DEF Contract!Next
<1> QED
  BY <1>1, <1>2, QuietOrActive DEF Contract!Next

(* The publishers implement PublishContract: the stream only ever grows by *)
(* runs of consecutive messages, each beyond all that is stored.           *)
THEOREM ContractImplemented == Spec => ImplementsContract
<1>1. Init => Contract!Init
  BY DEF Init, Contract!Init
<1>2. TypeOK /\ OrderInv /\ [Next]_vars => [Contract!Next]_<<accepted, stored>>
  BY StepImplements
<1> QED
  BY <1>1, <1>2, TypeCorrect, OrderHolds, PTL DEF Spec, ImplementsContract, Contract!Spec

-----------------------------------------------------------------------------
(* Every message is somewhere.                                             *)

HIDE DEF Publishers

(* The messages of p in the publish frames of w: OnWire(p), if w is wire.  *)
HeldBy(w, p) ==
  UNION {Elements(w[i].msgs) : i \in {j \in DOMAIN w : w[j].type = "publish" /\ w[j].pub = p}}

(* The messages up to n are split up among four places.                    *)
SplitUp(W, S, R, L, n) ==
  /\ W \cup S \cup R \cup L = 1 .. n
  /\ W \cap S = {} /\ W \cap R = {} /\ W \cap L = {}
  /\ S \cap R = {} /\ S \cap L = {} /\ R \cap L = {}

(* All that left the queue of a publisher is in one of the other places.   *)
Kept ==
  \A p \in Publishers :
    SplitUp(OnWire(p), Elements(stored[p]), refused[p], lost[p], Sent(p))

LEMMA OnWireIs == \A p : OnWire(p) = HeldBy(wire, p) /\ OnWire(p)' = HeldBy(wire', p)
  BY DEF OnWire, HeldBy

LEMMA HeldHas ==
  ASSUME NEW w, NEW p, NEW n
  PROVE  n \in HeldBy(w, p) <=> \E i \in DOMAIN w : /\ w[i].type = "publish" /\ w[i].pub = p
                                                    /\ n \in Elements(w[i].msgs)
  BY DEF HeldBy

LEMMA HeldEmpty ==
  ASSUME NEW p
  PROVE  HeldBy(<<>>, p) = {}
<1>1. \A n : n \notin HeldBy(<<>>, p)
  <2>1. DOMAIN <<>> = {}
    BY EmptySeq
  <2> QED
    BY <2>1, HeldHas
<1> QED
  BY <1>1

LEMMA HeldAppend ==
  ASSUME NEW w \in Seq(Frame), NEW f \in Frame, NEW p
  PROVE  HeldBy(Append(w, f), p) =
           IF f.type = "publish" /\ f.pub = p THEN HeldBy(w, p) \cup Elements(f.msgs) ELSE HeldBy(w, p)
<1> DEFINE t == Append(w, f)
<1>1. /\ t \in Seq(Frame) /\ Len(t) = Len(w) + 1 /\ Len(w) \in Nat
      /\ \A i \in 1 .. Len(w) : t[i] = w[i]
      /\ t[Len(w) + 1] = f
  BY AppendProperties, LenProperties
<1>2. DOMAIN t = 1 .. Len(w) + 1 /\ DOMAIN w = 1 .. Len(w)
  BY <1>1, LenProperties
<1> DEFINE l == Len(w) + 1
<1>3. \A i \in DOMAIN t : i \in DOMAIN w \/ i = l
  BY <1>1, <1>2
<1>4. DOMAIN w \subseteq DOMAIN t /\ l \in DOMAIN t /\ t[l] = f /\ \A i \in DOMAIN w : t[i] = w[i]
  BY <1>1, <1>2
<1> HIDE DEF t, l
<1>5. \A n : n \in HeldBy(t, p) <=> n \in HeldBy(w, p) \/ (f.type = "publish" /\ f.pub = p /\ n \in Elements(f.msgs))
  BY <1>3, <1>4, HeldHas
<1> QED
  BY <1>5 DEF t

LEMMA HeldTail ==
  ASSUME NEW w \in Seq(Frame), w # <<>>, NEW p
  PROVE  HeldBy(w, p) =
           IF Head(w).type = "publish" /\ Head(w).pub = p
           THEN HeldBy(Tail(w), p) \cup Elements(Head(w).msgs) ELSE HeldBy(Tail(w), p)
<1> DEFINE t == Tail(w)
           f == Head(w)
<1>1. /\ Len(w) \in Nat /\ Len(w) # 0 /\ DOMAIN w = 1 .. Len(w)
      /\ t \in Seq(Frame) /\ Len(t) = Len(w) - 1
      /\ \A i \in 1 .. Len(t) : t[i] = w[i + 1]
      /\ f = w[1]
  BY HeadTailProperties, LenProperties, EmptySeq
<1>2. DOMAIN t = 1 .. Len(w) - 1
  BY <1>1, LenProperties
<1> HIDE DEF t, f
<1>3. \A i \in DOMAIN t : i + 1 \in DOMAIN w /\ t[i] = w[i + 1]
  BY <1>1, <1>2
<1>4. 1 \in DOMAIN w /\ \A i \in DOMAIN w : i = 1 \/ (i - 1 \in DOMAIN t /\ t[i - 1] = w[i])
  <2>1. ASSUME NEW i \in DOMAIN w, i # 1 PROVE i - 1 \in DOMAIN t /\ t[i - 1] = w[i]
    <3>1. i - 1 \in 1 .. Len(w) - 1 /\ (i - 1) + 1 = i
      BY <1>1, <2>1
    <3> QED
      BY <1>1, <1>2, <3>1
  <2> QED
    BY <1>1, <2>1
<1>5. f = w[1]
  BY <1>1
<1>6. ASSUME NEW n, n \in HeldBy(t, p) PROVE n \in HeldBy(w, p)
  BY <1>3, <1>6, HeldHas
<1>7. ASSUME NEW n, f.type = "publish", f.pub = p, n \in Elements(f.msgs) PROVE n \in HeldBy(w, p)
  BY <1>4, <1>5, <1>7, HeldHas
<1>8. ASSUME NEW n, n \in HeldBy(w, p)
      PROVE  n \in HeldBy(t, p) \/ (f.type = "publish" /\ f.pub = p /\ n \in Elements(f.msgs))
  <2>1. PICK i \in DOMAIN w : w[i].type = "publish" /\ w[i].pub = p /\ n \in Elements(w[i].msgs)
    BY <1>8, HeldHas
  <2> QED
    BY <1>4, <1>5, <2>1, HeldHas
<1>9. HeldBy(w, p) = IF f.type = "publish" /\ f.pub = p THEN HeldBy(t, p) \cup Elements(f.msgs) ELSE HeldBy(t, p)
  BY <1>6, <1>7, <1>8
<1> QED
  BY <1>9 DEF t, f

LEMMA SplitSets ==
  ASSUME NEW N, NEW E, NEW W, NEW S, NEW R, NEW L, N \cap E = {}, W \cup S \cup R \cup L = N,
         W \cap S = {}, W \cap R = {}, W \cap L = {}, S \cap R = {}, S \cap L = {}, R \cap L = {}
  PROVE  /\ /\ (W \cup E) \cup S \cup R \cup L = N \cup E
            /\ (W \cup E) \cap S = {} /\ (W \cup E) \cap R = {} /\ (W \cup E) \cap L = {}
         /\ /\ W \cup S \cup R \cup (L \cup E) = N \cup E
            /\ W \cap (L \cup E) = {} /\ S \cap (L \cup E) = {} /\ R \cap (L \cup E) = {}
  OBVIOUS

LEMMA SplitMore ==
  ASSUME NEW n \in Nat, NEW m \in Nat, NEW W, NEW S, NEW R, NEW L, SplitUp(W, S, R, L, n)
  PROVE  /\ SplitUp(W \cup (n + 1 .. n + m), S, R, L, n + m)
         /\ SplitUp(W, S, R, L \cup (n + 1 .. n + m), n + m)
<1> DEFINE E == n + 1 .. n + m
           N == 1 .. n
           M == 1 .. n + m
<1>1. N \cup E = M /\ N \cap E = {}
  OBVIOUS
<1>2. /\ W \cup S \cup R \cup L = N
      /\ W \cap S = {} /\ W \cap R = {} /\ W \cap L = {}
      /\ S \cap R = {} /\ S \cap L = {} /\ R \cap L = {}
  BY DEF SplitUp
<1> HIDE DEF E, N
<1>3. /\ /\ (W \cup E) \cup S \cup R \cup L = M
         /\ (W \cup E) \cap S = {} /\ (W \cup E) \cap R = {} /\ (W \cup E) \cap L = {}
      /\ /\ W \cup S \cup R \cup (L \cup E) = M
         /\ W \cap (L \cup E) = {} /\ S \cap (L \cup E) = {} /\ R \cap (L \cup E) = {}
  <2> HIDE DEF M
  <2> QED
    BY <1>1, <1>2, SplitSets
<1>4. SplitUp(W \cup E, S, R, L, n + m) /\ SplitUp(W, S, R, L \cup E, n + m)
  BY <1>2, <1>3 DEF SplitUp
<1> QED
  BY <1>4 DEF E

(* A chunk moves from the queue to the wire, or is lost.                   *)
LEMMA SendBufferKept ==
  ASSUME TypeOK, TypeOK', OrderInv, Kept, UNCHANGED <<stored, refused>>,
         NEW p \in Publishers, NEW q \in Seq(Nat), NEW by, sendBuffer(p, q, by),
         \A r \in Publishers : r # p => accepted'[r] = accepted[r],
         Len(q) <= accepted'[p], accepted'[p] - Len(q) = Sent(p),
         \A i \in 1 .. Len(q) : q[i] = Sent(p) + i
  PROVE  Kept'
<1> DEFINE n == IF Len(q) < MaxChunkLength THEN Len(q) ELSE MaxChunkLength
           c == popped(q)
           E == Elements(c)
           s == Sent(p)
           T(r) == accepted'[r] - Len(queue'[r])
<1>1. /\ n \in 1 .. Len(q)
      /\ c \in Seq(Nat) /\ Len(c) = n
      /\ \A i \in 1 .. n : c[i] = q[i]
      /\ remaining(q) \in Seq(Nat) /\ Len(remaining(q)) = Len(q) - n
  BY ChunkSplit DEF sendBuffer, NothingToSend
<1>2. /\ queue'[p] = remaining(q)
      /\ \A r \in Publishers : r # p => queue'[r] = queue[r]
  BY DEF sendBuffer, TypeOK
<1>3. s \in Nat /\ accepted'[p] \in Nat /\ Len(q) \in Nat /\ n \in Nat
  BY <1>1, SentIsNat, PublisherFactsNext
<1> HIDE DEF n, c, E
<1>4. T(p) = s + n /\ \A r \in Publishers : r # p => T(r) = Sent(r)
  <2>1. T(p) = accepted'[p] - (Len(q) - n)
    BY <1>1, <1>2
  <2>2. Sent(p) \in Nat /\ accepted'[p] - Len(q) = Sent(p)
    BY <1>3
  <2>3. T(p) = Sent(p) + n
    BY <1>3, <2>1, <2>2
  <2> QED
    BY <1>2, <2>3 DEF Sent
<1>5. E = s + 1 .. s + n
  <2>1. DOMAIN c = 1 .. n
    BY <1>1, LenProperties
  <2>2. \A i \in 1 .. n : c[i] = s + i
    BY <1>1
  <2> HIDE DEF s
  <2>3. \A x \in s + 1 .. s + n : x - s \in 1 .. n /\ s + (x - s) = x
    BY <1>3
  <2>4. \A i \in 1 .. n : s + i \in s + 1 .. s + n
    BY <1>3
  <2> QED
    BY <2>1, <2>2, <2>3, <2>4 DEF E, Elements
<1>6. \A r \in Publishers : Sent(r)' = T(r)
  BY DEF Sent
<1>7. SplitUp(OnWire(p), Elements(stored[p]), refused[p], lost[p], s)
  BY DEF Kept
<1>8. /\ SplitUp(OnWire(p) \cup E, Elements(stored[p]), refused[p], lost[p], s + n)
      /\ SplitUp(OnWire(p), Elements(stored[p]), refused[p], lost[p] \cup E, s + n)
  <2> HIDE DEF s
  <2>1. /\ SplitUp(OnWire(p) \cup (s + 1 .. s + n), Elements(stored[p]), refused[p], lost[p], s + n)
        /\ SplitUp(OnWire(p), Elements(stored[p]), refused[p], lost[p] \cup (s + 1 .. s + n), s + n)
    BY <1>3, <1>7, SplitMore
  <2> QED
    BY <1>5, <2>1
<1> HIDE DEF s, T
<1>9. CASE SocketIsOpen
  <2> DEFINE f == [type |-> "publish", pub |-> p, msgs |-> c]
  <2>1. f \in Frame /\ f.type = "publish" /\ f.pub = p /\ f.msgs = c
    BY <1>1, PublishFrameType
  <2>2. wire' = Append(wire, f) /\ UNCHANGED lost /\ wire \in Seq(Frame)
    BY <1>9 DEF sendBuffer, TypeOK, c
  <2> HIDE DEF f
  <2>3. OnWire(p)' = OnWire(p) \cup E /\ \A r \in Publishers : r # p => OnWire(r)' = OnWire(r)
    BY <2>1, <2>2, HeldAppend, OnWireIs DEF E
  <2> QED
    BY <1>4, <1>6, <1>8, <2>2, <2>3 DEF Kept
<1>10. CASE ~SocketIsOpen
  <2>1. lost' = [lost EXCEPT ![p] = @ \cup E] /\ UNCHANGED wire
    BY <1>10 DEF sendBuffer, E, c
  <2>2. lost'[p] = lost[p] \cup E /\ \A r \in Publishers : r # p => lost'[r] = lost[r]
    BY <2>1 DEF TypeOK
  <2>3. \A r \in Publishers : OnWire(r)' = OnWire(r)
    BY <2>1, OnWireIs
  <2> QED
    BY <1>4, <1>6, <1>8, <2>2, <2>3 DEF Kept
<1> QED
  BY <1>9, <1>10

(* Nothing moves.                                                          *)
LEMMA QuietKept ==
  ASSUME Kept, UNCHANGED <<accepted, queue, stored, refused, lost>>,
         \A p \in Publishers : HeldBy(wire', p) = HeldBy(wire, p)
  PROVE  Kept'
<1>1. \A p \in Publishers : OnWire(p)' = OnWire(p)
  BY OnWireIs
<1>2. \A p \in Publishers : Sent(p)' = Sent(p)
  BY DEF Sent
<1> QED
  BY <1>1, <1>2 DEF Kept

LEMMA ControlHeld ==
  ASSUME NEW t \in {"declare", "delete", "close"}, NEW p \in Publishers,
         NEW w \in Seq(Frame)
  PROVE  \A r \in Publishers : HeldBy(Append(w, [type |-> t, pub |-> p]), r) = HeldBy(w, r)
<1> DEFINE f == [type |-> t, pub |-> p]
<1>1. f \in Frame /\ f.type # "publish"
  BY ControlFrameType
<1> HIDE DEF f
<1>2. \A r \in Publishers : HeldBy(Append(w, f), r) = HeldBy(w, r)
  BY <1>1, HeldAppend
<1> QED
  BY <1>2 DEF f

LEMMA EnqueueKept ==
  ASSUME TypeOK, TypeOK', OrderInv, Kept, NEW p \in Publishers, enqueue(p)
  PROVE  Kept'
<1> DEFINE q == Append(queue[p], accepted[p] + 1)
<1>1. /\ accepted[p] \in Nat /\ queue[p] \in Seq(Nat) /\ Len(queue[p]) \in Nat
      /\ Len(queue[p]) <= accepted[p]
      /\ \A i \in 1 .. Len(queue[p]) : queue[p][i] = Sent(p) + i
      /\ Sent(p) = accepted[p] - Len(queue[p])
  BY PublisherFacts DEF OrderInv, QueueIsTail, Sent
<1>2. /\ q \in Seq(Nat) /\ Len(q) = Len(queue[p]) + 1
      /\ \A i \in 1 .. Len(queue[p]) : q[i] = queue[p][i]
      /\ q[Len(queue[p]) + 1] = accepted[p] + 1
  BY <1>1, AppendProperties
<1>3. accepted' = [accepted EXCEPT ![p] = @ + 1] /\ UNCHANGED <<stored, refused>>
  BY DEF enqueue
<1> HIDE DEF q
<1>4. /\ accepted'[p] = accepted[p] + 1
      /\ \A r \in Publishers : r # p => accepted'[r] = accepted[r]
  BY <1>3 DEF TypeOK
<1>5. \A i \in 1 .. Len(q) : q[i] = Sent(p) + i
  <2> TAKE i \in 1 .. Len(q)
  <2>1. CASE i \in 1 .. Len(queue[p])
    BY <1>1, <1>2, <2>1
  <2>2. CASE i = Len(queue[p]) + 1
    BY <1>1, <1>2, <2>2, SMTT(30)
  <2> QED
    BY <1>1, <1>2, <2>1, <2>2
<1>6. Len(q) <= accepted'[p] /\ accepted'[p] - Len(q) = Sent(p)
  BY SMTT(40), <1>1, <1>2, <1>4
<1>7. CASE sendBuffer(p, q, "send")
  BY <1>2, <1>3, <1>4, <1>5, <1>6, <1>7, SendBufferKept
<1>8. CASE queue' = [queue EXCEPT ![p] = q] /\ UNCHANGED <<wire, lost>>
  <2>1. queue'[p] = q /\ \A r \in Publishers : r # p => queue'[r] = queue[r]
    BY <1>8 DEF TypeOK
  <2>2. ASSUME NEW r \in Publishers PROVE Sent(r)' = Sent(r)
    <3>1. CASE r = p
      BY <1>6, <2>1, <3>1 DEF Sent
    <3>2. CASE r # p
      BY <1>4, <2>1, <3>2 DEF Sent
    <3> QED
      BY <3>1, <3>2
  <2>3. \A r \in Publishers : OnWire(r)' = OnWire(r)
    BY <1>8, OnWireIs
  <2> QED
    BY <1>3, <1>8, <2>2, <2>3 DEF Kept
<1> QED
  BY <1>7, <1>8 DEF enqueue, q

LEMMA FlushKept ==
  ASSUME TypeOK, TypeOK', OrderInv, Kept, UNCHANGED <<accepted, stored, refused>>,
         NEW p \in Publishers, NEW by, sendBuffer(p, queue[p], by)
  PROVE  Kept'
<1>1. queue[p] \in Seq(Nat) /\ accepted' = accepted
  BY DEF TypeOK
<1>2. /\ Len(queue[p]) <= accepted'[p] /\ accepted'[p] - Len(queue[p]) = Sent(p)
      /\ \A i \in 1 .. Len(queue[p]) : queue[p][i] = Sent(p) + i
  BY <1>1 DEF OrderInv, QueueIsTail, Sent
<1> QED
  BY <1>1, <1>2, SendBufferKept

LEMMA ReleaseKept ==
  ASSUME TypeOK, Kept, UNCHANGED <<accepted, queue, stored, refused, lost>>,
         NEW p \in Publishers, releaseConnection(p)
  PROVE  Kept'
<1>1. wire \in Seq(Frame)
  BY DEF TypeOK
<1>2. CASE wire' = Append(wire, [type |-> "close", pub |-> p])
  <2>1. "close" \in {"declare", "delete", "close"}
    OBVIOUS
  <2>2. \A r \in Publishers : HeldBy(Append(wire, [type |-> "close", pub |-> p]), r) = HeldBy(wire, r)
    BY <1>1, <2>1, ControlHeld
  <2>3. \A r \in Publishers : HeldBy(wire', r) = HeldBy(wire, r)
    BY <1>2, <2>2
  <2> QED
    BY <2>3, QuietKept
<1>3. CASE UNCHANGED wire
  BY <1>3, QuietKept
<1> QED
  BY <1>2, <1>3 DEF releaseConnection

LEMMA CloseKept ==
  ASSUME TypeOK, TypeOK', OrderInv, Kept, NEW p \in Publishers, closePublisher(p)
  PROVE  Kept'
<1>1. UNCHANGED <<accepted, stored, refused>>
  BY DEF closePublisher
<1>2. CASE UNCHANGED <<queue, closed, refs, calls, lost>>
  BY <1>1, <1>2, QuietKept DEF calls
<1>3. CASE sendBuffer(p, queue[p], "close")
  BY <1>1, <1>3, FlushKept
<1>4. CASE releaseConnection(p) /\ UNCHANGED <<queue, writing, hung, lost>>
  BY <1>1, <1>4, ReleaseKept
<1> QED
  BY <1>2, <1>3, <1>4 DEF closePublisher

LEMMA RedeclareKept ==
  ASSUME Kept, UNCHANGED <<accepted, queue, stored, refused, lost>>,
         NEW k, NEW w \in Seq(Frame), redeclareAfter(k, w),
         \A r \in Publishers : HeldBy(w, r) = HeldBy(wire, r)
  PROVE  Kept'
<1>1. CASE wire' = w
  BY <1>1, QuietKept
<1>2. ASSUME NEW p \in Known, wire' = Append(w, [type |-> "declare", pub |-> p])
      PROVE  Kept'
  <2>1. p \in Publishers
    BY DEF Known
  <2>2. \A r \in Publishers : HeldBy(wire', r) = HeldBy(w, r)
    BY <1>2, <2>1, ControlHeld
  <2> QED
    BY <2>2, QuietKept
<1> QED
  BY <1>1, <1>2 DEF redeclareAfter

(* The socket ends: what was on the wire is lost.                          *)
LEMMA WireLostKept ==
  ASSUME TypeOK, Kept, UNCHANGED <<accepted, queue, stored, refused>>, WireIsLost
  PROVE  Kept'
<1>1. wire' = <<>> /\ \A p \in Publishers : lost'[p] = lost[p] \cup OnWire(p)
  BY DEF WireIsLost
<1>2. \A p \in Publishers : OnWire(p)' = {} /\ Sent(p)' = Sent(p)
  BY <1>1, OnWireIs, HeldEmpty DEF Sent
<1>3. ASSUME NEW p \in Publishers
      PROVE  SplitUp({}, Elements(stored[p]), refused[p], lost[p] \cup OnWire(p), Sent(p))
  BY DEF Kept, SplitUp
<1> QED
  BY <1>1, <1>2, <1>3 DEF Kept

LEMMA ElementsConcat ==
  ASSUME NEW s \in Seq(Nat), NEW m \in Seq(Nat)
  PROVE  Elements(s \o m) = Elements(s) \cup Elements(m)
<1> DEFINE u == s \o m
           l == Len(s)
<1>1. /\ Len(u) = Len(s) + Len(m) /\ u \in Seq(Nat)
      /\ \A k \in 1 .. Len(s) : u[k] = s[k]
      /\ \A k \in 1 .. Len(m) : u[Len(s) + k] = m[k]
      /\ \A k \in 1 .. Len(u) : k \in 1 .. Len(s) \/ \E h \in 1 .. Len(m) : k = Len(s) + h
  BY ConcatFacts, ConcatProperties
<1>2. /\ DOMAIN u = 1 .. Len(s) + Len(m) /\ DOMAIN s = 1 .. Len(s) /\ DOMAIN m = 1 .. Len(m)
      /\ Len(s) \in Nat /\ Len(m) \in Nat
  BY <1>1, LenProperties
<1> HIDE DEF u
<1>3. /\ DOMAIN s \subseteq DOMAIN u /\ \A h \in DOMAIN m : l + h \in DOMAIN u
      /\ \A k \in DOMAIN s : u[k] = s[k]
      /\ \A h \in DOMAIN m : u[l + h] = m[h]
      /\ \A k \in DOMAIN u : k \in DOMAIN s \/ \E h \in DOMAIN m : k = l + h
  <2>1. DOMAIN s \subseteq DOMAIN u /\ \A h \in DOMAIN m : l + h \in DOMAIN u
    BY <1>2
  <2>2. DOMAIN u = 1 .. Len(u)
    BY <1>1, <1>2
  <2> QED
    BY <1>1, <1>2, <2>1, <2>2
<1> HIDE DEF l
<1>4. \A x : x \in Elements(u) <=> x \in Elements(s) \/ x \in Elements(m)
  BY <1>3 DEF Elements
<1> QED
  BY <1>4 DEF u

(* The chunk the broker reads is on the wire once, and nothing of it in    *)
(* the chunks behind.                                                      *)
LEMMA BrokerStoresKept ==
  ASSUME TypeOK, OrderInv, Kept, BrokerStores
  PROVE  Kept'
<1> DEFINE f == Head(wire)
           p == f.pub
           E == Elements(f.msgs)
<1>1. /\ wire \in Seq(Frame) /\ wire # <<>> /\ f.type = "publish" /\ wire' = Tail(wire)
      /\ UNCHANGED <<accepted, queue, lost>>
      /\ \/ stored' = [stored EXCEPT ![p] = @ \o f.msgs] /\ UNCHANGED refused
         \/ refused' = [refused EXCEPT ![p] = @ \cup E] /\ UNCHANGED stored
  BY DEF BrokerStores, BrokerReads, TypeOK, client
<1>2. /\ Len(wire) \in Nat /\ Len(wire) # 0 /\ f = wire[1] /\ 1 \in 1 .. Len(wire)
      /\ Tail(wire) \in Seq(Frame) /\ Len(Tail(wire)) = Len(wire) - 1
      /\ \A i \in 1 .. Len(Tail(wire)) : Tail(wire)[i] = wire[i + 1]
      /\ DOMAIN Tail(wire) = 1 .. Len(wire) - 1
  <2>1. Len(wire) \in Nat /\ Len(wire) # 0
    BY <1>1, LenProperties, EmptySeq
  <2>2. /\ f = wire[1] /\ Tail(wire) \in Seq(Frame) /\ Len(Tail(wire)) = Len(wire) - 1
        /\ \A i \in 1 .. Len(Tail(wire)) : Tail(wire)[i] = wire[i + 1]
    BY <1>1, HeadTailProperties
  <2>3. DOMAIN Tail(wire) = 1 .. Len(Tail(wire))
    BY <2>2, LenProperties
  <2> QED
    BY <2>1, <2>2, <2>3
<1>3. p \in Publishers /\ f.msgs \in Seq(Nat) /\ IsRun(f.msgs)
  <2>1. wire[1].pub \in Publishers /\ wire[1].msgs \in Seq(Nat) /\ IsRun(wire[1].msgs)
    BY <1>1, <1>2, FrameFacts, ChunkFacts
  <2> QED
    BY <1>2, <2>1
<1>4. HeldBy(wire, p) = HeldBy(wire', p) \cup E /\ \A r \in Publishers : r # p => HeldBy(wire', r) = HeldBy(wire, r)
  BY <1>1, HeldTail
<1>5. HeldBy(wire', p) \cap E = {}
  <2> SUFFICES ASSUME NEW n, n \in HeldBy(wire', p), n \in E PROVE FALSE
    OBVIOUS
  <2> DEFINE t == Tail(wire)
  <2>0. t = wire' /\ n \in HeldBy(t, p)
    BY <1>1
  <2> HIDE DEF t, p
  <2>1. PICK i \in DOMAIN t : t[i].type = "publish" /\ t[i].pub = p /\ n \in Elements(t[i].msgs)
    BY <2>0, HeldHas
  <2> DEFINE j == i + 1
  <2>2. j \in 1 .. Len(wire) /\ 1 < j /\ t[i] = wire[j]
    BY <1>2 DEF t
  <2> HIDE DEF j
  <2>3. LastOf(wire[1].msgs) < wire[j].msgs[1]
    <3>1. wire[j].type = "publish" /\ wire[1].type = "publish" /\ wire[1].pub = wire[j].pub
      BY <1>1, <1>2, <2>1, <2>2 DEF p
    <3> QED
      BY <1>2, <2>2, <3>1 DEF OrderInv, WireInOrder
  <2>4. wire[j].msgs \in Seq(Nat) /\ IsRun(wire[j].msgs)
    BY <2>1, <2>2, FrameFacts, ChunkFacts
  <2>5. wire[j].msgs[1] <= n /\ n \in Nat /\ wire[j].msgs[1] \in Nat
    <3>1. PICK k \in 1 .. Len(wire[j].msgs) : n = wire[j].msgs[k]
      BY <2>1, <2>2, <2>4, LenProperties DEF Elements
    <3> QED
      BY <2>4, <3>1, RunFacts
  <2>6. n <= LastOf(wire[1].msgs) /\ LastOf(wire[1].msgs) \in Int
    <3>1. PICK k \in 1 .. Len(f.msgs) : n = f.msgs[k]
      BY <1>3, LenProperties DEF Elements
    <3>2. n <= LastOf(f.msgs) /\ LastOf(f.msgs) \in Int
      BY <1>3, <3>1, RunFacts
    <3> QED
      BY <1>2, <3>2
  <2> QED
    BY <2>3, <2>5, <2>6
<1> HIDE DEF f
<1>6. SplitUp(OnWire(p), Elements(stored[p]), refused[p], lost[p], Sent(p))
  BY <1>3 DEF Kept
<1> HIDE DEF p
<1>7. /\ OnWire(p) = HeldBy(wire, p)
      /\ \A r \in Publishers : r # p => OnWire(r) = HeldBy(wire', r)
  BY <1>4, OnWireIs
<1>8. \A r \in Publishers : Sent(r)' = Sent(r)
  BY <1>1 DEF Sent
<1>9. CASE stored' = [stored EXCEPT ![p] = @ \o f.msgs] /\ UNCHANGED refused
  <2>1. /\ stored'[p] = stored[p] \o f.msgs
        /\ \A r \in Publishers : r # p => stored'[r] = stored[r]
    BY <1>3, <1>9 DEF TypeOK
  <2>2. Elements(stored'[p]) = Elements(stored[p]) \cup E
    BY <1>3, <2>1, PublisherFacts, ElementsConcat
  <2> HIDE DEF E
  <2>3. SplitUp(HeldBy(wire', p), Elements(stored[p]) \cup E, refused[p], lost[p], Sent(p))
    BY <1>4, <1>5, <1>6, <1>7 DEF SplitUp
  <2>4. ASSUME NEW r \in Publishers
        PROVE  SplitUp(HeldBy(wire', r), Elements(stored'[r]), refused[r], lost[r], Sent(r))
    <3>1. CASE r = p
      BY <2>2, <2>3, <3>1
    <3>2. CASE r # p
      <4>1. SplitUp(OnWire(r), Elements(stored[r]), refused[r], lost[r], Sent(r))
        BY DEF Kept
      <4> QED
        BY <1>7, <2>1, <3>2, <4>1
    <3> QED
      BY <3>1, <3>2
  <2> QED
    BY <1>1, <1>8, <1>9, <2>4, OnWireIs DEF Kept
<1>10. CASE refused' = [refused EXCEPT ![p] = @ \cup E] /\ UNCHANGED stored
  <2> HIDE DEF E
  <2>1. refused'[p] = refused[p] \cup E /\ \A r \in Publishers : r # p => refused'[r] = refused[r]
    BY <1>3, <1>10 DEF TypeOK
  <2>2. SplitUp(HeldBy(wire', p), Elements(stored[p]), refused[p] \cup E, lost[p], Sent(p))
    BY <1>4, <1>5, <1>6, <1>7 DEF SplitUp
  <2>3. ASSUME NEW r \in Publishers
        PROVE  SplitUp(HeldBy(wire', r), Elements(stored[r]), refused'[r], lost[r], Sent(r))
    <3>1. CASE r = p
      BY <2>1, <2>2, <3>1
    <3>2. CASE r # p
      <4>1. SplitUp(OnWire(r), Elements(stored[r]), refused[r], lost[r], Sent(r))
        BY DEF Kept
      <4> QED
        BY <1>7, <2>1, <3>2, <4>1
    <3> QED
      BY <3>1, <3>2
  <2> QED
    BY <1>1, <1>8, <1>10, <2>3, OnWireIs DEF Kept
<1> QED
  BY <1>1, <1>9, <1>10

LEMMA ReadControlKept ==
  ASSUME TypeOK, Kept, wire # <<>>, Head(wire).type # "publish", wire' = Tail(wire),
         UNCHANGED <<accepted, queue, stored, refused, lost>>
  PROVE  Kept'
<1>1. \A r \in Publishers : HeldBy(Tail(wire), r) = HeldBy(wire, r)
  BY HeldTail DEF TypeOK
<1>2. \A r \in Publishers : HeldBy(wire', r) = HeldBy(wire, r)
  BY <1>1
<1> QED
  BY <1>2, QuietKept

LEMMA StepKept ==
  ASSUME TypeOK, TypeOK', OrderInv, Kept, [Next]_vars
  PROVE  Kept'
<1> USE DEF client, conn, calls, broker
<1>0. ASSUME UNCHANGED <<accepted, queue, stored, refused, lost, wire>> PROVE Kept'
  BY <1>0, QuietKept
<1>1. ASSUME NEW p \in Publishers, Send(p) PROVE Kept'
  BY <1>1, EnqueueKept DEF Send
<1>2. ASSUME NEW p \in Publishers, BasicSend(p) PROVE Kept'
  BY <1>2, EnqueueKept DEF BasicSend
<1>3. ASSUME NEW p \in Publishers, TimerFires(p) PROVE Kept'
  <2>1. CASE sendBuffer(p, queue[p], "timer")
    BY <1>3, <2>1, FlushKept DEF TimerFires
  <2>2. CASE UNCHANGED <<queue, wire, writing, hung, lost>>
    BY <1>3, <2>2, <1>0 DEF TimerFires
  <2> QED
    BY <1>3, <2>1, <2>2 DEF TimerFires
<1>4. ASSUME NEW p \in Publishers, Flush(p) PROVE Kept'
  BY <1>4, FlushKept DEF Flush
<1>5. ASSUME NEW p \in Publishers, Close(p) PROVE Kept'
  BY <1>5, CloseKept DEF Close
<1>6. ASSUME NEW p \in Publishers, DeletePublisher(p) PROVE Kept'
  <2>1. /\ wire' = Append(wire, [type |-> "delete", pub |-> p]) /\ wire \in Seq(Frame)
        /\ UNCHANGED <<accepted, queue, stored, refused, lost>>
    BY <1>6 DEF DeletePublisher, TypeOK
  <2>2. "delete" \in {"declare", "delete", "close"}
    OBVIOUS
  <2>3. \A r \in Publishers : HeldBy(Append(wire, [type |-> "delete", pub |-> p]), r) = HeldBy(wire, r)
    BY <2>1, <2>2, ControlHeld
  <2>4. \A r \in Publishers : HeldBy(wire', r) = HeldBy(wire, r)
    BY <2>1, <2>3
  <2> QED
    BY <2>1, <2>4, QuietKept
<1>7. ASSUME NEW p \in Publishers, ClosedByBroker(p) PROVE Kept'
  BY <1>7, CloseKept DEF ClosedByBroker
<1>8. CASE WriteDone
  <2>1. writing # <<>> /\ UNCHANGED <<accepted, queue, stored, refused, lost>>
    BY <1>8 DEF WriteDone
  <2>2. Head(writing) \in Call
    BY <2>1, HeadTailProperties DEF TypeOK
  <2>3. Head(writing).pub \in Publishers
    BY <2>2 DEF Call
  <2>4. CASE UNCHANGED wire
    BY <2>1, <2>4, <1>0
  <2>5. CASE releaseConnection(Head(writing).pub)
    BY <2>1, <2>3, <2>5, ReleaseKept
  <2> QED
    BY <1>8, <2>4, <2>5 DEF WriteDone
<1>9. CASE WriteFails
  BY <1>9, <1>0 DEF WriteFails
<1>10. CASE SocketCloses
  BY <1>10, <1>0 DEF SocketCloses
<1>11. CASE SocketConnects
  BY <1>11, <1>0 DEF SocketConnects
<1>12. CASE HandshakeDone
  BY <1>12, RedeclareKept DEF HandshakeDone, TypeOK
<1>13. CASE Drop
  BY <1>13, WireLostKept DEF Drop
<1>14. CASE Restart
  BY <1>14, <1>0 DEF Restart
<1>15. CASE BrokerStores
  BY <1>15, BrokerStoresKept
<1>16. CASE BrokerDeclares
  <2>1. /\ wire # <<>> /\ Head(wire).type # "publish"
        /\ UNCHANGED <<accepted, queue, stored, refused, lost>>
        /\ redeclareAfter(Head(wire).pub, Tail(wire))
    BY <1>16 DEF BrokerDeclares, BrokerReads
  <2>2. Tail(wire) \in Seq(Frame)
    BY <2>1, HeadTailProperties DEF TypeOK
  <2>3. \A r \in Publishers : HeldBy(Tail(wire), r) = HeldBy(wire, r)
    BY <2>1, HeldTail DEF TypeOK
  <2> QED
    BY <2>1, <2>2, <2>3, RedeclareKept
<1>17. CASE BrokerDeletes
  BY <1>17, ReadControlKept DEF BrokerDeletes, BrokerReads
<1>18. CASE BrokerCloses
  BY <1>18, WireLostKept DEF BrokerCloses
<1>19. CASE MetadataUpdate
  BY <1>19, <1>0 DEF MetadataUpdate
<1>20. CASE UNCHANGED vars
  BY <1>20, <1>0 DEF vars
<1> QED
  BY <1>1, <1>2, <1>3, <1>4, <1>5, <1>6, <1>7, <1>8, <1>9, <1>10, <1>11, <1>12, <1>13,
     <1>14, <1>15, <1>16, <1>17, <1>18, <1>19, <1>20 DEF Next, Socket, Broker

LEMMA InitKept == Init => Kept
<1> SUFFICES ASSUME Init, NEW p \in Publishers
             PROVE  SplitUp(OnWire(p), Elements(stored[p]), refused[p], lost[p], Sent(p))
  BY DEF Kept
<1>1. OnWire(p) = {}
  BY HeldEmpty, OnWireIs DEF Init
<1>2. DOMAIN <<>> = {} /\ Len(<<>>) = 0
  BY EmptySeq
<1>3. Elements(stored[p]) = {} /\ refused[p] = {} /\ lost[p] = {}
  BY <1>2 DEF Init, Elements
<1>4. Sent(p) = 0
  BY <1>2 DEF Init, Sent
<1>5. 1 .. 0 = {}
  OBVIOUS
<1> QED
  BY <1>1, <1>3, <1>4, <1>5 DEF SplitUp

(* The four places and the queue hold each accepted message once.          *)
LEMMA HeldOnce ==
  ASSUME TypeOK, OrderInv, Kept
  PROVE  NothingVanishes
<1> SUFFICES ASSUME NEW p \in Publishers, NEW n \in 1 .. accepted[p]
             PROVE  Cardinality({k \in DOMAIN Holders(p) : n \in Holders(p)[k]}) = 1
  BY DEF NothingVanishes
<1> DEFINE Q == Elements(queue[p])
           W == OnWire(p)
           S == Elements(stored[p])
           R == refused[p]
           L == lost[p]
           H == {k \in DOMAIN Holders(p) : n \in Holders(p)[k]}
<1>1. /\ DOMAIN Holders(p) = {"queue", "wire", "stored", "refused", "lost"}
      /\ Holders(p)["queue"] = Q /\ Holders(p)["wire"] = W /\ Holders(p)["stored"] = S
      /\ Holders(p)["refused"] = R /\ Holders(p)["lost"] = L
  <2> HIDE DEF Q, W, S, R, L
  <2>1. Holders(p) = [queue |-> Q, wire |-> W, stored |-> S, refused |-> R, lost |-> L]
    BY DEF Holders, Q, W, S, R, L
  <2> QED
    BY <2>1
<1>2. /\ accepted[p] \in Nat /\ queue[p] \in Seq(Nat) /\ Len(queue[p]) \in Nat
      /\ Len(queue[p]) <= accepted[p] /\ Sent(p) \in Nat /\ Sent(p) = accepted[p] - Len(queue[p])
      /\ \A i \in 1 .. Len(queue[p]) : queue[p][i] = Sent(p) + i
  BY PublisherFacts, SentIsNat DEF OrderInv, QueueIsTail, Sent
<1>3. n \in Q <=> n > Sent(p)
  <2>1. ASSUME n \in Q PROVE n > Sent(p)
    <3>1. PICK i \in 1 .. Len(queue[p]) : n = queue[p][i]
      BY <1>2, <2>1, LenProperties DEF Elements
    <3> QED
      BY <1>2, <3>1
  <2>2. ASSUME n > Sent(p) PROVE n \in Q
    <3> DEFINE a == accepted[p]
               l == Len(queue[p])
               s == Sent(p)
    <3>1. a \in Nat /\ l \in Nat /\ s \in Nat /\ s = a - l /\ n \in 1 .. a /\ n > s
      BY <1>2, <2>2
    <3> HIDE DEF a, l, s
    <3>2. n - s \in 1 .. l /\ s + (n - s) = n
      BY <3>1
    <3>3. n - Sent(p) \in 1 .. Len(queue[p]) /\ Sent(p) + (n - Sent(p)) = n
      BY <3>2 DEF l, s
    <3>4. n = queue[p][n - Sent(p)]
      BY <1>2, <3>3
    <3> QED
      BY <1>2, <3>3, <3>4, LenProperties DEF Elements
  <2> QED
    BY <2>1, <2>2
<1>4. SplitUp(W, S, R, L, Sent(p))
  BY DEF Kept
<1>5. n \in W \cup S \cup R \cup L <=> ~(n > Sent(p))
  <2>1. n \in 1 .. Sent(p) <=> ~(n > Sent(p))
    BY <1>2
  <2> HIDE DEF W, S, R, L
  <2> QED
    BY <1>4, <2>1 DEF SplitUp
<1> HIDE DEF Q, W, S, R, L
<1>6. \E k \in {"queue", "wire", "stored", "refused", "lost"} : H = {k}
  <2>1. CASE n \in Q
    <3>1. n \notin W /\ n \notin S /\ n \notin R /\ n \notin L
      BY <1>3, <1>5, <2>1
    <3>2. H = {"queue"}
      BY <1>1, <2>1, <3>1
    <3> QED
      BY <3>2
  <2>2. CASE n \in W
    <3>1. n \notin Q /\ n \notin S /\ n \notin R /\ n \notin L
      BY <1>3, <1>4, <1>5, <2>2 DEF SplitUp
    <3>2. H = {"wire"}
      BY <1>1, <2>2, <3>1
    <3> QED
      BY <3>2
  <2>3. CASE n \in S
    <3>1. n \notin Q /\ n \notin W /\ n \notin R /\ n \notin L
      BY <1>3, <1>4, <1>5, <2>3 DEF SplitUp
    <3>2. H = {"stored"}
      BY <1>1, <2>3, <3>1
    <3> QED
      BY <3>2
  <2>4. CASE n \in R
    <3>1. n \notin Q /\ n \notin W /\ n \notin S /\ n \notin L
      BY <1>3, <1>4, <1>5, <2>4 DEF SplitUp
    <3>2. H = {"refused"}
      BY <1>1, <2>4, <3>1
    <3> QED
      BY <3>2
  <2>5. CASE n \in L
    <3>1. n \notin Q /\ n \notin W /\ n \notin S /\ n \notin R
      BY <1>3, <1>4, <1>5, <2>5 DEF SplitUp
    <3>2. H = {"lost"}
      BY <1>1, <2>5, <3>1
    <3> QED
      BY <3>2
  <2> QED
    BY <1>3, <1>5, <2>1, <2>2, <2>3, <2>4, <2>5
<1> HIDE DEF H
<1>7. Cardinality(H) = 1
  BY <1>6, FS_Singleton
<1> QED
  BY <1>7 DEF H

(* No message that send accepted gets lost inside the client: at any time  *)
(* exactly one of the queue, the wire, the stream, the broker's refusals   *)
(* and the sockets that ended under it holds it.                           *)
THEOREM EachMessageHeldOnce == Spec => []NothingVanishes
<1>1. Init => Kept
  BY InitKept
<1>2. TypeOK /\ TypeOK' /\ OrderInv /\ Kept /\ [Next]_vars => Kept'
  BY StepKept
<1>3. TypeOK /\ OrderInv /\ Kept => NothingVanishes
  BY HeldOnce
<1> QED
  BY <1>1, <1>2, <1>3, TypeCorrect, OrderHolds, PTL DEF Spec

-----------------------------------------------------------------------------
(* The first publisher is declared before anything of it is read.          *)

(* Nobody closes, deletes or updates, and no healthy connection restarts.  *)
Undisturbed == used["restart"] + used["close"] + used["delete"] + used["update"] = 0

OnlyMessages(w) == \A i \in 1 .. Len(w) : w[i].type \in {"publish", "declare"}
NobodyCloses ==
  /\ \A p \in Publishers : ~closed[p] /\ notice[p] = "none"
  /\ OnlyMessages(wire)
  /\ \A i \in 1 .. Len(writing) : writing[i].by # "close"

(* What is read next declares the first publisher.                         *)
DeclaresFirst(w) == w # <<>> /\ w[1].type = "declare" /\ w[1].pub = 1

FirstDeclared ==
  /\ NobodyCloses
  /\ sock \in {"opening", "handshake", "closed"} => ~ready
  /\ sock # "open" => wire = <<>>
  /\ sock = "open" => 1 \in declared \/ DeclaresFirst(wire)
  /\ refused[1] = {}

FirstInv == 1 \in Publishers /\ Undisturbed => FirstDeclared

LEMMA AppendKeeps ==
  ASSUME NEW w \in Seq(Frame), NEW f \in Frame, f.type \in {"publish", "declare"}, OnlyMessages(w)
  PROVE  OnlyMessages(Append(w, f)) /\ (DeclaresFirst(w) => DeclaresFirst(Append(w, f)))
<1> DEFINE t == Append(w, f)
<1>1. /\ Len(t) = Len(w) + 1 /\ Len(w) \in Nat /\ t # <<>>
      /\ \A i \in 1 .. Len(w) : t[i] = w[i]
      /\ t[Len(w) + 1] = f
  BY AppendProperties, LenProperties
<1> HIDE DEF t
<1>2. OnlyMessages(t)
  <2> SUFFICES ASSUME NEW i \in 1 .. Len(t) PROVE t[i].type \in {"publish", "declare"}
    BY DEF OnlyMessages
  <2>1. i \in 1 .. Len(w) \/ i = Len(w) + 1
    BY <1>1
  <2> QED
    BY <1>1, <2>1 DEF OnlyMessages
<1>3. w # <<>> => 1 \in 1 .. Len(w)
  BY <1>1, EmptySeq
<1>4. DeclaresFirst(w) => DeclaresFirst(t)
  BY <1>1, <1>3 DEF DeclaresFirst
<1> QED
  BY <1>2, <1>4 DEF t

LEMMA TailKeeps ==
  ASSUME NEW w \in Seq(Frame), w # <<>>, OnlyMessages(w)
  PROVE  OnlyMessages(Tail(w)) /\ Tail(w) \in Seq(Frame) /\ Head(w) = w[1] /\ 1 \in 1 .. Len(w)
<1> DEFINE t == Tail(w)
<1>1. /\ t \in Seq(Frame) /\ Len(t) = Len(w) - 1 /\ Len(w) \in Nat /\ Len(w) # 0
      /\ \A i \in 1 .. Len(t) : t[i] = w[i + 1]
      /\ Head(w) = w[1]
  BY HeadTailProperties, LenProperties, EmptySeq
<1> HIDE DEF t
<1>2. ASSUME NEW i \in 1 .. Len(t) PROVE t[i].type \in {"publish", "declare"}
  <2>1. i + 1 \in 1 .. Len(w)
    BY <1>1
  <2> QED
    BY <1>1, <2>1 DEF OnlyMessages
<1>3. OnlyMessages(t)
  BY <1>2 DEF OnlyMessages
<1> QED
  BY <1>1, <1>3 DEF t

LEMMA SpendDisturbs ==
  ASSUME TypeOK, NEW e \in {"restart", "close", "delete", "update"}, Spend(e)
  PROVE  ~Undisturbed'
<1>1. \A d \in Events : used[d] \in Nat /\ used'[d] \in Nat /\ used'[e] = used[e] + 1
  BY DEF TypeOK, Spend, Events
<1> DEFINE a == used'["restart"]
           b == used'["close"]
           c == used'["delete"]
           d == used'["update"]
<1>2. a \in Nat /\ b \in Nat /\ c \in Nat /\ d \in Nat /\ (a # 0 \/ b # 0 \/ c # 0 \/ d # 0)
  <2>1. used'[e] # 0
    BY <1>1 DEF Events
  <2> QED
    BY <1>1, <2>1 DEF Events
<1>3. a + b + c + d # 0
  <2> HIDE DEF a, b, c, d
  <2> QED
    BY <1>2
<1> QED
  BY <1>3 DEF Undisturbed

(* A chunk goes behind the declaration, and only while the socket is open. *)
LEMMA SendBufferFirst ==
  ASSUME TypeOK, FirstDeclared, NEW p \in Publishers, NEW q \in Seq(Nat), NEW by \in Callers \ {"close"},
         sendBuffer(p, q, by),
         UNCHANGED <<closed, notice, sock, ready, declared, refused>>
  PROVE  FirstDeclared'
<1> DEFINE c == [pub |-> p, by |-> by]
           f == [type |-> "publish", pub |-> p, msgs |-> popped(q)]
<1>1. CASE SocketIsOpen
  <2>1. wire' = Append(wire, f) /\ writing' = Append(writing, c) /\ ready
    BY <1>1 DEF sendBuffer, NothingToSend
  <2>2. sock = "open"
    BY <1>1, <2>1 DEF SocketIsOpen, FirstDeclared
  <2>3. popped(q) \in Seq(Nat)
    BY ChunkSplit DEF sendBuffer, NothingToSend
  <2>4. f \in Frame /\ f.type = "publish"
    BY <2>3, PublishFrameType
  <2>5. c \in Call /\ c.by # "close" /\ writing \in Seq(Call) /\ wire \in Seq(Frame)
    BY DEF Call, TypeOK
  <2> HIDE DEF c, f
  <2>6. OnlyMessages(wire') /\ (DeclaresFirst(wire) => DeclaresFirst(wire'))
    BY <2>1, <2>4, <2>5, AppendKeeps DEF FirstDeclared, NobodyCloses
  <2>7. \A i \in 1 .. Len(writing') : writing'[i].by # "close"
    <3> TAKE i \in 1 .. Len(writing')
    <3>1. /\ Len(writing') = Len(writing) + 1 /\ Len(writing) \in Nat
          /\ \A j \in 1 .. Len(writing) : writing'[j] = writing[j]
          /\ writing'[Len(writing) + 1] = c
      BY <2>1, <2>5, AppendProperties, LenProperties
    <3>2. i \in 1 .. Len(writing) \/ i = Len(writing) + 1
      BY <3>1
    <3> QED
      BY <2>5, <3>1, <3>2 DEF FirstDeclared, NobodyCloses
  <2> QED
    BY <2>2, <2>6, <2>7 DEF FirstDeclared, NobodyCloses
<1>2. CASE ~SocketIsOpen
  <2>1. UNCHANGED <<wire, writing>>
    BY <1>2 DEF sendBuffer
  <2> QED
    BY <2>1 DEF FirstDeclared, NobodyCloses, OnlyMessages, DeclaresFirst
<1> QED
  BY <1>1, <1>2

(* Client.restart begins with the first publisher.                         *)
LEMMA HandshakeFirst ==
  ASSUME TypeOK, 1 \in Publishers, FirstDeclared, HandshakeDone
  PROVE  FirstDeclared'
<1>1. /\ sock = "handshake" /\ sock' = "open" /\ redeclareAfter(0, wire)
      /\ UNCHANGED <<closed, notice, writing, declared, refused>>
  BY DEF HandshakeDone, client, broker
<1>2. Known = Publishers /\ Publishers \subseteq Nat /\ wire = <<>>
  BY <1>1 DEF FirstDeclared, NobodyCloses, Known, Publishers
<1>3. PICK p \in Publishers : /\ p > 0 /\ \A m \in Publishers : m > 0 => p <= m
                              /\ wire' = Append(wire, [type |-> "declare", pub |-> p])
  BY <1>1, <1>2 DEF redeclareAfter
<1>4. p = 1
  BY <1>2, <1>3
<1> DEFINE f == [type |-> "declare", pub |-> 1]
<1>5. wire' = <<f>> /\ f.type = "declare" /\ f.pub = 1
  BY <1>2, <1>3, <1>4
<1> HIDE DEF f
<1>6. Len(wire') = 1 /\ wire'[1] = f /\ wire' # <<>>
  BY <1>5
<1>7. DeclaresFirst(wire') /\ OnlyMessages(wire')
  BY <1>5, <1>6 DEF DeclaresFirst, OnlyMessages
<1> QED
  BY <1>1, <1>7 DEF FirstDeclared, NobodyCloses

LEMMA BrokerDeclaresFirst ==
  ASSUME TypeOK, 1 \in Publishers, FirstDeclared, BrokerDeclares
  PROVE  FirstDeclared'
<1>1. /\ wire # <<>> /\ wire \in Seq(Frame) /\ declared' = declared \cup {Head(wire).pub}
      /\ redeclareAfter(Head(wire).pub, Tail(wire))
      /\ UNCHANGED <<closed, notice, sock, ready, writing, refused>>
  BY DEF BrokerDeclares, BrokerReads, client, TypeOK
<1>2. sock = "open"
  BY <1>1 DEF FirstDeclared
<1>3. OnlyMessages(Tail(wire)) /\ Tail(wire) \in Seq(Frame) /\ Head(wire) = wire[1]
  BY <1>1, TailKeeps DEF FirstDeclared, NobodyCloses
<1>4. 1 \in declared'
  BY <1>1, <1>2, <1>3 DEF FirstDeclared, DeclaresFirst
<1>5. OnlyMessages(wire')
  <2>1. CASE wire' = Tail(wire)
    BY <1>3, <2>1
  <2>2. ASSUME NEW p \in Known, wire' = Append(Tail(wire), [type |-> "declare", pub |-> p])
        PROVE  OnlyMessages(wire')
    <3> DEFINE f == [type |-> "declare", pub |-> p]
    <3>1. f \in Frame /\ f.type = "declare"
      BY DEF Known, Frame
    <3> HIDE DEF f
    <3>2. OnlyMessages(Append(Tail(wire), f))
      BY <1>3, <3>1, AppendKeeps
    <3> QED
      BY <2>2, <3>2 DEF f
  <2> QED
    BY <1>1, <2>1, <2>2 DEF redeclareAfter
<1> QED
  BY <1>1, <1>2, <1>4, <1>5 DEF FirstDeclared, NobodyCloses

(* A message at the head of the wire comes after the declaration.          *)
LEMMA BrokerStoresFirst ==
  ASSUME TypeOK, 1 \in Publishers, FirstDeclared, BrokerStores
  PROVE  FirstDeclared'
<1>1. /\ wire # <<>> /\ wire \in Seq(Frame) /\ wire' = Tail(wire) /\ Head(wire).type = "publish"
      /\ UNCHANGED <<closed, notice, sock, ready, writing, declared>>
      /\ \/ UNCHANGED refused
         \/ /\ Head(wire).pub \notin declared
            /\ refused' = [refused EXCEPT ![Head(wire).pub] = @ \cup Elements(Head(wire).msgs)]
  BY DEF BrokerStores, BrokerReads, client, conn, TypeOK
<1>2. sock = "open"
  BY <1>1 DEF FirstDeclared
<1>3. OnlyMessages(wire') /\ Head(wire) = wire[1]
  BY <1>1, TailKeeps DEF FirstDeclared, NobodyCloses
<1>4. 1 \in declared
  BY <1>1, <1>2, <1>3 DEF FirstDeclared, DeclaresFirst
<1>5. refused'[1] = refused[1]
  BY <1>1, <1>4 DEF TypeOK
<1> QED
  BY <1>1, <1>2, <1>3, <1>4, <1>5 DEF FirstDeclared, NobodyCloses

LEMMA SocketEndsFirst ==
  ASSUME FirstDeclared, sock' = "half", wire' = <<>>, UNCHANGED <<closed, notice, writing, refused>>
  PROVE  FirstDeclared'
<1>1. OnlyMessages(<<>>)
  BY EmptySeq DEF OnlyMessages
<1> QED
  BY <1>1 DEF FirstDeclared, NobodyCloses

LEMMA QuietFirst ==
  ASSUME FirstDeclared, UNCHANGED <<closed, notice, sock, ready, wire, writing, declared, refused>>
  PROVE  FirstDeclared'
BY DEF FirstDeclared, NobodyCloses, OnlyMessages, DeclaresFirst

(* One callback less, and none of them is a close.                         *)
LEMMA CallbackFirst ==
  ASSUME TypeOK, FirstDeclared, writing # <<>>, writing' = Tail(writing)
  PROVE  Head(writing).by # "close" /\ \A i \in 1 .. Len(writing') : writing'[i].by # "close"
<1> DEFINE t == Tail(writing)
<1>1. /\ Len(t) = Len(writing) - 1 /\ Len(writing) \in Nat /\ Len(writing) # 0
      /\ \A i \in 1 .. Len(t) : t[i] = writing[i + 1]
      /\ Head(writing) = writing[1]
  BY HeadTailProperties, LenProperties, EmptySeq DEF TypeOK
<1> HIDE DEF t
<1>2. ASSUME NEW i \in 1 .. Len(t) PROVE t[i].by # "close"
  <2>1. i + 1 \in 1 .. Len(writing)
    BY <1>1
  <2> QED
    BY <1>1, <2>1 DEF FirstDeclared, NobodyCloses
<1>3. 1 \in 1 .. Len(writing)
  BY <1>1
<1> QED
  BY <1>1, <1>2, <1>3 DEF FirstDeclared, NobodyCloses, t

LEMMA StepFirst ==
  ASSUME TypeOK, TypeOK', FirstInv, [Next]_vars
  PROVE  FirstInv'
<1> SUFFICES ASSUME 1 \in Publishers, Undisturbed' PROVE FirstDeclared'
  BY DEF FirstInv
<1> USE DEF client, conn, calls, broker
<1>0. ASSUME UNCHANGED used PROVE FirstDeclared
  BY <1>0 DEF FirstInv, Undisturbed
<1>1. ASSUME NEW p \in Publishers, enqueue(p) PROVE FirstDeclared'
  <2>1. UNCHANGED <<used, closed, notice, sock, ready, declared, refused>>
    BY <1>1 DEF enqueue
  <2>2. CASE sendBuffer(p, Append(queue[p], accepted[p] + 1), "send")
    <3>1. queue[p] \in Seq(Nat) /\ accepted[p] + 1 \in Nat
      BY PublisherFacts
    <3>2. Append(queue[p], accepted[p] + 1) \in Seq(Nat)
      BY <3>1, AppendProperties
    <3>3. "send" \in Callers \ {"close"}
      BY DEF Callers
    <3> QED
      BY <1>0, <2>1, <2>2, <3>2, <3>3, SendBufferFirst
  <2>3. CASE UNCHANGED <<wire, writing>>
    BY <1>0, <2>1, <2>3, QuietFirst
  <2> QED
    BY <1>1, <2>2, <2>3 DEF enqueue
<1>2. ASSUME NEW p \in Publishers, TimerFires(p) PROVE FirstDeclared'
  <2>1. UNCHANGED <<used, closed, notice, sock, ready, declared, refused>>
    BY <1>2 DEF TimerFires
  <2>2. CASE sendBuffer(p, queue[p], "timer")
    BY <1>0, <2>1, <2>2, SendBufferFirst DEF TypeOK, Callers
  <2>3. CASE UNCHANGED <<wire, writing>>
    BY <1>0, <2>1, <2>3, QuietFirst
  <2> QED
    BY <1>2, <2>2, <2>3 DEF TimerFires
<1>3. ASSUME NEW p \in Publishers, Flush(p) PROVE FirstDeclared'
  <2>1. UNCHANGED <<used, closed, notice, sock, ready, declared, refused>> /\ sendBuffer(p, queue[p], "flush")
    BY <1>3 DEF Flush
  <2> QED
    BY <1>0, <2>1, SendBufferFirst DEF TypeOK, Callers
<1>4. ASSUME NEW p \in Publishers, Close(p) PROVE FALSE
  BY <1>4, SpendDisturbs DEF Close
<1>5. ASSUME NEW p \in Publishers, DeletePublisher(p) PROVE FALSE
  BY <1>5, SpendDisturbs DEF DeletePublisher
<1>6. ASSUME NEW p \in Publishers, ClosedByBroker(p) PROVE FALSE
  <2>1. UNCHANGED used /\ notice[p] # "none"
    BY <1>6 DEF ClosedByBroker
  <2> QED
    BY <1>0, <2>1 DEF FirstDeclared, NobodyCloses
<1>7. CASE WriteDone
  <2>1. /\ writing # <<>> /\ writing' = Tail(writing)
        /\ UNCHANGED <<used, notice, sock, ready, declared, refused>>
    BY <1>7 DEF WriteDone
  <2>2. Head(writing).by # "close" /\ \A i \in 1 .. Len(writing') : writing'[i].by # "close"
    BY <1>0, <2>1, CallbackFirst
  <2>3. UNCHANGED <<closed, wire>>
    BY <1>7, <2>2 DEF WriteDone
  <2> QED
    BY <1>0, <2>1, <2>2, <2>3 DEF FirstDeclared, NobodyCloses, OnlyMessages, DeclaresFirst
<1>8. CASE WriteFails
  <2>1. /\ writing # <<>> /\ writing' = Tail(writing)
        /\ UNCHANGED <<used, closed, wire, notice, sock, ready, declared, refused>>
    BY <1>8 DEF WriteFails
  <2>2. \A i \in 1 .. Len(writing') : writing'[i].by # "close"
    BY <1>0, <2>1, CallbackFirst
  <2> QED
    BY <1>0, <2>1, <2>2 DEF FirstDeclared, NobodyCloses, OnlyMessages, DeclaresFirst
<1>9. CASE SocketCloses
  BY <1>0, <1>9 DEF SocketCloses, FirstDeclared, NobodyCloses, OnlyMessages
<1>10. CASE SocketConnects
  BY <1>0, <1>10 DEF SocketConnects, FirstDeclared, NobodyCloses, OnlyMessages
<1>11. CASE HandshakeDone
  BY <1>0, <1>11, HandshakeFirst DEF HandshakeDone
<1>12. CASE Drop
  <2>1. Spend("drop") /\ sock' = "half" /\ wire' = <<>> /\ UNCHANGED <<closed, notice, writing, refused>>
    BY <1>12 DEF Drop, WireIsLost
  <2>2. \A e \in {"restart", "close", "delete", "update"} : used'[e] = used[e]
    BY <2>1 DEF Spend, TypeOK, Events
  <2>3. FirstDeclared
    BY <2>2 DEF FirstInv, Undisturbed
  <2> QED
    BY <2>1, <2>3, SocketEndsFirst
<1>13. CASE Restart
  <2>1. CASE sock = "closed" /\ UNCHANGED used
    BY <1>0, <1>13, <2>1 DEF Restart, FirstDeclared, NobodyCloses, OnlyMessages
  <2>2. CASE Spend("restart")
    BY <2>2, SpendDisturbs
  <2> QED
    BY <1>13, <2>1, <2>2 DEF Restart
<1>14. CASE BrokerStores
  BY <1>0, <1>14, BrokerStoresFirst DEF BrokerStores
<1>15. CASE BrokerDeclares
  BY <1>0, <1>15, BrokerDeclaresFirst DEF BrokerDeclares
<1>16. ASSUME BrokerDeletes \/ BrokerCloses PROVE FALSE
  <2>1. /\ UNCHANGED used /\ wire # <<>> /\ Head(wire).type \in {"delete", "close"}
    BY <1>16 DEF BrokerDeletes, BrokerCloses, BrokerReads
  <2>2. Head(wire) = wire[1] /\ 1 \in 1 .. Len(wire) /\ OnlyMessages(wire)
    BY <1>0, <2>1, TailKeeps DEF FirstDeclared, NobodyCloses, TypeOK
  <2> QED
    BY <2>1, <2>2 DEF OnlyMessages
<1>17. CASE MetadataUpdate
  BY <1>17, SpendDisturbs DEF MetadataUpdate
<1>18. CASE UNCHANGED vars
  BY <1>0, <1>18, QuietFirst DEF vars
<1>19. ASSUME NEW p \in Publishers, Send(p) \/ BasicSend(p) PROVE FirstDeclared'
  BY <1>1, <1>19 DEF Send, BasicSend
<1> QED
  BY <1>2, <1>3, <1>4, <1>5, <1>6, <1>7, <1>8, <1>9, <1>10, <1>11, <1>12, <1>13, <1>14,
     <1>15, <1>16, <1>17, <1>18, <1>19 DEF Next, Socket, Broker

(* As long as nobody closes, deletes or updates and no healthy connection  *)
(* restarts, the broker refuses no message of the first publisher: after   *)
(* each drop its declaration goes ahead of every message.                  *)
THEOREM FirstIsDeclaredInTime == Spec => []FirstNeverRefused
<1>1. Init => FirstInv
  BY EmptySeq DEF Init, FirstInv, FirstDeclared, NobodyCloses, OnlyMessages, Publishers
<1>2. TypeOK /\ TypeOK' /\ FirstInv /\ [Next]_vars => FirstInv'
  BY StepFirst
<1>3. FirstInv => FirstNeverRefused
  BY DEF FirstInv, FirstDeclared, FirstNeverRefused, Undisturbed
<1> QED
  BY <1>1, <1>2, <1>3, TypeCorrect, PTL DEF Spec
=============================================================================
