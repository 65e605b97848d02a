------------------------- MODULE ConsumerGroupProofs -------------------------
(***************************************************************************)
(* What is proved of ConsumerGroup for any number of members, messages and *)
(* plans: whatever is stored is behind what has been handled, and the      *)
(* hand-over of the active role skips nothing.                             *)
(***************************************************************************)
EXTENDS ConsumerGroup, SequenceTheorems, TLAPS

-----------------------------------------------------------------------------
(* Types.  Of the broker's group and of asked nothing is needed.           *)

Frame == [kind : {"query"}] \cup [kind : {"deliver"}, offset : Nat]
Answer == [offset : Nat, due : BOOLEAN]

TypeOK ==
  /\ active \in Members \cup {0} /\ pos \in Nat
  /\ stored \in Seq(Nat) /\ done \subseteq Nat /\ overlap \in BOOLEAN
  /\ credit \in [Members -> Nat]
  /\ net \in [Members -> Seq(Frame)]
  /\ up \in [Members -> BOOLEAN] /\ closed \in [Members -> BOOLEAN]
  /\ life \in [Members -> {"new", "known", "leaving", "out"}]
  /\ offset \in [Members -> Nat] /\ local \in [Members -> Nat]
  /\ answering \in [Members -> Seq(Answer)]
  /\ tasks \in [Members -> Seq(Nat)]

(* What is in a frame.                                                     *)
LEMMA Frames ==
  /\ \A f \in Frame : f.kind = "deliver" => f.offset \in Nat
  /\ [kind |-> "query"] \in Frame /\ [kind |-> "query"].kind # "deliver"
  /\ \A o \in Nat : /\ [kind |-> "deliver", offset |-> o] \in Frame
                    /\ [kind |-> "deliver", offset |-> o].kind = "deliver"
                    /\ [kind |-> "deliver", offset |-> o].offset = o
  BY DEF Frame

(* A function keeps its type when one of its values is replaced.           *)
LEMMA ExceptType ==
  ASSUME NEW D, NEW R, NEW f \in [D -> R], NEW d, NEW e \in R
  PROVE  [f EXCEPT ![d] = e] \in [D -> R]
  OBVIOUS

(* What Append and Tail do to the elements of a sequence.                  *)
LEMMA AppendElements ==
  ASSUME NEW R, NEW s \in Seq(R), NEW e \in R
  PROVE  /\ Append(s, e) \in Seq(R)
         /\ \A i \in DOMAIN Append(s, e) :
              (i \in DOMAIN s /\ Append(s, e)[i] = s[i]) \/ Append(s, e)[i] = e
         /\ \A i \in DOMAIN s : i \in DOMAIN Append(s, e) /\ Append(s, e)[i] = s[i]
         /\ \E i \in DOMAIN Append(s, e) : Append(s, e)[i] = e
         /\ s = <<>> => Len(Append(s, e)) = 1
<1>1. /\ Append(s, e) \in Seq(R)
      /\ Len(Append(s, e)) = Len(s) + 1
      /\ \A i \in 1 .. Len(s) : Append(s, e)[i] = s[i]
      /\ Append(s, e)[Len(s) + 1] = e
  BY AppendProperties
<1>2. /\ DOMAIN s = 1 .. Len(s) /\ Len(s) \in Nat
      /\ DOMAIN Append(s, e) = 1 .. Len(s) + 1
  BY <1>1, LenProperties
<1>3. s = <<>> => Len(s) = 0
  BY EmptySeq
<1> QED
  BY <1>1, <1>2, <1>3

LEMMA TailElements ==
  ASSUME NEW R, NEW s \in Seq(R), s # <<>>
  PROVE  /\ Tail(s) \in Seq(R) /\ Head(s) \in R
         /\ 1 \in DOMAIN s /\ Head(s) = s[1]
         /\ \A i \in DOMAIN Tail(s) : i \in Nat /\ i + 1 \in DOMAIN s /\ Tail(s)[i] = s[i + 1] /\ i + 1 # 1
         /\ \A i \in DOMAIN s : i = 1 \/ \E j \in DOMAIN Tail(s) : Tail(s)[j] = s[i]
<1>1. /\ Head(s) \in R /\ Tail(s) \in Seq(R)
      /\ Len(Tail(s)) = Len(s) - 1
      /\ \A i \in 1 .. Len(Tail(s)) : Tail(s)[i] = s[i + 1]
      /\ Head(s) = s[1]
  BY HeadTailProperties
<1>2. /\ Len(s) \in Nat /\ Len(s) # 0 /\ DOMAIN s = 1 .. Len(s)
      /\ DOMAIN Tail(s) = 1 .. Len(s) - 1
  BY <1>1, LenProperties, EmptySeq
<1>3. ASSUME NEW i \in DOMAIN s, i # 1 PROVE \E j \in DOMAIN Tail(s) : Tail(s)[j] = s[i]
  <2>1. i - 1 \in DOMAIN Tail(s) /\ Tail(s)[i - 1] = s[i]
    BY <1>1, <1>2, <1>3
  <2> QED
    BY <2>1
<1> QED
  BY <1>1, <1>2, <1>3

(* Taking one element out.                                                 *)
LEMMA RemovedElements ==
  ASSUME NEW R, NEW s \in Seq(R), NEW i \in DOMAIN s
  PROVE  /\ RemoveAt(s, i) \in Seq(R)
         /\ \A k \in DOMAIN RemoveAt(s, i) : \E j \in DOMAIN s : RemoveAt(s, i)[k] = s[j]
         /\ Len(s) = 1 => RemoveAt(s, i) = <<>>
<1> DEFINE front == SubSeq(s, 1, i - 1)
           rest  == SubSeq(s, i + 1, Len(s))
           t     == RemoveAt(s, i)
<1>1. Len(s) \in Nat /\ DOMAIN s = 1 .. Len(s) /\ i \in 1 .. Len(s)
  BY LenProperties
<1>2. /\ front \in Seq(R) /\ Len(front) = i - 1
      /\ \A k \in 1 .. i - 1 : front[k] = s[k]
  BY <1>1, SubSeqProperties
<1>3. /\ rest \in Seq(R) /\ Len(rest) = Len(s) - i
      /\ \A k \in 1 .. Len(s) - i : rest[k] = s[i + k]
  BY <1>1, SubSeqProperties, SMTT(30)
<1>4. t = front \o rest
  BY Zenon DEF RemoveAt
<1> HIDE DEF front, rest, t
<1>5. /\ t \in Seq(R) /\ Len(t) = Len(s) - 1
      /\ \A k \in 1 .. Len(t) :
           t[k] = IF k <= i - 1 THEN front[k] ELSE rest[k - (i - 1)]
  <2>1. /\ t \in Seq(R) /\ Len(t) = Len(front) + Len(rest)
        /\ \A k \in 1 .. Len(front) + Len(rest) :
             t[k] = IF k <= Len(front) THEN front[k] ELSE rest[k - Len(front)]
    BY <1>2, <1>3, <1>4, ConcatProperties
  <2> QED
    BY <2>1, <1>1, <1>2, <1>3, SMTT(30)
<1>6. DOMAIN t = 1 .. Len(t)
  BY <1>5, LenProperties
<1>7. ASSUME NEW k \in DOMAIN t PROVE \E j \in DOMAIN s : t[k] = s[j]
  <2>1. CASE k <= i - 1
    BY <2>1, <1>1, <1>2, <1>5, <1>6
  <2>2. CASE ~(k <= i - 1)
    <3>1. k - (i - 1) \in 1 .. Len(s) - i
      BY <2>2, <1>1, <1>5, <1>6
    <3>2. t[k] = s[i + (k - (i - 1))] /\ i + (k - (i - 1)) \in DOMAIN s
      BY <2>2, <3>1, <1>1, <1>3, <1>5, <1>6, SMTT(30)
    <3> QED
      BY <3>2
  <2> QED
    BY <2>1, <2>2
<1>8. Len(s) = 1 => t = <<>>
  BY <1>5, EmptySeq
<1> QED
  BY <1>5, <1>7, <1>8 DEF t

(* An answer that comes too late keeps its offset.                         *)
Late(s) == [i \in DOMAIN s |-> [s[i] EXCEPT !.due = FALSE]]
LEMMA LateAnswers ==
  ASSUME NEW s \in Seq(Answer)
  PROVE  /\ Late(s) \in Seq(Answer)
         /\ DOMAIN Late(s) = DOMAIN s
         /\ \A i \in DOMAIN s : Late(s)[i].offset = s[i].offset
         /\ s = <<>> => Late(s) = <<>>
<1>1. Len(s) \in Nat /\ DOMAIN s = 1 .. Len(s) /\ \A i \in 1 .. Len(s) : s[i] \in Answer
  BY LenProperties, ElementOfSeq
<1>2. \A i \in DOMAIN s : [s[i] EXCEPT !.due = FALSE] \in Answer
                          /\ [s[i] EXCEPT !.due = FALSE].offset = s[i].offset
  BY <1>1 DEF Answer
<1>3. Late(s) \in [1 .. Len(s) -> Answer]
  BY <1>1, <1>2 DEF Late
<1>4. Late(s) \in Seq(Answer)
  BY <1>1, <1>3, IsASeq
<1>5. s = <<>> => Late(s) = <<>>
  <2>1. Len(Late(s)) = Len(s)
    BY <1>1, <1>4, LenProperties DEF Late
  <2> QED
    BY <2>1, <1>4, EmptySeq
<1> QED
  BY <1>2, <1>4, <1>5 DEF Late

-----------------------------------------------------------------------------
(* The inductive invariant.  All but the types holds until a member comes  *)
(* back with a delivery still running.                                     *)

Safe(o) == 0 .. o - 1 \subseteq done
Delivers(s) == {i \in DOMAIN s : s[i].kind = "deliver"}

(* The offsets a member goes by, or is about to go by.                     *)
Known(m) ==
  /\ Safe(offset[m]) /\ Safe(local[m])
  /\ \A i \in DOMAIN answering[m] : Safe(answering[m][i].offset)

(* What a member is given comes after messages that are all handled; what  *)
(* a closed one is sent does not count, as its handler is not called.      *)
Handed(m) ==
  /\ \A i \in DOMAIN tasks[m] : Safe(tasks[m][i])
  /\ ~closed[m] => \A i \in Delivers(net[m]) : Safe(net[m][i].offset)

(* One delivery at a time: the credit for it is spent, or its frame is     *)
(* under way, or the handler has it.                                       *)
OneUnderWay(m) ==
  /\ credit[m] \in {0, 1}
  /\ \A i, j \in Delivers(net[m]) : i = j
  /\ Delivers(net[m]) # {} => credit[m] = 0 /\ tasks[m] = <<>>
  /\ tasks[m] # <<>> => credit[m] = 0 /\ Len(tasks[m]) = 1

(* Without a subscription nothing is granted and nothing is sent.          *)
Quiet(m) ==
  /\ life[m] = "new" \/ ~up[m] => credit[m] = 0 /\ Delivers(net[m]) = {}
  /\ life[m] = "new" => tasks[m] = <<>>

(* A crashed member neither answers nor is active.                         *)
Gone(m) ==
  life[m] = "out" /\ ~closed[m] => answering[m] = <<>> /\ active # m

(* What the active member will not be sent is handled or in its hands.     *)
Held(s, t, o) ==
  \/ \E i \in Delivers(s) : s[i].offset = o
  \/ \E i \in DOMAIN t : t[i] = o
InTurn(m) ==
  active = m /\ ~closed[m] =>
    \A o \in 0 .. pos - 1 : o \in done \/ Held(net[m], tasks[m], o)

Fit(m) ==
  Known(m) /\ Handed(m) /\ OneUnderWay(m) /\ Quiet(m) /\ Gone(m) /\ InTurn(m)
StoredFit == stored # <<>> => Safe(Head(stored))

IInv == TypeOK /\ (~overlap => StoredFit /\ \A m \in Members : Fit(m))

-----------------------------------------------------------------------------
(* The types are kept.                                                     *)

LEMMA CutTypes ==
  ASSUME TypeOK, NEW ms, Cut(ms)
  PROVE  /\ active' \in Members \cup {0} /\ credit' \in [Members -> Nat]
         /\ net' \in [Members -> Seq(Frame)] /\ up' \in [Members -> BOOLEAN]
<1>1. <<>> \in Seq(Frame)
  BY EmptySeq
<1> QED
  BY <1>1 DEF Cut, Leave, TypeOK

LEMMA GrantedTypes ==
  ASSUME TypeOK, NEW m \in Members, Granted(m)
  PROVE  credit' \in [Members -> Nat]
<1>1. credit' = credit \/ credit' = [credit EXCEPT ![m] = credit[m] + 1]
  BY DEF Granted
<1>2. credit[m] + 1 \in Nat /\ credit \in [Members -> Nat]
  BY DEF TypeOK
<1> QED
  BY <1>1, <1>2, ExceptType

LEMMA InitTypes == Init => TypeOK
<1>1. <<>> \in Seq(Nat) /\ <<>> \in Seq(Frame) /\ <<>> \in Seq(Answer)
  BY EmptySeq
<1>2. ASSUME Init
      PROVE  /\ active \in Members \cup {0} /\ pos \in Nat /\ stored \in Seq(Nat)
             /\ done \subseteq Nat /\ overlap \in BOOLEAN
  BY <1>1, <1>2 DEF Init
<1>3. ASSUME Init
      PROVE  /\ credit \in [Members -> Nat] /\ net \in [Members -> Seq(Frame)]
             /\ up \in [Members -> BOOLEAN] /\ closed \in [Members -> BOOLEAN]
  BY <1>1, <1>3 DEF Init, Each
<1>4. ASSUME Init
      PROVE  /\ life \in [Members -> {"new", "known", "leaving", "out"}]
             /\ offset \in [Members -> Nat] /\ local \in [Members -> Nat]
             /\ answering \in [Members -> Seq(Answer)] /\ tasks \in [Members -> Seq(Nat)]
  BY <1>1, <1>4 DEF Init, Each
<1> QED
  BY <1>2, <1>3, <1>4 DEF TypeOK

LEMMA Types == TypeOK /\ [Next]_vars => TypeOK'
<1> SUFFICES ASSUME TypeOK, [Next]_vars PROVE TypeOK'
  OBVIOUS
<1> USE GroupAssumption
<1>0. /\ <<>> \in Seq(Nat) /\ <<>> \in Seq(Frame) /\ <<>> \in Seq(Answer)
      /\ \A o \in Nat : <<o>> \in Seq(Nat)
  BY EmptySeq
<1>1. CASE UNCHANGED vars
  BY <1>1 DEF TypeOK, vars, broker, member
<1>2. CASE Publish
  BY <1>2 DEF Publish, TypeOK, member
<1>3. CASE BrokerAsks
  <2>1. net' \in [Members -> Seq(Frame)]
    <3>1. net' = [net EXCEPT ![asked'] = Append(net[asked'], [kind |-> "query"])]
      BY <1>3 DEF BrokerAsks
    <3>2. \A m \in Members : Append(net[m], [kind |-> "query"]) \in Seq(Frame)
      BY Frames, AppendProperties DEF TypeOK
    <3> QED
      BY <3>1, <3>2 DEF TypeOK
  <2> QED
    BY <1>3, <2>1 DEF BrokerAsks, TypeOK, member
<1>4. ASSUME NEW m \in Members, Deliver(m) PROVE TypeOK'
  <2>1. Append(net[m], [kind |-> "deliver", offset |-> pos]) \in Seq(Frame)
    BY Frames, AppendProperties DEF TypeOK
  <2>2. net' \in [Members -> Seq(Frame)]
    BY <1>4, <2>1, ExceptType DEF Deliver, TypeOK
  <2>3. pos' \in Nat /\ credit' \in [Members -> Nat]
    BY <1>4 DEF Deliver, TypeOK
  <2> QED
    BY <1>4, <2>2, <2>3 DEF Deliver, TypeOK, member
<1>5. ASSUME NEW m \in Members, declareConsumer(m) PROVE TypeOK'
  BY <1>5 DEF declareConsumer, Subscribed, TypeOK
<1>6. ASSUME NEW m \in Members, QueryArrives(m) PROVE TypeOK'
  <2>1. net' \in [Members -> Seq(Frame)]
    <3>1. net[m] \in Seq(Frame) /\ net[m] # <<>>
      BY <1>6 DEF QueryArrives, TypeOK
    <3>2. Tail(net[m]) \in Seq(Frame)
      BY <3>1, TailElements
    <3> QED
      BY <1>6, <3>2, ExceptType DEF QueryArrives, TypeOK
  <2>2. getConsumerOrServerSavedOffset(m) \in Nat
    BY HeadTailProperties DEF getConsumerOrServerSavedOffset, TypeOK
  <2>3. [offset |-> getConsumerOrServerSavedOffset(m), due |-> asked = m] \in Answer
    BY <2>2 DEF Answer
  <2>4. answering' \in [Members -> Seq(Answer)]
    <3>1. Append(answering[m], [offset |-> getConsumerOrServerSavedOffset(m), due |-> asked = m])
            \in Seq(Answer)
      BY <2>3, AppendProperties DEF TypeOK
    <3> QED
      BY <1>6, <3>1, ExceptType DEF QueryArrives, TypeOK
  <2> QED
    BY <1>6, <2>1, <2>4 DEF QueryArrives, TypeOK, broker
<1>7. ASSUME NEW m \in Members, ConsumerUpdateResponse(m) PROVE TypeOK'
  <2>1. answering[m] \in Seq(Answer) /\ answering[m] # <<>>
    BY <1>7 DEF ConsumerUpdateResponse, TypeOK
  <2>2. Head(answering[m]) \in Answer /\ Tail(answering[m]) \in Seq(Answer)
    BY <2>1, TailElements
  <2>3. Head(answering[m]).offset \in Nat
    BY <2>2 DEF Answer
  <2>4. /\ offset' \in [Members -> Nat] /\ local' \in [Members -> Nat]
        /\ answering' \in [Members -> Seq(Answer)]
    BY <1>7, <2>2, <2>3, ExceptType DEF ConsumerUpdateResponse, updateConsumerOffset, TypeOK
  <2>5. active' \in Members \cup {0} /\ pos' \in Nat
    BY <1>7, <2>3 DEF ConsumerUpdateResponse, TypeOK
  <2> QED
    BY <1>7, <2>4, <2>5 DEF ConsumerUpdateResponse, TypeOK
<1>8. ASSUME NEW m \in Members, DeliveryArrives(m) PROVE TypeOK'
  <2>1. net[m] \in Seq(Frame) /\ net[m] # <<>>
    BY <1>8 DEF DeliveryArrives, TypeOK
  <2>2. Head(net[m]).offset \in Nat /\ Tail(net[m]) \in Seq(Frame)
    BY <1>8, <2>1, TailElements, Frames DEF DeliveryArrives
  <2>3. Append(tasks[m], Head(net[m]).offset) \in Seq(Nat)
    BY <2>2, AppendProperties DEF TypeOK
  <2>4. net' \in [Members -> Seq(Frame)]
    BY <1>8, <2>2, ExceptType DEF DeliveryArrives, TypeOK
  <2>5. tasks' \in [Members -> Seq(Nat)]
    <3>1. tasks' = tasks \/ tasks' = [tasks EXCEPT ![m] = Append(tasks[m], Head(net[m]).offset)]
      BY <1>8 DEF DeliveryArrives
    <3>2. tasks \in [Members -> Seq(Nat)]
      BY DEF TypeOK
    <3> QED
      BY <2>3, <3>1, <3>2, ExceptType
  <2>6. credit' \in [Members -> Nat]
    <3>1. credit' = credit \/ Granted(m)
      BY <1>8 DEF DeliveryArrives
    <3> QED
      BY <3>1, GrantedTypes DEF TypeOK
  <2> QED
    BY <1>8, <2>4, <2>5, <2>6 DEF DeliveryArrives, TypeOK
<1>9. ASSUME NEW m \in Members, NEW i, HandlerReturns(m, i) PROVE TypeOK'
  <2>1. i \in DOMAIN tasks[m] /\ tasks[m] \in Seq(Nat)
    BY <1>9 DEF HandlerReturns, TypeOK
  <2>2. tasks[m][i] \in Nat /\ RemoveAt(tasks[m], i) \in Seq(Nat)
    <3>1. tasks[m][i] \in Nat
      BY <2>1, LenProperties, ElementOfSeq
    <3> QED
      BY <2>1, <3>1, RemovedElements
  <2>3. tasks' \in [Members -> Seq(Nat)] /\ local' \in [Members -> Nat]
    BY <1>9, <2>2, ExceptType DEF HandlerReturns, TypeOK
  <2>4. credit' \in [Members -> Nat] /\ done' \subseteq Nat
    BY <1>9, <2>2, GrantedTypes DEF HandlerReturns, TypeOK
  <2>5. stored' \in Seq(Nat)
    BY <1>0, <1>9, <2>2 DEF HandlerReturns, storeOffset, TypeOK
  <2> QED
    BY <1>9, <2>3, <2>4, <2>5 DEF HandlerReturns, TypeOK
<1>10. ASSUME NEW m \in Members, StoreFromOutside(m) PROVE TypeOK'
  BY <1>0, <1>10 DEF StoreFromOutside, storeOffset, TypeOK, member
<1>11. ASSUME NEW m \in Members, close(m) PROVE TypeOK'
  <2>1. \A n \in Members : Late(answering[n]) \in Seq(Answer)
    BY LateAnswers DEF TypeOK
  <2>2. answering' \in [Members -> Seq(Answer)]
    BY <1>11, <2>1 DEF close, Late, TypeOK
  <2> QED
    BY <1>11, <2>2, CutTypes DEF close, TypeOK
<1>12. ASSUME NEW m \in Members, Unsubscribe(m) PROVE TypeOK'
  <2>1. Late(answering[m]) \in Seq(Answer)
    BY LateAnswers DEF TypeOK
  <2>2. answering' \in [Members -> Seq(Answer)]
    BY <1>12, <2>1 DEF Unsubscribe, Late, TypeOK
  <2> QED
    BY <1>12, <2>2 DEF Unsubscribe, Leave, TypeOK
<1>13. ASSUME NEW m \in Members, closing(m) PROVE TypeOK'
  BY <1>13, CutTypes DEF closing, TypeOK
<1>14. ASSUME NEW m \in Members, Drop(m) PROVE TypeOK'
  <2>1. \A n \in Members : Late(answering[n]) \in Seq(Answer)
    BY LateAnswers DEF TypeOK
  <2>2. answering' \in [Members -> Seq(Answer)]
    BY <1>14, <2>1 DEF Drop, Late, TypeOK
  <2> QED
    BY <1>14, <2>2, CutTypes DEF Drop, TypeOK
<1>15. ASSUME NEW m \in Members, Crash(m) PROVE TypeOK'
  BY <1>0, <1>15, CutTypes DEF Crash, TypeOK
<1>16. ASSUME NEW m \in Members, Redeclare(m) PROVE TypeOK'
  BY <1>16 DEF Redeclare, Subscribed, TypeOK
<1> QED
  BY <1>1, <1>2, <1>3, <1>4, <1>5, <1>6, <1>7, <1>8, <1>9, <1>10, <1>11, <1>12, <1>13,
     <1>14, <1>15, <1>16 DEF Next, MemberRuns

-----------------------------------------------------------------------------
(* The rest is kept.  Closes, drops and crashes only take away: each does  *)
(* the following to every member n.                                        *)

Departing(n) ==
  /\ net'[n] = net[n] \/ (net'[n] = <<>> /\ active' # n)
  /\ tasks'[n] = tasks[n] \/ (tasks'[n] = <<>> /\ active' # n)
  /\ answering'[n] \in {answering[n], Late(answering[n]), <<>>}
  /\ credit'[n] \in {credit[n], 0}
  /\ up'[n] = up[n] \/ (net'[n] = <<>> /\ credit'[n] = 0)
  /\ closed[n] => closed'[n]
  /\ \/ life'[n] = life[n] \/ life'[n] = "leaving"
     \/ life'[n] = "out" /\ (closed'[n] \/ (answering'[n] = <<>> /\ active' # n))
  /\ active' \in {active, 0}
  /\ UNCHANGED <<offset, local, done, stored, pos>>

LEMMA Departed ==
  ASSUME TypeOK, NEW n \in Members, Fit(n), Departing(n)
  PROVE  Fit(n)'
<1> USE GroupAssumption
<1>0. /\ Delivers(<<>>) = {} /\ \A o : ~Held(<<>>, <<>>, o)
      /\ answering[n] \in Seq(Answer) /\ n # 0
  BY DEF Delivers, Held, TypeOK
<1>1. Known(n)'
  <2>1. \A i \in DOMAIN answering'[n] :
          i \in DOMAIN answering[n] /\ answering'[n][i].offset = answering[n][i].offset
    BY <1>0, LateAnswers DEF Departing
  <2> QED
    BY <2>1 DEF Fit, Known, Safe, Departing
<1>2. Handed(n)'
  BY <1>0 DEF Fit, Handed, Safe, Departing
<1>3. OneUnderWay(n)'
  BY <1>0 DEF Fit, OneUnderWay, Departing
<1>4. Quiet(n)'
  BY <1>0 DEF Fit, Quiet, Departing
<1>5. Gone(n)'
  BY <1>0, LateAnswers DEF Fit, Gone, Departing
<1>6. InTurn(n)'
  BY <1>0 DEF Fit, InTurn, Departing
<1> QED
  BY <1>1, <1>2, <1>3, <1>4, <1>5, <1>6 DEF Fit

(* What the end of a connection does.                                      *)
LEMMA CutEffect ==
  ASSUME TypeOK, NEW ms, Cut(ms), NEW n \in Members
  PROVE  /\ n \in ms => net'[n] = <<>> /\ credit'[n] = 0 /\ active' # n
         /\ n \notin ms => net'[n] = net[n] /\ credit'[n] = credit[n] /\ up'[n] = up[n]
         /\ active' \in {active, 0}
  BY GroupAssumption DEF Cut, Leave, TypeOK

LEMMA closeDeparts ==
  ASSUME TypeOK, NEW m \in Members, close(m), NEW n \in Members
  PROVE  Departing(n)
<1>1. closed' = [closed EXCEPT ![m] = TRUE] /\ life' = life /\ tasks' = tasks
  BY DEF close
<1>2. answering'[n] \in {answering[n], Late(answering[n])}
  BY DEF close, Late
<1>3. UNCHANGED <<offset, local, done, stored, pos>>
  BY DEF close
<1>4. Cut(Mates(m)) \/ UNCHANGED <<active, credit, net, up>>
  BY DEF close
<1> QED
  BY <1>1, <1>2, <1>3, <1>4, CutEffect DEF Departing, TypeOK

LEMMA UnsubscribeDeparts ==
  ASSUME TypeOK, NEW m \in Members, Unsubscribe(m), NEW n \in Members
  PROVE  Departing(n)
<1>1. life' = [life EXCEPT ![m] = "leaving"] /\ UNCHANGED <<tasks, closed, net, up>>
  BY DEF Unsubscribe
<1>2. answering'[n] \in {answering[n], Late(answering[n])}
  BY DEF Unsubscribe, Late, TypeOK
<1>3. UNCHANGED <<offset, local, done, stored, pos>>
  BY DEF Unsubscribe
<1>4. credit'[n] \in {credit[n], 0} /\ active' \in {active, 0}
  BY DEF Unsubscribe, Leave
<1> QED
  BY <1>1, <1>2, <1>3, <1>4 DEF Departing, TypeOK

LEMMA closingDeparts ==
  ASSUME TypeOK, NEW m \in Members, closing(m), NEW n \in Members
  PROVE  Departing(n)
<1>1. /\ life' = [life EXCEPT ![m] = "out"] /\ closed' = [closed EXCEPT ![m] = TRUE]
      /\ UNCHANGED <<answering, tasks>>
  BY DEF closing
<1>2. UNCHANGED <<offset, local, done, stored, pos>>
  BY DEF closing
<1>3. Cut(Mates(m)) \/ UNCHANGED <<active, credit, net, up>>
  BY DEF closing
<1> QED
  BY <1>1, <1>2, <1>3, CutEffect DEF Departing, TypeOK

LEMMA DropDeparts ==
  ASSUME TypeOK, NEW m \in Members, Drop(m), NEW n \in Members
  PROVE  Departing(n)
<1>1. UNCHANGED <<life, tasks, closed>>
  BY DEF Drop
<1>2. answering'[n] \in {answering[n], Late(answering[n])}
  BY DEF Drop, Late
<1>3. UNCHANGED <<offset, local, done, stored, pos>> /\ Cut(Mates(m))
  BY DEF Drop
<1> QED
  BY <1>1, <1>2, <1>3, CutEffect DEF Departing, TypeOK

LEMMA CrashDeparts ==
  ASSUME TypeOK, NEW m \in Members, Crash(m), NEW n \in Members
  PROVE  Departing(n)
<1>1. UNCHANGED <<closed, offset, local, done, stored, pos>> /\ Cut(Mates(m))
  BY DEF Crash
<1>2. CASE n \in Mates(m)
  <2>1. life'[n] = "out" /\ tasks'[n] = <<>> /\ answering'[n] = <<>>
    BY <1>2 DEF Crash
  <2> QED
    BY <1>1, <1>2, <2>1, CutEffect DEF Departing, TypeOK
<1>3. CASE n \notin Mates(m)
  <2>1. life'[n] = life[n] /\ tasks'[n] = tasks[n] /\ answering'[n] = answering[n]
    BY <1>3 DEF Crash
  <2> QED
    BY <1>1, <1>3, <2>1, CutEffect DEF Departing, TypeOK
<1> QED
  BY <1>2, <1>3

-----------------------------------------------------------------------------
(* The deliveries among the frames, as frames come and go.                 *)

LEMMA DeliversAppend ==
  ASSUME NEW s \in Seq(Frame), NEW f \in Frame
  PROVE  /\ f.kind # "deliver" => /\ Delivers(Append(s, f)) = Delivers(s)
                                  /\ \A i \in Delivers(s) : Append(s, f)[i] = s[i]
         /\ f.kind = "deliver" /\ Delivers(s) = {} =>
              \E k : Delivers(Append(s, f)) = {k} /\ Append(s, f)[k] = f
<1> DEFINE t == Append(s, f)
<1>1. /\ \A i \in DOMAIN t : (i \in DOMAIN s /\ t[i] = s[i]) \/ t[i] = f
      /\ \A i \in DOMAIN s : i \in DOMAIN t /\ t[i] = s[i]
  BY AppendElements
<1>2. /\ DOMAIN s = 1 .. Len(s) /\ DOMAIN t = 1 .. Len(s) + 1 /\ Len(s) \in Nat
      /\ t[Len(s) + 1] = f
  BY AppendProperties, LenProperties
<1> HIDE DEF t
<1>3. ASSUME f.kind # "deliver" PROVE Delivers(t) = Delivers(s)
  BY <1>1, <1>3 DEF Delivers
<1>4. ASSUME f.kind = "deliver", Delivers(s) = {} PROVE Delivers(t) = {Len(s) + 1}
  <2>1. \A i \in DOMAIN s : i \notin Delivers(t)
    BY <1>1, <1>4 DEF Delivers
  <2>2. Len(s) + 1 \in Delivers(t)
    BY <1>2, <1>4 DEF Delivers
  <2>3. Delivers(t) \subseteq 1 .. Len(s) + 1
    BY <1>2 DEF Delivers
  <2> QED
    BY <2>1, <2>2, <2>3, <1>2
<1>5. \A i \in Delivers(s) : t[i] = s[i]
  BY <1>1 DEF Delivers
<1> QED
  BY <1>2, <1>3, <1>4, <1>5 DEF t

LEMMA DeliversTail ==
  ASSUME NEW s \in Seq(Frame), s # <<>>
  PROVE  /\ \A i \in Delivers(Tail(s)) :
              i \in Nat /\ i + 1 \in Delivers(s) /\ i + 1 # 1 /\ Tail(s)[i] = s[i + 1]
         /\ Head(s).kind # "deliver" =>
              \A i \in Delivers(s) : \E j \in Delivers(Tail(s)) : Tail(s)[j] = s[i]
         /\ Head(s).kind = "deliver" => 1 \in Delivers(s) /\ s[1] = Head(s)
  BY TailElements DEF Delivers

-----------------------------------------------------------------------------
(* A step of which the member sees nothing.                                *)
LEMMA Unaffected ==
  ASSUME NEW n \in Members, Fit(n),
         UNCHANGED <<active, pos, credit, net, up, life, closed, offset, local, answering,
                     tasks, done>>
  PROVE  Fit(n)'
  BY DEF Fit, Known, Handed, OneUnderWay, Quiet, Gone, InTurn, Safe

(* BrokerAsks: the frame is no delivery.                                   *)
LEMMA BrokerAsksFit ==
  ASSUME TypeOK, NEW n \in Members, Fit(n), BrokerAsks
  PROVE  Fit(n)'
<1>1. UNCHANGED <<active, pos, credit, up, life, closed, offset, local, answering, tasks, done>>
  BY DEF BrokerAsks, member
<1>2. Delivers(net'[n]) = Delivers(net[n]) /\ \A i \in Delivers(net[n]) : net'[n][i] = net[n][i]
  <2>1. net'[n] \in {net[n], Append(net[n], [kind |-> "query"])}
    <3>1. net' = [net EXCEPT ![asked'] = Append(net[asked'], [kind |-> "query"])]
      BY DEF BrokerAsks
    <3> QED
      BY <3>1 DEF TypeOK
  <2> DEFINE query == [kind |-> "query"]
  <2>2. net[n] \in Seq(Frame) /\ query \in Frame /\ query.kind # "deliver"
    BY Frames DEF TypeOK
  <2>3. net'[n] \in {net[n], Append(net[n], query)}
    BY <2>1
  <2> HIDE DEF query
  <2>4. /\ Delivers(Append(net[n], query)) = Delivers(net[n])
        /\ \A i \in Delivers(net[n]) : Append(net[n], query)[i] = net[n][i]
    BY <2>2, DeliversAppend
  <2> QED
    BY <2>3, <2>4
<1>3. \A t, o : Held(net[n], t, o) => Held(net'[n], t, o)
  BY <1>2 DEF Held
<1> QED
  BY <1>1, <1>2, <1>3 DEF Fit, Known, Handed, OneUnderWay, Quiet, Gone, InTurn, Safe

(* Deliver: the credit is spent on the next message, before which all are  *)
(* handled, as nothing was in the member's hands.                          *)
LEMMA DeliverFit ==
  ASSUME TypeOK, NEW m \in Members, Deliver(m), NEW n \in Members, Fit(n)
  PROVE  Fit(n)'
<1> USE GroupAssumption
<1>0. UNCHANGED <<active, up, life, closed, offset, local, answering, tasks, done>>
  BY DEF Deliver, member
<1>1. CASE n # m
  <2>1. net'[n] = net[n] /\ credit'[n] = credit[n] /\ active # n
    BY <1>1 DEF Deliver, TypeOK
  <2> QED
    BY <1>0, <2>1 DEF Fit, Known, Handed, OneUnderWay, Quiet, Gone, InTurn, Safe
<1>2. CASE n = m
  <2>1. credit[n] = 1 /\ Delivers(net[n]) = {} /\ tasks[n] = <<>> /\ active = n
    BY <1>2 DEF Deliver, Fit, OneUnderWay, TypeOK
  <2>2. credit'[n] = 0 /\ pos' = pos + 1 /\ pos \in Nat
    BY <1>2, <2>1 DEF Deliver, TypeOK
  <2>3. PICK k : Delivers(net'[n]) = {k} /\ net'[n][k].offset = pos
    <3> DEFINE f == [kind |-> "deliver", offset |-> pos]
    <3>1. net'[n] = Append(net[n], f) /\ net[n] \in Seq(Frame)
      BY <1>2 DEF Deliver, TypeOK
    <3>2. f \in Frame /\ f.kind = "deliver" /\ f.offset = pos
      BY <2>2, Frames
    <3> HIDE DEF f
    <3>3. \E k : Delivers(Append(net[n], f)) = {k} /\ Append(net[n], f)[k] = f
      BY <2>1, <3>1, <3>2, DeliversAppend
    <3> QED
      BY <3>1, <3>2, <3>3
  <2>4. DOMAIN tasks[n] = {}
    BY <2>1
  <2>5. ~closed[n] => Safe(pos)
    <3>1. \A o : ~Held(net[n], tasks[n], o)
      BY <2>1, <2>4 DEF Held
    <3> QED
      BY <2>1, <3>1 DEF Fit, InTurn, Safe
  <2>6. Known(n)'
    BY <1>0 DEF Fit, Known, Safe
  <2>7. Handed(n)'
    BY <1>0, <2>3, <2>4, <2>5 DEF Handed, Safe
  <2>8. OneUnderWay(n)'
    BY <1>0, <2>1, <2>2, <2>3 DEF OneUnderWay
  <2>9. Quiet(n)'
    BY <1>0, <2>1 DEF Fit, Quiet
  <2>10. Gone(n)'
    BY <1>0 DEF Fit, Gone
  <2>11. InTurn(n)'
    <3>1. Held(net'[n], tasks'[n], pos)
      BY <2>3 DEF Held
    <3>2. \A o \in 0 .. pos' - 1 : o = pos \/ o \in 0 .. pos - 1
      BY <2>2
    <3> QED
      BY <1>0, <2>5, <3>1, <3>2 DEF InTurn, Safe
  <2> QED
    BY <2>6, <2>7, <2>8, <2>9, <2>10, <2>11 DEF Fit
<1> QED
  BY <1>1, <1>2

(* declareConsumer and Redeclare: who subscribes has nothing under way.    *)
LEMMA SubscribedFit ==
  ASSUME TypeOK, NEW m \in Members, Subscribed(m), NEW n \in Members, Fit(n),
         life' = [life EXCEPT ![m] = "known"],
         life[m] = "new" \/ (~up[m] /\ tasks[m] = <<>>),
         UNCHANGED <<active, pos, net, closed, offset, local, answering, tasks, done>>
  PROVE  Fit(n)'
<1>1. CASE n # m
  <2>1. life'[n] = life[n] /\ credit'[n] = credit[n] /\ up'[n] = up[n]
    BY <1>1 DEF Subscribed, TypeOK
  <2> QED
    BY <2>1 DEF Fit, Known, Handed, OneUnderWay, Quiet, Gone, InTurn, Safe
<1>2. CASE n = m
  <2>1. life'[n] = "known" /\ credit'[n] = 1 /\ up'[n] = TRUE
    BY <1>2 DEF Subscribed, TypeOK
  <2>2. tasks[n] = <<>> /\ Delivers(net[n]) = {}
    BY <1>2 DEF Fit, Quiet
  <2> QED
    BY <2>1, <2>2 DEF Fit, Known, Handed, OneUnderWay, Quiet, Gone, InTurn, Safe
<1> QED
  BY <1>1, <1>2

(* QueryArrives: the stored offset is safe to start from, and so is one's  *)
(* own.                                                                    *)
LEMMA QueryArrivesFit ==
  ASSUME TypeOK, StoredFit, NEW m \in Members, QueryArrives(m), NEW n \in Members, Fit(n)
  PROVE  Fit(n)'
<1>0. UNCHANGED <<active, pos, credit, up, life, closed, offset, local, tasks, done>>
  BY DEF QueryArrives, broker
<1>1. CASE n # m
  <2>1. net'[n] = net[n] /\ answering'[n] = answering[n]
    BY <1>1 DEF QueryArrives, TypeOK
  <2> QED
    BY <1>0, <2>1 DEF Fit, Known, Handed, OneUnderWay, Quiet, Gone, InTurn, Safe
<1>2. CASE n = m
  <2> DEFINE answer == [offset |-> getConsumerOrServerSavedOffset(n), due |-> asked = n]
  <2>1. net[n] \in Seq(Frame) /\ net[n] # <<>> /\ net'[n] = Tail(net[n])
        /\ Head(net[n]).kind # "deliver"
    BY <1>2 DEF QueryArrives, TypeOK
  <2>2. /\ \A i \in Delivers(net'[n]) :
             i \in Nat /\ i + 1 \in Delivers(net[n]) /\ net'[n][i] = net[n][i + 1]
        /\ \A i \in Delivers(net[n]) : \E j \in Delivers(net'[n]) : net'[n][j] = net[n][i]
    <3>1. /\ \A i \in Delivers(Tail(net[n])) :
               i \in Nat /\ i + 1 \in Delivers(net[n]) /\ Tail(net[n])[i] = net[n][i + 1]
          /\ \A i \in Delivers(net[n]) :
               \E j \in Delivers(Tail(net[n])) : Tail(net[n])[j] = net[n][i]
      BY <2>1, DeliversTail
    <3> QED
      BY <2>1, <3>1
  <2>3. Safe(getConsumerOrServerSavedOffset(n)) /\ getConsumerOrServerSavedOffset(n) \in Nat
    <3>1. stored # <<>> => Head(stored) \in Nat
      BY HeadTailProperties DEF TypeOK
    <3> QED
      BY <3>1 DEF getConsumerOrServerSavedOffset, StoredFit, Fit, Known, TypeOK
  <2>4. answering'[n] = IF life[n] = "out" THEN answering[n] ELSE Append(answering[n], answer)
    BY <1>2 DEF QueryArrives, TypeOK
  <2>5. Known(n)'
    <3>1. \A i \in DOMAIN answering'[n] :
             \/ i \in DOMAIN answering[n] /\ answering'[n][i] = answering[n][i]
             \/ answering'[n][i] = answer
      <4>1. answer \in Answer /\ answering[n] \in Seq(Answer)
        BY <2>3 DEF Answer, TypeOK
      <4> HIDE DEF answer
      <4> QED
        BY <2>4, <4>1, AppendElements
    <3>2. \A i \in DOMAIN answering'[n] : Safe(answering'[n][i].offset)
      BY <2>3, <3>1 DEF Fit, Known
    <3> QED
      BY <1>0, <3>2 DEF Fit, Known, Safe
  <2>6. Handed(n)'
    BY <1>0, <2>2 DEF Fit, Handed, Safe
  <2>7. OneUnderWay(n)'
    <3>1. \A i, j \in Delivers(net'[n]) : i = j
      BY <2>2 DEF Fit, OneUnderWay
    <3> QED
      BY <1>0, <2>2, <3>1 DEF Fit, OneUnderWay
  <2>8. Quiet(n)'
    BY <1>0, <2>2 DEF Fit, Quiet
  <2>9. Gone(n)'
    BY <1>0, <2>4 DEF Fit, Gone
  <2>10. InTurn(n)'
    <3>1. \A o : Held(net[n], tasks[n], o) => Held(net'[n], tasks[n], o)
      BY <2>2 DEF Held
    <3> QED
      BY <1>0, <3>1 DEF Fit, InTurn
  <2> QED
    BY <2>5, <2>6, <2>7, <2>8, <2>9, <2>10 DEF Fit
<1> QED
  BY <1>1, <1>2

(* ConsumerUpdateResponse: who takes over starts where all before is       *)
(* handled.                                                                *)
LEMMA ConsumerUpdateResponseFit ==
  ASSUME TypeOK, NEW m \in Members, ConsumerUpdateResponse(m), Fit(m), NEW n \in Members, Fit(n)
  PROVE  Fit(n)'
<1> USE GroupAssumption
<1> DEFINE o == Head(answering[m]).offset
<1>0. UNCHANGED <<credit, net, up, life, closed, tasks, done>>
  BY DEF ConsumerUpdateResponse
<1>1. answering[m] \in Seq(Answer) /\ answering[m] # <<>>
  BY DEF ConsumerUpdateResponse, TypeOK
<1>2. /\ Tail(answering[m]) \in Seq(Answer)
      /\ 1 \in DOMAIN answering[m] /\ Head(answering[m]) = answering[m][1]
      /\ \A i \in DOMAIN Tail(answering[m]) :
           i + 1 \in DOMAIN answering[m] /\ Tail(answering[m])[i] = answering[m][i + 1]
  <2> DEFINE s == answering[m]
  <2>1. s \in Seq(Answer) /\ s # <<>>
    BY <1>1
  <2> HIDE DEF s
  <2>2. /\ Tail(s) \in Seq(Answer) /\ 1 \in DOMAIN s /\ Head(s) = s[1]
        /\ \A i \in DOMAIN Tail(s) : i + 1 \in DOMAIN s /\ Tail(s)[i] = s[i + 1]
    BY <2>1, TailElements
  <2> QED
    BY <2>2 DEF s
<1>3. Safe(o)
  BY <1>2 DEF Fit, Known
<1>4. /\ offset' = [offset EXCEPT ![m] = o] /\ local' = [local EXCEPT ![m] = o]
      /\ answering' = [answering EXCEPT ![m] = Tail(answering[m])]
  BY DEF ConsumerUpdateResponse, updateConsumerOffset
<1>5. \/ active' = 0
      \/ active' = m /\ pos' = o
      \/ active' = active /\ pos' = pos
  BY DEF ConsumerUpdateResponse
<1> HIDE DEF o
<1>6. Known(n)'
  <2>1. CASE n = m
    <3>1. offset'[n] = o /\ local'[n] = o /\ answering'[n] = Tail(answering[m])
      BY <1>4, <2>1 DEF TypeOK
    <3> QED
      BY <1>0, <1>2, <1>3, <2>1, <3>1 DEF Fit, Known, Safe
  <2>2. CASE n # m
    <3>1. offset'[n] = offset[n] /\ local'[n] = local[n] /\ answering'[n] = answering[n]
      BY <1>4, <2>2 DEF TypeOK
    <3> QED
      BY <1>0, <3>1 DEF Fit, Known, Safe
  <2> QED
    BY <2>1, <2>2
<1>7. Handed(n)' /\ OneUnderWay(n)' /\ Quiet(n)'
  BY <1>0 DEF Fit, Handed, OneUnderWay, Quiet, Safe
<1>8. Gone(n)'
  <2>1. CASE n = m
    BY <1>0, <1>1, <2>1 DEF Fit, Gone
  <2>2. CASE n # m
    <3>1. answering'[n] = answering[n]
      BY <1>4, <2>2 DEF TypeOK
    <3> QED
      BY <1>0, <1>5, <2>2, <3>1 DEF Fit, Gone, TypeOK
  <2> QED
    BY <2>1, <2>2
<1>9. InTurn(n)'
  BY <1>0, <1>3, <1>5 DEF Fit, InTurn, Safe, TypeOK
<1> QED
  BY <1>6, <1>7, <1>8, <1>9 DEF Fit

(* DeliveryArrives: the handler gets the message, or it is before the      *)
(* member's offset and so handled.                                         *)
LEMMA DeliveryArrivesFit ==
  ASSUME TypeOK, NEW m \in Members, DeliveryArrives(m), NEW n \in Members, Fit(n)
  PROVE  Fit(n)'
<1> USE GroupAssumption
<1>0. UNCHANGED <<active, pos, up, life, closed, offset, local, answering, done>>
  BY DEF DeliveryArrives
<1>1. CASE n # m
  <2>1. net'[n] = net[n] /\ tasks'[n] = tasks[n] /\ credit'[n] = credit[n]
    BY <1>1 DEF DeliveryArrives, Granted, TypeOK
  <2> QED
    BY <1>0, <2>1 DEF Fit, Known, Handed, OneUnderWay, Quiet, Gone, InTurn, Safe
<1>2. CASE n = m
  <2> DEFINE o == Head(net[n]).offset
  <2>1. net[n] \in Seq(Frame) /\ net[n] # <<>> /\ net'[n] = Tail(net[n])
        /\ Head(net[n]).kind = "deliver"
    BY <1>2 DEF DeliveryArrives, TypeOK
  <2>2. 1 \in Delivers(net[n]) /\ net[n][1].offset = o
    BY <2>1, DeliversTail
  <2>3. /\ credit[n] = 0 /\ tasks[n] = <<>> /\ life[n] # "new" /\ up[n]
        /\ \A i \in Delivers(net[n]) : i = 1
    BY <2>2 DEF Fit, OneUnderWay, Quiet
  <2>4. Delivers(net'[n]) = {}
    <3>1. \A i \in Delivers(Tail(net[n])) : i + 1 \in Delivers(net[n]) /\ i + 1 # 1
      BY <2>1, DeliversTail
    <3> QED
      BY <2>1, <2>3, <3>1
  <2>5. o \in Nat
    BY <2>1, TailElements, Frames
  <2>6. \/ life[n] = "out" /\ tasks'[n] = <<>> /\ credit'[n] = 0
        \/ /\ closed[n] \/ o < offset[n]
           /\ tasks'[n] = <<>> /\ credit'[n] \in {0, 1}
        \/ ~closed[n] /\ tasks'[n] = Append(<<>>, o) /\ credit'[n] = 0
    BY <1>2, <2>3 DEF DeliveryArrives, Skipped, Granted, TypeOK
  <2> HIDE DEF o
  <2>7. \/ tasks'[n] = <<>> /\ DOMAIN tasks'[n] = {}
        \/ /\ Len(tasks'[n]) = 1
           /\ \A i \in DOMAIN tasks'[n] : tasks'[n][i] = o
           /\ \E i \in DOMAIN tasks'[n] : tasks'[n][i] = o
    <3>1. /\ Len(Append(<<>>, o)) = 1
          /\ \A i \in DOMAIN Append(<<>>, o) : i \in DOMAIN <<>> \/ Append(<<>>, o)[i] = o
          /\ \E i \in DOMAIN Append(<<>>, o) : Append(<<>>, o)[i] = o
      BY <2>5, AppendElements, EmptySeq
    <3>2. DOMAIN <<>> = {}
      OBVIOUS
    <3> QED
      BY <2>6, <3>1, <3>2
  <2>8. Known(n)'
    BY <1>0 DEF Fit, Known, Safe
  <2>9. Handed(n)'
    <3>1. CASE tasks'[n] = <<>>
      BY <2>4, <2>7, <3>1, EmptySeq DEF Handed
    <3>2. CASE tasks'[n] # <<>>
      <4>1. Safe(o)
        BY <2>2, <2>6, <3>2 DEF Fit, Handed
      <4> QED
        BY <1>0, <2>4, <2>7, <3>2, <4>1 DEF Handed, Safe
    <3> QED
      BY <3>1, <3>2
  <2>10. OneUnderWay(n)'
    <3>1. tasks'[n] # <<>> => credit'[n] = 0 /\ Len(tasks'[n]) = 1
      BY <2>6, <2>7
    <3> QED
      BY <2>4, <2>6, <3>1 DEF OneUnderWay
  <2>11. Quiet(n)'
    BY <1>0, <2>3 DEF Quiet
  <2>12. Gone(n)'
    BY <1>0 DEF Fit, Gone
  <2>13. InTurn(n)'
    <3> SUFFICES ASSUME active = n, ~closed[n], NEW q \in 0 .. pos - 1, q \notin done
                 PROVE  Held(net'[n], tasks'[n], q)
      BY <1>0 DEF InTurn
    <3>1. Held(net[n], tasks[n], q)
      BY DEF Fit, InTurn
    <3>2. q = o
      <4>1. DOMAIN tasks[n] = {}
        BY <2>3
      <4> QED
        BY <2>2, <2>3, <3>1, <4>1 DEF Held
    <3>3. ~(o < offset[n])
      <4>1. 0 .. offset[n] - 1 \subseteq done /\ offset[n] \in Nat
        BY DEF Fit, Known, Safe, TypeOK
      <4> QED
        BY <2>5, <3>2, <4>1
    <3>4. tasks'[n] = Append(<<>>, o)
      BY <2>6, <3>3 DEF Fit, Gone
    <3>5. \E i \in DOMAIN tasks'[n] : tasks'[n][i] = o
      <4>1. \E i \in DOMAIN Append(<<>>, o) : Append(<<>>, o)[i] = o
        BY <2>5, AppendElements, EmptySeq
      <4> QED
        BY <3>4, <4>1
    <3> QED
      BY <3>2, <3>5 DEF Held
  <2> QED
    BY <2>8, <2>9, <2>10, <2>11, <2>12, <2>13 DEF Fit
<1> QED
  BY <1>1, <1>2

(* HandlerReturns: one more message is handled, and nothing is left in the *)
(* member's hands.                                                         *)
LEMMA HandlerReturnsFit ==
  ASSUME TypeOK, NEW m \in Members, NEW i, HandlerReturns(m, i), NEW n \in Members, Fit(n)
  PROVE  Fit(n)'
<1> USE GroupAssumption
<1>0. UNCHANGED <<active, pos, net, up, life, closed, offset, answering>> /\ done \subseteq done'
  BY DEF HandlerReturns
<1>1. CASE n # m
  <2>1. tasks'[n] = tasks[n] /\ credit'[n] = credit[n] /\ local'[n] = local[n]
    BY <1>1 DEF HandlerReturns, Granted, TypeOK
  <2> QED
    BY <1>0, <2>1 DEF Fit, Known, Handed, OneUnderWay, Quiet, Gone, InTurn, Safe
<1>2. CASE n = m
  <2>1. i \in DOMAIN tasks[n] /\ tasks[n] \in Seq(Nat)
    BY <1>2 DEF HandlerReturns, TypeOK
  <2>2. tasks[n] # <<>> /\ DOMAIN tasks[n] = 1 .. Len(tasks[n])
    BY <2>1, LenProperties
  <2>3. /\ credit[n] = 0 /\ Len(tasks[n]) = 1 /\ life[n] # "new" /\ Delivers(net[n]) = {}
    BY <2>2 DEF Fit, OneUnderWay, Quiet
  <2>4. /\ local'[n] = tasks[n][i] /\ done' = done \cup {tasks[n][i]}
        /\ tasks'[n] = RemoveAt(tasks[n], i)
    BY <1>2 DEF HandlerReturns, TypeOK
  <2>5. tasks'[n] = <<>> /\ DOMAIN tasks'[n] = {}
    BY <2>1, <2>3, <2>4, RemovedElements
  <2>6. credit'[n] = IF IsSubscribed(n) THEN 1 ELSE 0
    BY <1>2, <2>3 DEF HandlerReturns, Granted, TypeOK
  <2>7. Known(n)'
    <3>1. Safe(tasks[n][i])
      BY <2>1 DEF Fit, Handed
    <3> QED
      BY <1>0, <2>4, <3>1 DEF Fit, Known, Safe
  <2>8. Handed(n)'
    BY <1>0, <2>3, <2>5 DEF Handed
  <2>9. OneUnderWay(n)'
    BY <1>0, <2>3, <2>5, <2>6 DEF OneUnderWay
  <2>10. Quiet(n)'
    BY <1>0, <2>3, <2>6 DEF Quiet, IsSubscribed
  <2>11. Gone(n)'
    BY <1>0 DEF Fit, Gone
  <2>12. InTurn(n)'
    <3> SUFFICES ASSUME active = n, ~closed[n], NEW q \in 0 .. pos - 1
                 PROVE  q \in done'
      BY <1>0 DEF InTurn
    <3>1. q \in done \/ Held(net[n], tasks[n], q)
      BY DEF Fit, InTurn
    <3>2. Held(net[n], tasks[n], q) => q = tasks[n][i]
      BY <2>1, <2>2, <2>3 DEF Held
    <3> QED
      BY <2>4, <3>1, <3>2
  <2> QED
    BY <2>7, <2>8, <2>9, <2>10, <2>11, <2>12 DEF Fit
<1> QED
  BY <1>1, <1>2

(* What is stored, by a handler or from outside.                           *)
LEMMA HandlerReturnsStored ==
  ASSUME TypeOK, StoredFit, NEW m \in Members, Fit(m), NEW i, HandlerReturns(m, i)
  PROVE  StoredFit'
<1>1. i \in DOMAIN tasks[m] /\ done \subseteq done'
  BY DEF HandlerReturns
<1>2. Safe(tasks[m][i]) /\ Safe(local[m])
  BY <1>1 DEF Fit, Handed, Known
<1>3. stored' \in {stored, <<tasks[m][i]>>, <<local[m]>>}
  BY DEF HandlerReturns, storeOffset
<1> QED
  BY <1>1, <1>2, <1>3 DEF StoredFit, Safe

LEMMA StoreFromOutsideStored ==
  ASSUME TypeOK, StoredFit, NEW m \in Members, Fit(m), StoreFromOutside(m)
  PROVE  StoredFit'
<1>1. stored' \in {stored, <<local[m]>>} /\ done' = done
  BY DEF StoreFromOutside, storeOffset
<1> QED
  BY <1>1 DEF StoredFit, Safe, Fit, Known

-----------------------------------------------------------------------------
(* The invariant holds.                                                    *)

LEMMA InitIInv == Init => IInv
<1> SUFFICES ASSUME Init PROVE IInv
  OBVIOUS
<1> USE GroupAssumption
<1>1. TypeOK /\ StoredFit
  BY InitTypes DEF Init, StoredFit
<1>2. ASSUME NEW m \in Members PROVE Fit(m)
  <2>1. /\ offset[m] = 0 /\ local[m] = 0 /\ credit[m] = 0 /\ life[m] = "new"
        /\ answering[m] = <<>> /\ tasks[m] = <<>> /\ net[m] = <<>> /\ active # m
    BY DEF Init, Each
  <2>2. Delivers(net[m]) = {} /\ DOMAIN answering[m] = {} /\ DOMAIN tasks[m] = {}
    BY <2>1 DEF Delivers
  <2>3. Safe(0)
    BY DEF Safe
  <2> QED
    BY <2>1, <2>2, <2>3 DEF Fit, Known, Handed, OneUnderWay, Quiet, Gone, InTurn
<1> QED
  BY <1>1, <1>2 DEF IInv

LEMMA NextIInv == IInv /\ [Next]_vars => IInv'
<1> SUFFICES ASSUME IInv, [Next]_vars, ~overlap'
             PROVE  StoredFit' /\ \A n \in Members : Fit(n)'
  BY Types DEF IInv
<1>0. TypeOK
  BY DEF IInv
<1>1. ASSUME NEW m \in Members, Redeclare(m)
      PROVE  ~overlap /\ tasks[m] = <<>>
  BY <1>0, <1>1 DEF Redeclare, TypeOK
<1>2. ~overlap
  <2>1. ASSUME \A m \in Members : ~Redeclare(m) PROVE overlap' = overlap
    BY <2>1, ZenonT(30) DEF Next, MemberRuns, vars, Publish, BrokerAsks, Deliver, QueryArrives,
                ConsumerUpdateResponse, DeliveryArrives, HandlerReturns, closing,
                declareConsumer, StoreFromOutside, close, Unsubscribe, Drop, Crash
  <2> QED
    BY <1>1, <2>1
<1>3. StoredFit /\ \A m \in Members : Fit(m)
  BY <1>2 DEF IInv
<1>4. CASE UNCHANGED vars
  BY <1>3, <1>4, Unaffected DEF vars, broker, member, StoredFit, Safe
<1>5. CASE Publish
  BY <1>3, <1>5, Unaffected DEF Publish, member, StoredFit, Safe
<1>6. CASE BrokerAsks
  <2>1. StoredFit'
    BY <1>3, <1>6 DEF BrokerAsks, StoredFit, Safe
  <2> QED
    BY <1>0, <1>3, <1>6, <2>1, BrokerAsksFit
<1>7. ASSUME NEW m \in Members, Deliver(m)
      PROVE  StoredFit' /\ \A n \in Members : Fit(n)'
  <2>1. StoredFit'
    BY <1>3, <1>7 DEF Deliver, StoredFit, Safe
  <2> QED
    BY <1>0, <1>3, <1>7, <2>1, DeliverFit
<1>8. ASSUME NEW m \in Members, declareConsumer(m)
      PROVE  StoredFit' /\ \A n \in Members : Fit(n)'
  <2>1. /\ StoredFit' /\ Subscribed(m) /\ life[m] = "new" /\ life' = [life EXCEPT ![m] = "known"]
        /\ UNCHANGED <<active, pos, net, closed, offset, local, answering, tasks, done>>
    BY <1>3, <1>8 DEF declareConsumer, StoredFit, Safe
  <2> QED
    BY <1>0, <1>3, <2>1, SubscribedFit
<1>9. ASSUME NEW m \in Members, QueryArrives(m)
      PROVE  StoredFit' /\ \A n \in Members : Fit(n)'
  <2>1. StoredFit'
    BY <1>3, <1>9 DEF QueryArrives, broker, StoredFit, Safe
  <2> QED
    BY <1>0, <1>3, <1>9, <2>1, QueryArrivesFit
<1>10. ASSUME NEW m \in Members, ConsumerUpdateResponse(m)
       PROVE  StoredFit' /\ \A n \in Members : Fit(n)'
  <2>1. StoredFit'
    BY <1>3, <1>10 DEF ConsumerUpdateResponse, StoredFit, Safe
  <2> QED
    BY <1>0, <1>3, <1>10, <2>1, ConsumerUpdateResponseFit
<1>11. ASSUME NEW m \in Members, DeliveryArrives(m)
       PROVE  StoredFit' /\ \A n \in Members : Fit(n)'
  <2>1. StoredFit'
    BY <1>3, <1>11 DEF DeliveryArrives, StoredFit, Safe
  <2> QED
    BY <1>0, <1>3, <1>11, <2>1, DeliveryArrivesFit
<1>12. ASSUME NEW m \in Members, NEW i, HandlerReturns(m, i)
       PROVE  StoredFit' /\ \A n \in Members : Fit(n)'
  BY <1>0, <1>3, <1>12, HandlerReturnsFit, HandlerReturnsStored
<1>13. ASSUME NEW m \in Members, StoreFromOutside(m)
       PROVE  StoredFit' /\ \A n \in Members : Fit(n)'
  <2>1. UNCHANGED <<active, pos, credit, net, up, life, closed, offset, local, answering,
                    tasks, done>>
    BY <1>13 DEF StoreFromOutside, member
  <2>2. \A n \in Members : Fit(n)'
    BY <1>3, <2>1, Unaffected
  <2> QED
    BY <1>0, <1>3, <1>13, <2>2, StoreFromOutsideStored
<1>14. ASSUME \A n \in Members : Departing(n), UNCHANGED <<stored, done>>
       PROVE  StoredFit' /\ \A n \in Members : Fit(n)'
  <2>1. StoredFit'
    BY <1>3, <1>14 DEF StoredFit, Safe
  <2> QED
    BY <1>0, <1>3, <1>14, <2>1, Departed
<1>15. ASSUME NEW m \in Members, close(m) \/ Unsubscribe(m) \/ closing(m) \/ Drop(m) \/ Crash(m)
       PROVE  StoredFit' /\ \A n \in Members : Fit(n)'
  <2>1. \A n \in Members : Departing(n)
    BY <1>0, <1>15, closeDeparts, UnsubscribeDeparts, closingDeparts, DropDeparts, CrashDeparts
  <2>2. UNCHANGED <<stored, done>>
    BY <1>15 DEF close, Unsubscribe, closing, Drop, Crash
  <2> QED
    BY <1>14, <2>1, <2>2
<1>16. ASSUME NEW m \in Members, Redeclare(m)
       PROVE  StoredFit' /\ \A n \in Members : Fit(n)'
  <2>1. /\ StoredFit' /\ Subscribed(m) /\ ~up[m] /\ life' = [life EXCEPT ![m] = "known"]
        /\ UNCHANGED <<active, pos, net, closed, offset, local, answering, tasks, done>>
    BY <1>3, <1>16 DEF Redeclare, StoredFit, Safe
  <2> QED
    BY <1>0, <1>1, <1>3, <1>16, <2>1, SubscribedFit
<1> QED
  BY <1>4, <1>5, <1>6, <1>7, <1>8, <1>9, <1>10, <1>11, <1>12, <1>13, <1>15, <1>16
  DEF Next, MemberRuns

(* The types and the rest of the invariant hold for all members, whatever  *)
(* they do and whatever becomes of their connections.                      *)
THEOREM GroupInvariant == Spec => []IInv
  BY InitIInv, NextIInv, PTL DEF Spec

(* What is in a member's hands, as the property says it.                   *)
LEMMA HeldIsInHand ==
  ASSUME NEW m \in Members, NEW o, Held(net[m], tasks[m], o)
  PROVE  o \in InHand(m)
  BY DEF Held, Delivers, InHand, ToSet

(* StoredSafe for any number of members and messages: whatever a handler,  *)
(* the listener or the application stores through storeOffset, in whatever *)
(* order with drops, hand-overs and restarts, every message before it has  *)
(* been handled.                                                           *)
THEOREM StoredIsSafe == Spec => []StoredSafe
<1>1. IInv => StoredSafe
  BY DEF IInv, StoredFit, Safe, StoredSafe
<1> QED
  BY <1>1, GroupInvariant, PTL

(* GroupSkipsNothing for any number of members and messages: the answer to *)
(* consumer_update lets the next active member start where nothing is      *)
(* passed over.                                                            *)
THEOREM HandOverSkipsNothing == Spec => []GroupSkipsNothing
<1>1. IInv => GroupSkipsNothing
  <2> SUFFICES ASSUME IInv, active # 0, ~overlap, ~closed[active], NEW o \in 0 .. pos - 1
               PROVE  o \in done \cup InHand(active)
    BY DEF GroupSkipsNothing
  <2>1. active \in Members /\ InTurn(active)
    BY DEF IInv, TypeOK, Fit
  <2> QED
    BY <2>1, HeldIsInHand DEF InTurn
<1> QED
  BY <1>1, GroupInvariant, PTL
=============================================================================
