----------------------------- MODULE ConsumerGroup -----------------------------
(***************************************************************************)
(* Single active consumers with one reference on one stream, which may be  *)
(* a partition of a super stream: the hand-over of the active role by      *)
(* ConsumerUpdate (getConsumerUpdateCallback of client.ts), the offsets    *)
(* that are stored and asked for (consumer.ts), and members that join,     *)
(* leave, are closed, lose their connection or crash                       *)
(* (super_stream_consumer.ts, client.ts).                                  *)
(*                                                                         *)
(* Every message is a chunk of its own and is its offset; the credit       *)
(* policy is the default one.  The broker is modelled as this code uses    *)
(* it: it asks, waits for the answer, and delivers to one member.          *)
(***************************************************************************)
EXTENDS Naturals, Sequences, FiniteSets, SequencesExt

CONSTANTS
  Members,      \* numbers from 1 on
  NumMessages,  \* bound: messages the stream ever holds
  Plans         \* what the application does and what may happen, see Plan

Events == {"close", "closeConsumer", "drop", "crash"}

(* listens: the members have the consumerUpdateListener of the README.     *)
(* stores: the handler stores the offset of the message, or the local one, *)
(* at its end, or the local one is stored from outside at any time.        *)
(* shared: all members are on one connection.  super: the stream is a      *)
(* partition of a super stream, over whose members the broker distributes  *)
(* the partitions by their rank; of a plain stream the first stays active, *)
(* and of a partition too, as soon as a member comes without the property. *)
Plan == [listens : BOOLEAN, stores : {"message", "local", "outside"}, shared : BOOLEAN,
         super : BOOLEAN, rank : Nat,
         limit : [Events -> Nat]]

ASSUME GroupAssumption ==
  /\ IsFiniteSet(Members) /\ Members \subseteq Nat \ {0}
  /\ NumMessages \in Nat /\ \A p \in Plans : p \in Plan

VARIABLES
  plan,
  tail,       \* broker: number of messages in the stream
  stored,     \* broker: the stored offset, <<>> as long as there is none
  group,      \* broker: the subscribed members, in order
  plain,      \* broker: whose last Subscribe had no "super-stream" property
  active,     \* broker: who is active, 0 for nobody
  asked,      \* broker: who was asked and has not answered, 0 for nobody
  pos,        \* broker: the next message for the active member
  credit,     \* broker: the credit of a member
  net,        \* frames on their way to a member
  up,         \* the member's connection is up
  life,       \* "new", "known" (in Client.consumers), "leaving" or "out"
  closed,     \* StreamConsumer.closed
  offset,     \* StreamConsumer.offset
  local,      \* StreamConsumer.clientLocalOffset
  answering,  \* the running consumer_update callbacks of a member
  tasks,      \* the messages in the hands of a member's handler
  done,       \* history: messages a handler has returned from
  overlap,    \* history: a member came back with a delivery still running
  used        \* used[e]: how often event e happened

broker == <<tail, stored, group, active, asked, pos, credit>>
member == <<life, closed, offset, local, answering, tasks>>
vars == <<plan, plain, broker, net, up, member, done, overlap, used>>

Each(x) == [m \in Members |-> x]

(* Offset.first of the declaration has no value; 0 stands for it.          *)
Init ==
  /\ plan \in Plans /\ plain = IF plan.super THEN {} ELSE Members
  /\ tail = 0 /\ stored = <<>> /\ group = <<>> /\ active = 0 /\ asked = 0
  /\ pos = 0 /\ credit = Each(0) /\ net = Each(<<>>) /\ up = Each(FALSE)
  /\ life = Each("new") /\ closed = Each(FALSE) /\ offset = Each(0) /\ local = Each(0)
  /\ answering = Each(<<>>) /\ tasks = Each(<<>>)
  /\ done = {} /\ overlap = FALSE /\ used = [e \in Events |-> 0]

Spend(e) == used[e] < plan.limit[e] /\ used' = [used EXCEPT ![e] = @ + 1]

-----------------------------------------------------------------------------
(* The broker.                                                             *)

Publish ==
  /\ tail < NumMessages /\ tail' = tail + 1
  /\ UNCHANGED <<plan, plain, stored, group, active, asked, pos, credit, net, up, member, done, overlap, used>>

Chosen ==
  IF group = <<>> THEN 0
  ELSE IF plain \cap ToSet(group) # {} THEN IF active # 0 THEN active ELSE Head(group)
  ELSE group[(plan.rank % Len(group)) + 1]

(* The active member is asked to step down, then the next one to take over.*)
BrokerAsks ==
  /\ asked = 0 /\ Chosen # active
  /\ asked' = IF active # 0 THEN active ELSE Chosen
  /\ net' = [net EXCEPT ![asked'] = Append(@, [kind |-> "query"])]
  /\ UNCHANGED <<plan, plain, tail, stored, group, active, pos, credit, up, member, done, overlap, used>>

Deliver(m) ==
  /\ active = m /\ asked = 0 /\ credit[m] > 0 /\ pos < tail
  /\ net' = [net EXCEPT ![m] = Append(@, [kind |-> "deliver", offset |-> pos])]
  /\ pos' = pos + 1 /\ credit' = [credit EXCEPT ![m] = @ - 1]
  /\ UNCHANGED <<plan, plain, tail, stored, group, active, asked, up, member, done, overlap, used>>

Leave(ms) ==
  /\ group' = SelectSeq(group, LAMBDA m : m \notin ms)
  /\ active' = IF active \in ms THEN 0 ELSE active
  /\ asked' = IF asked \in ms THEN 0 ELSE asked
  /\ credit' = [m \in Members |-> IF m \in ms THEN 0 ELSE credit[m]]

(* The connection of the members ms ends.                                  *)
Cut(ms) ==
  /\ Leave(ms)
  /\ net' = [m \in Members |-> IF m \in ms THEN <<>> ELSE net[m]]
  /\ up' = [m \in Members |-> up[m] /\ m \notin ms]

Subscribed(m) ==
  /\ group' = Append(group, m) /\ credit' = [credit EXCEPT ![m] = 1]
  /\ up' = [up EXCEPT ![m] = TRUE]

(* The broker has a subscription of m until an Unsubscribe or the end of   *)
(* the connection, and drops a credit for any other.                       *)
IsSubscribed(m) == up[m] /\ life[m] = "known"
Granted(m) == credit' = IF IsSubscribed(m) THEN [credit EXCEPT ![m] = @ + 1] ELSE credit

-----------------------------------------------------------------------------
(* A member.                                                               *)

declareConsumer(m) ==
  /\ life[m] = "new"
  /\ life' = [life EXCEPT ![m] = "known"]
  /\ Subscribed(m)
  /\ UNCHANGED <<plan, plain, tail, stored, active, asked, pos, net, closed, offset, local,
                 answering, tasks, done, overlap, used>>

(* The listener asks for the stored offset; when there is none it throws.  *)
getConsumerOrServerSavedOffset(m) ==
  IF plan.listens /\ stored # <<>> THEN Head(stored) ELSE offset[m]

(* A mutant of QueryArrives: who steps down does not answer.               *)
QueryArrivesMutant(m) ==
  /\ net[m] # <<>> /\ Head(net[m]).kind = "query"
  /\ net' = [net EXCEPT ![m] = Tail(@)]
  /\ answering' = IF life[m] = "out" \/ active = m THEN answering
       ELSE [answering EXCEPT ![m] =
               Append(@, [offset |-> getConsumerOrServerSavedOffset(m), due |-> asked = m])]
  /\ UNCHANGED <<plan, plain, broker, up, life, closed, offset, local, tasks, done, overlap, used>>

(* The callback of consumer_update; whether the member becomes active or   *)
(* steps down makes no difference to it.                                   *)
QueryArrives(m) ==
  /\ net[m] # <<>> /\ Head(net[m]).kind = "query"
  /\ net' = [net EXCEPT ![m] = Tail(@)]
  /\ answering' = IF life[m] = "out" THEN answering
       ELSE [answering EXCEPT ![m] =
               Append(@, [offset |-> getConsumerOrServerSavedOffset(m), due |-> asked = m])]
  /\ UNCHANGED <<plan, plain, broker, up, life, closed, offset, local, tasks, done, overlap, used>>

updateConsumerOffset(m, o) ==
  /\ offset' = [offset EXCEPT ![m] = o]
  /\ local' = [local EXCEPT ![m] = o]

(* The answer.  One that is late for its connection is ignored.            *)
ConsumerUpdateResponse(m) ==
  /\ answering[m] # <<>>
  /\ answering' = [answering EXCEPT ![m] = Tail(@)]
  /\ LET answer == Head(answering[m]) IN
     /\ updateConsumerOffset(m, answer.offset)
     /\ \/ /\ answer.due
           /\ asked' = 0
           /\ active' = IF active = m THEN 0 ELSE m
           /\ pos' = IF active = m THEN pos ELSE answer.offset
        \/ /\ ~answer.due
           /\ UNCHANGED <<asked, active, pos>>
  /\ UNCHANGED <<plan, plain, tail, stored, group, credit, net, up, life, closed, tasks, done, overlap, used>>

(* A mutant of Skipped: the message at the offset is left out too.         *)
SkippedMutant(m, o) == closed[m] \/ o <= offset[m]

(* StreamConsumer.handle returns without calling the handler.              *)
Skipped(m, o) == closed[m] \/ o < offset[m]

(* A mutant of DeliveryArrives: credit is asked for before the handler is  *)
(* called.                                                                 *)
DeliveryArrivesMutant(m) ==
  /\ net[m] # <<>> /\ Head(net[m]).kind = "deliver"
  /\ net' = [net EXCEPT ![m] = Tail(@)]
  /\ Granted(m)
  /\ LET o == Head(net[m]).offset IN
     tasks' = IF life[m] # "out" /\ ~Skipped(m, o)
              THEN [tasks EXCEPT ![m] = Append(@, o)] ELSE tasks
  /\ UNCHANGED <<plan, plain, tail, stored, group, active, asked, pos, up, life, closed, offset, local,
                 answering, done, overlap, used>>

(* handleDelivery: the handler is called, or the chunk is over at once and *)
(* the next one is asked for.                                              *)
DeliveryArrives(m) ==
  /\ net[m] # <<>> /\ Head(net[m]).kind = "deliver"
  /\ net' = [net EXCEPT ![m] = Tail(@)]
  /\ LET o == Head(net[m]).offset IN
     \/ life[m] = "out" /\ UNCHANGED <<tasks, credit>>
     \/ life[m] # "out" /\ Skipped(m, o) /\ Granted(m) /\ UNCHANGED tasks
     \/ /\ life[m] # "out" /\ ~Skipped(m, o)
        /\ tasks' = [tasks EXCEPT ![m] = Append(@, o)]
        /\ UNCHANGED credit
  /\ UNCHANGED <<plan, plain, tail, stored, group, active, asked, pos, up, life, closed, offset, local,
                 answering, done, overlap, used>>

(* storeOffset takes the offset 0 for none given.  A request that gets to  *)
(* the broker late is one whose handler returned late.                     *)
storeOffset(m, o) ==
  stored' = IF up[m] THEN <<IF o > 0 THEN o ELSE local[m]>> ELSE stored

(* The handler stores, returns, and the next chunk is asked for.           *)
HandlerReturns(m, i) ==
  /\ i \in DOMAIN tasks[m]
  /\ LET o == tasks[m][i] IN
     /\ \/ plan.stores = "message" /\ storeOffset(m, o)
        \/ plan.stores = "local" /\ storeOffset(m, 0)
        \/ plan.stores = "outside" /\ UNCHANGED stored
     /\ local' = [local EXCEPT ![m] = o]
     /\ done' = done \cup {o}
  /\ tasks' = [tasks EXCEPT ![m] = RemoveAt(@, i)]
  /\ Granted(m)
  /\ UNCHANGED <<plan, plain, tail, group, active, asked, pos, net, up, life, closed, offset,
                 answering, overlap, used>>

StoreFromOutside(m) ==
  /\ plan.stores = "outside" /\ up[m] /\ stored # <<local[m]>>
  /\ storeOffset(m, 0)
  /\ UNCHANGED <<plan, plain, tail, group, active, asked, pos, credit, net, up, member, done, overlap, used>>

-----------------------------------------------------------------------------
(* Members leave and come back.                                            *)

(* Who is on the connection of m, and whether m is its last user.          *)
Mates(m) == {m} \cup {n \in Members : plan.shared /\ up[n]}
LastUser(m) == \A n \in Mates(m) \ {m} : closed[n]

(* close: no Unsubscribe, and the consumer stays in the map.  So does the  *)
(* close of a SuperStreamConsumer for each of its partitions.              *)
close(m) ==
  /\ up[m] /\ life[m] = "known" /\ ~closed[m] /\ Spend("close")
  /\ closed' = [closed EXCEPT ![m] = TRUE]
  /\ answering' = [n \in Members |-> IF LastUser(m) /\ n \in Mates(m)
       THEN [i \in DOMAIN answering[n] |-> [answering[n][i] EXCEPT !.due = FALSE]] ELSE answering[n]]
  /\ \/ LastUser(m) /\ Cut(Mates(m))
     \/ ~LastUser(m) /\ UNCHANGED <<group, active, asked, credit, net, up>>
  /\ UNCHANGED <<plan, plain, tail, stored, pos, life, offset, local, tasks, done, overlap>>

(* closeConsumer: Unsubscribe and its answer, ...                          *)
Unsubscribe(m) ==
  /\ up[m] /\ life[m] = "known" /\ ~closed[m] /\ Spend("closeConsumer")
  /\ life' = [life EXCEPT ![m] = "leaving"]
  /\ answering' = [answering EXCEPT ![m] = [i \in DOMAIN @ |-> [@[i] EXCEPT !.due = FALSE]]]
  /\ Leave({m})
  /\ UNCHANGED <<plan, plain, tail, stored, pos, net, up, closed, offset, local, tasks, done, overlap>>

(* ... then the close, and the consumer leaves the map.                    *)
closing(m) ==
  /\ life[m] = "leaving" /\ up[m]
  /\ life' = [life EXCEPT ![m] = "out"] /\ closed' = [closed EXCEPT ![m] = TRUE]
  /\ \/ LastUser(m) /\ Cut(Mates(m))
     \/ ~LastUser(m) /\ UNCHANGED <<group, active, asked, credit, net, up>>
  /\ UNCHANGED <<plan, plain, tail, stored, pos, offset, local, answering, tasks, done, overlap, used>>

(* A connection fails; the handlers of its members go on.                  *)
Drop(m) ==
  /\ up[m] /\ Spend("drop")
  /\ Cut(Mates(m))
  /\ answering' = [n \in Members |-> IF n \in Mates(m)
       THEN [i \in DOMAIN answering[n] |-> [answering[n][i] EXCEPT !.due = FALSE]] ELSE answering[n]]
  /\ UNCHANGED <<plan, plain, tail, stored, pos, life, closed, offset, local, tasks, done, overlap>>

(* The process of a connection crashes, in the middle of its handlers.     *)
Crash(m) ==
  /\ up[m] /\ Spend("crash")
  /\ Cut(Mates(m))
  /\ life' = [n \in Members |-> IF n \in Mates(m) THEN "out" ELSE life[n]]
  /\ tasks' = [n \in Members |-> IF n \in Mates(m) THEN <<>> ELSE tasks[n]]
  /\ answering' = [n \in Members |-> IF n \in Mates(m) THEN <<>> ELSE answering[n]]
  /\ UNCHANGED <<plan, plain, tail, stored, pos, closed, offset, local, done, overlap>>

(* Client.restart subscribes every consumer in the map again, even one     *)
(* whose closeConsumer waits for a lost answer; the offset it gives is not *)
(* looked at, as the broker asks for one.  It does not pass on the super   *)
(* stream, so that the property is missing.                                *)
Redeclare(m) ==
  /\ life[m] \in {"known", "leaving"} /\ ~up[m]
  /\ life' = [life EXCEPT ![m] = "known"]
  /\ Subscribed(m) /\ plain' = plain \cup {m}
  /\ overlap' = (overlap \/ tasks[m] # <<>>)
  /\ UNCHANGED <<plan, tail, stored, active, asked, pos, net, closed, offset, local,
                 answering, tasks, done, used>>

-----------------------------------------------------------------------------
MemberRuns(m) ==
  \/ QueryArrives(m) \/ ConsumerUpdateResponse(m) \/ DeliveryArrives(m)
  \/ \E i \in 1 .. NumMessages : HandlerReturns(m, i)
  \/ closing(m)

Next ==
  \/ Publish \/ BrokerAsks
  \/ \E m \in Members :
       \/ Deliver(m) \/ MemberRuns(m) \/ declareConsumer(m) \/ StoreFromOutside(m)
       \/ close(m) \/ Unsubscribe(m) \/ Drop(m) \/ Crash(m) \/ Redeclare(m)

Spec == Init /\ [][Next]_vars

(* The broker asks and delivers, the event loops run, handlers and         *)
(* listeners return, and the application restarts a client whose           *)
(* connection has failed.                                                  *)
Fairness ==
  /\ WF_vars(BrokerAsks)
  /\ \A m \in Members : WF_vars(Deliver(m)) /\ WF_vars(MemberRuns(m)) /\ WF_vars(Redeclare(m))

FairSpec == Spec /\ Fairness
-----------------------------------------------------------------------------
(* Properties.                                                             *)

(* A member closed without Unsubscribe whom the broker still counts on.    *)
Starving == \E m \in ToSet(group) : closed[m]

(* Whatever is stored, by whomever and however late, every message before  *)
(* it has been handled: who resumes there after a crash loses nothing.  It *)
(* holds until a member comes back with a delivery still running, after    *)
(* which its handler has two messages at once.                             *)
StoredSafe ==
  ~overlap /\ stored # <<>> => \A o \in 0 .. Head(stored) - 1 : o \in done

(* The hand-over skips nothing: what the active member will not be sent    *)
(* has been handled, by whomever, or is on its way to the member or in its *)
(* hands.  A member that was closed but is still subscribed loses what it  *)
(* is sent while it is active, and no longer.                              *)
InHand(m) ==
  {f.offset : f \in {f \in ToSet(net[m]) : f.kind = "deliver"}} \cup ToSet(tasks[m])
GroupSkipsNothing ==
  active # 0 /\ ~overlap /\ ~closed[active] =>
    \A o \in 0 .. pos - 1 : o \in done \cup InHand(active)

(* If in the end somebody is subscribed, and nobody who was closed without *)
(* Unsubscribe, every message is handled, with the same exception: what    *)
(* the handler of a member that came back passed over is stored as handled.*)
GroupHandlesAll ==
  <>[](group # <<>> /\ ~Starving /\ ~overlap) => []<>(\A o \in 0 .. tail - 1 : o \in done)
=============================================================================
