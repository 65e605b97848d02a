------------------------------ MODULE Consumer ------------------------------
(***************************************************************************)
(* One StreamConsumer, the deliveries that Client.handleDelivery runs for  *)
(* it, its credit policy, and what Client.restart and the closes do to it  *)
(* (consumer.ts, consumer_credit_policy.ts, client.ts), with the broker's  *)
(* side of the subscription as that code uses it.                          *)
(*                                                                         *)
(* The stream is a sequence of chunks of ChunkSize messages; a message is  *)
(* its offset.  A delivery is an asynchronous call that awaits every call  *)
(* of the application's handler, so several may run at once.               *)
(***************************************************************************)
EXTENDS Naturals, Sequences, FiniteSets

CONSTANTS
  NumChunks,     \* bound: chunks the stream ever holds
  ChunkSize,     \* messages of a chunk
  Policies,      \* the credit policies there are, by when they ask: "received", "completed"
  StartFrom,     \* credit asked for with the subscription
  Step,          \* credit asked for by each chunk
  StartType,     \* type of the offset the consumer was declared with
  StartValue,    \* its value, when the type is "numeric"
  Budgets        \* bound: how often the events of Events may happen, together

Events == {"drop", "restart", "throw", "close"}
OffsetTypes == {"first", "last", "next", "numeric", "timestamp"}

ASSUME ConsumerAssumption ==
  /\ NumChunks \in Nat
  /\ ChunkSize \in Nat \ {0}
  /\ Policies \subseteq {"received", "completed"}
  /\ StartFrom \in Nat \ {0}
  /\ Step \in Nat \ {0}
  /\ StartType \in OffsetTypes
  /\ StartValue \in Nat
  /\ Budgets \subseteq [Events -> Nat]

VARIABLES
  tail,      \* broker: number of chunks in the stream
  sub,       \* broker: the subscription: on, the next chunk, the credit
  net,       \* Deliver frames on their way to the client: chunk numbers
  conn,      \* the connection: "up", "down", "opening", "handshake"
  tasks,     \* the running calls of handleDelivery, in order of arrival
  policy,    \* StreamConsumer.creditPolicy
  offset,    \* StreamConsumer.offset
  local,     \* StreamConsumer.clientLocalOffset
  closed,    \* StreamConsumer.closed
  known,     \* the consumer is in Client.consumers
  leaving,   \* closeConsumer has unsubscribed and goes on to close
  handled,   \* history: the offsets the handler was called with, in order
  done,      \* history: the offsets the handler has returned from
  origin,    \* history: the first offset the application asked for
  restarted, \* history: Client.restart has replaced the connection
  used       \* used[e]: how often event e happened

consumer == <<policy, offset, local, closed, known, leaving>>
history  == <<handled, done, origin, restarted>>
vars == <<tail, sub, net, conn, tasks, consumer, history, used>>

Chunks == 1 .. NumChunks
Offsets == 0 .. NumChunks * ChunkSize - 1
ChunkOf(o) == o \div ChunkSize + 1
FirstOf(c) == (c - 1) * ChunkSize
Task == [chunk : Chunks, at : 0 .. ChunkSize, phase : {"granting", "ready", "handling"}]

(* A timestamp offset holds milliseconds: beyond every offset there is.    *)
Millis == NumChunks * ChunkSize + 1
Offset(type, value) == [type |-> type, value |-> value]

(* getOffset: the value of clientLocalOffset, 0 when it has none.          *)
getOffset == IF local.type \in {"numeric", "timestamp"} THEN local.value ELSE 0

Spend(e) == used' = [used EXCEPT ![e] = @ + 1] /\ used' \in Budgets

-----------------------------------------------------------------------------
(* The broker.                                                             *)

(* Where a subscription from numeric offset v starts: at the chunk that    *)
(* holds it, or at the end of the stream.                                  *)
Position(v) == IF v < tail * ChunkSize THEN ChunkOf(v) ELSE tail + 1

(* The chunks a subscription may start at, by the type of its offset.      *)
Positions(type, value) ==
  CASE type = "first"     -> {1}
    [] type = "last"      -> {IF tail = 0 THEN 1 ELSE tail}
    [] type = "next"      -> {tail + 1}
    [] type = "numeric"   -> {Position(value)}
    [] type = "timestamp" -> 1 .. tail + 1

Init ==
  /\ tail \in 0 .. NumChunks
  /\ \E first \in Positions(StartType, StartValue) :
       /\ sub = [on |-> TRUE, next |-> first, credit |-> StartFrom]
       /\ origin = IF StartType = "numeric" THEN StartValue ELSE FirstOf(first)
  /\ net = <<>> /\ conn = "up" /\ tasks = <<>>
  /\ offset = Offset(StartType, CASE StartType = "numeric" -> StartValue
                                  [] StartType = "timestamp" -> Millis
                                  [] OTHER -> 0)
  /\ local = offset
  /\ policy \in Policies /\ closed = FALSE /\ known = TRUE /\ leaving = FALSE
  /\ handled = <<>> /\ done = {} /\ restarted = FALSE
  /\ used = [e \in Events |-> 0]

Publish ==
  /\ tail < NumChunks
  /\ tail' = tail + 1
  /\ UNCHANGED <<sub, net, conn, tasks, consumer, history, used>>

Deliver ==
  /\ sub.on /\ sub.credit > 0 /\ sub.next <= tail
  /\ net' = Append(net, sub.next)
  /\ sub' = [sub EXCEPT !.next = @ + 1, !.credit = @ - 1]
  /\ UNCHANGED <<tail, conn, tasks, consumer, history, used>>

(* The broker takes a Credit request; one it has no subscription for, or   *)
(* that a socket which is not open drops, has no effect.                   *)
Granted(n) == sub' = IF sub.on /\ conn = "up" THEN [sub EXCEPT !.credit = @ + n] ELSE sub

-----------------------------------------------------------------------------
(* A delivery.                                                             *)

(* A mutant of ChunkArrives: both policies ask for credit at once.         *)
ChunkArrivesMutant ==
  /\ net # <<>>
  /\ net' = Tail(net)
  /\ \/ /\ ~known
        /\ UNCHANGED <<tasks, sub>>
     \/ /\ known
        /\ Granted(Step)
        /\ tasks' = Append(tasks, [chunk |-> Head(net), at |-> 0, phase |-> "ready"])
  /\ UNCHANGED <<tail, conn, consumer, history, used>>

(* handleDelivery starts; onChunkReceived asks for credit and waits for    *)
(* the write when the policy says so.                                      *)
ChunkArrives ==
  /\ net # <<>>
  /\ net' = Tail(net)
  /\ \/ /\ ~known
        /\ UNCHANGED <<tasks, sub>>
     \/ /\ known /\ policy = "received"
        /\ Granted(Step)
        /\ tasks' = Append(tasks, [chunk |-> Head(net), at |-> 0, phase |-> "granting"])
     \/ /\ known /\ policy = "completed"
        /\ UNCHANGED sub
        /\ tasks' = Append(tasks, [chunk |-> Head(net), at |-> 0, phase |-> "ready"])
  /\ UNCHANGED <<tail, conn, consumer, history, used>>

InTask(i, phase) == i \in DOMAIN tasks /\ tasks[i].phase = phase
without(s, i) == SubSeq(s, 1, i - 1) \o SubSeq(s, i + 1, Len(s))

(* The writes of the credit requests end in order.  One is done, or it     *)
(* fails: then handleDelivery rejects and the chunk is never handled.      *)
CreditWritten(i) ==
  /\ InTask(i, "granting") /\ \A j \in 1 .. i - 1 : ~InTask(j, "granting")
  /\ \/ /\ conn = "up"
        /\ tasks' = [tasks EXCEPT ![i].phase = "ready"]
     \/ /\ conn = "down"
        /\ tasks' = without(tasks, i)
  /\ UNCHANGED <<tail, sub, net, conn, consumer, history, used>>

Current(i) == FirstOf(tasks[i].chunk) + tasks[i].at

(* StreamConsumer.handle returns without calling the handler.              *)
Skipped(o) == closed \/ (offset.type = "numeric" /\ o < offset.value)

(* The next message of the chunk is passed over ...                        *)
SkipMessage(i) ==
  /\ InTask(i, "ready") /\ tasks[i].at < ChunkSize
  /\ Skipped(Current(i))
  /\ tasks' = [tasks EXCEPT ![i].at = @ + 1]
  /\ UNCHANGED <<tail, sub, net, conn, consumer, history, used>>

(* A mutant of HandlerStarts: the local offset is advanced too early.      *)
HandlerStartsMutant(i) ==
  /\ InTask(i, "ready") /\ tasks[i].at < ChunkSize
  /\ ~Skipped(Current(i))
  /\ tasks' = [tasks EXCEPT ![i].phase = "handling"]
  /\ handled' = Append(handled, Current(i))
  /\ local' = Offset("numeric", Current(i))
  /\ UNCHANGED <<tail, sub, net, conn, policy, offset, closed, known, leaving, done, origin, restarted, used>>

(* ... or given to the handler, which returns later, or throws.            *)
HandlerStarts(i) ==
  /\ InTask(i, "ready") /\ tasks[i].at < ChunkSize
  /\ ~Skipped(Current(i))
  /\ tasks' = [tasks EXCEPT ![i].phase = "handling"]
  /\ handled' = Append(handled, Current(i))
  /\ UNCHANGED <<tail, sub, net, conn, consumer, done, origin, restarted, used>>

HandlerReturns(i) ==
  /\ InTask(i, "handling")
  /\ tasks' = [tasks EXCEPT ![i].phase = "ready", ![i].at = @ + 1]
  /\ done' = done \cup {Current(i)}
  /\ local' = Offset("numeric", Current(i))
  /\ UNCHANGED <<tail, sub, net, conn, policy, offset, closed, known, leaving, handled, origin, restarted, used>>

(* handleDelivery rejects: the rest of the chunk is not handled, and the   *)
(* credit for the next chunk is not asked for.                             *)
HandlerThrows(i) ==
  /\ Spend("throw")
  /\ InTask(i, "handling")
  /\ tasks' = without(tasks, i)
  /\ UNCHANGED <<tail, sub, net, conn, consumer, history>>

(* The end of handleDelivery, with onChunkCompleted.                       *)
ChunkCompleted(i) ==
  /\ InTask(i, "ready") /\ tasks[i].at = ChunkSize
  /\ tasks' = without(tasks, i)
  /\ \/ policy = "completed" /\ Granted(Step)
     \/ policy = "received" /\ UNCHANGED sub
  /\ UNCHANGED <<tail, net, conn, consumer, history, used>>

-----------------------------------------------------------------------------
(* Failure, restart and close.                                             *)

SubscriptionEnds ==
  /\ sub' = [sub EXCEPT !.on = FALSE, !.credit = 0]
  /\ net' = <<>>

Drop ==
  /\ Spend("drop")
  /\ conn # "down"
  /\ conn' = "down"
  /\ SubscriptionEnds
  /\ UNCHANGED <<tail, tasks, consumer, history>>

(* Client.restart replaces the socket; running deliveries go on.  After    *)
(* the 5 seconds it waits no write on the old socket is pending.           *)
Restart ==
  /\ known /\ ~leaving
  /\ \A i \in DOMAIN tasks : tasks[i].phase # "granting"
  /\ \/ conn = "down" /\ UNCHANGED used
     \/ conn = "up" /\ Spend("restart")
  /\ conn' = "opening" /\ restarted' = TRUE
  /\ SubscriptionEnds
  /\ UNCHANGED <<tail, tasks, consumer, handled, done, origin>>

SocketConnects ==
  /\ conn = "opening"
  /\ conn' = "handshake"
  /\ UNCHANGED <<tail, sub, net, tasks, consumer, history, used>>

(* A mutant of Resubscribe: from the message after the last one handled.   *)
ResubscribeMutant ==
  /\ conn = "handshake" /\ known
  /\ conn' = "up"
  /\ sub' = [on |-> TRUE, next |-> Position(getOffset + 1), credit |-> StartFrom]
  /\ UNCHANGED <<tail, net, tasks, consumer, history, used>>

(* A mutant of Resubscribe: no credit is asked for.                        *)
ResubscribeNoCredit ==
  /\ conn = "handshake" /\ known
  /\ conn' = "up"
  /\ sub' = [on |-> TRUE, next |-> Position(getOffset), credit |-> 0]
  /\ UNCHANGED <<tail, net, tasks, consumer, history, used>>

(* It then subscribes from getOffset, whatever the type of the offset was. *)
Resubscribe ==
  /\ conn = "handshake" /\ known
  /\ conn' = "up"
  /\ sub' = [on |-> TRUE, next |-> Position(getOffset), credit |-> StartFrom]
  /\ UNCHANGED <<tail, net, tasks, consumer, history, used>>

(* StreamConsumer.close; the connection ends too unless it is shared.      *)
releaseConnection ==
  \/ UNCHANGED <<conn, sub, net>>
  \/ conn = "up" /\ conn' = "down" /\ SubscriptionEnds

(* The application closes the consumer: no Unsubscribe, and it stays in    *)
(* Client.consumers.                                                       *)
Close ==
  /\ Spend("close")
  /\ closed' = TRUE
  /\ releaseConnection
  /\ UNCHANGED <<tail, tasks, policy, offset, local, known, leaving, history>>

(* Client.closeConsumer: Unsubscribe and its answer, then the rest.        *)
Unsubscribe ==
  /\ Spend("close")
  /\ known /\ ~leaving /\ conn = "up" /\ sub.on
  /\ sub' = [sub EXCEPT !.on = FALSE, !.credit = 0]
  /\ leaving' = TRUE
  /\ UNCHANGED <<tail, net, conn, tasks, policy, offset, local, closed, known, history>>

Closing ==
  /\ leaving
  /\ leaving' = FALSE /\ closed' = TRUE /\ known' = FALSE
  /\ releaseConnection
  /\ UNCHANGED <<tail, tasks, policy, offset, local, history, used>>

-----------------------------------------------------------------------------
Delivery(i) ==
  \/ CreditWritten(i) \/ SkipMessage(i) \/ HandlerStarts(i)
  \/ HandlerReturns(i) \/ ChunkCompleted(i)

Next ==
  \/ Publish \/ Deliver \/ ChunkArrives
  \/ \E i \in 1 .. Len(tasks) : Delivery(i) \/ HandlerThrows(i)
  \/ Drop \/ Restart \/ SocketConnects \/ Resubscribe
  \/ Close \/ Unsubscribe \/ Closing

Spec == Init /\ [][Next]_vars

(* The broker delivers what it owes, the event loop runs every delivery,   *)
(* handlers return, and a dropped connection is restarted.                 *)
Fairness ==
  /\ WF_vars(Deliver) /\ WF_vars(ChunkArrives)
  /\ \A i \in 1 .. NumChunks + StartFrom : WF_vars(i <= Len(tasks) /\ Delivery(i))
  /\ WF_vars(conn = "down" /\ Restart) /\ WF_vars(SocketConnects) /\ WF_vars(Resubscribe)

FairSpec == Spec /\ Fairness
-----------------------------------------------------------------------------
(* Properties.                                                             *)

TypeOK ==
  /\ tail \in 0 .. NumChunks
  /\ sub \in [on : BOOLEAN, next : 1 .. NumChunks + 1, credit : Nat]
  /\ net \in Seq(Chunks)
  /\ conn \in {"up", "down", "opening", "handshake"}
  /\ tasks \in Seq(Task)
  /\ policy \in Policies
  /\ offset \in [type : OffsetTypes, value : Nat]
  /\ local \in [type : OffsetTypes, value : Nat]
  /\ closed \in BOOLEAN /\ known \in BOOLEAN /\ leaving \in BOOLEAN
  /\ handled \in Seq(Nat) /\ done \in SUBSET Nat /\ origin \in Nat
  /\ restarted \in BOOLEAN
  /\ used \in [Events -> Nat]

(* Flow control: with a policy that asks for one chunk per chunk completed *)
(* and no reconnection, the credit at the broker, the chunks on their way  *)
(* and the chunks being handled never exceed the credit asked for first.   *)
CreditsConserved ==
  policy = "completed" /\ Step = 1 /\ ~restarted =>
    sub.credit + Len(net) + Len(tasks) <= StartFrom

(* The default policy hands messages to the handler in stream order, each  *)
(* once, and one at a time, as long as nothing is reconnected.             *)
InOrder ==
  /\ \A i, j \in DOMAIN handled : i < j => handled[i] < handled[j]
  /\ \A i, j \in DOMAIN tasks : i # j => {tasks[i].phase, tasks[j].phase} # {"handling"}
HandledInOrder ==
  policy = "completed" /\ StartFrom = 1 /\ Step = 1 /\ ~restarted => InOrder

(* The same, reconnections or not.                                         *)
AlwaysInOrder == policy = "completed" /\ StartFrom = 1 /\ Step = 1 => InOrder

(* When the local offset is o, the handler has returned from every message *)
(* from the origin to o: storing it as the consumer's offset loses nothing *)
(* if the process then crashes.                                            *)
ProgressIsComplete ==
  policy = "completed" /\ StartFrom = 1 /\ Step = 1 /\ ~restarted
    /\ done # {} /\ local.type = "numeric"
  => \A o \in origin .. local.value : o \in done

(* Reconnections skip nothing: a message between the origin and one that   *)
(* was handled was handled too, or is in the hands of a running delivery,  *)
(* as long as the handler does not throw and nobody closes the consumer.   *)
Excused == used["throw"] > 0 \/ used["close"] > 0
InTasks(o) == \E i \in DOMAIN tasks : ChunkOf(o) = tasks[i].chunk /\ Current(i) <= o
NothingSkipped ==
  ~Excused =>
    \A i \in DOMAIN handled : \A o \in origin .. handled[i] :
      InTasks(o) \/ \E j \in DOMAIN handled : handled[j] = o

(* Every message from the origin on that enters the stream is handled, on  *)
(* the same conditions.                                                    *)
Due(o) == o >= origin /\ o < tail * ChunkSize
EventuallyHandled == \A o \in Offsets : Due(o) ~> o \in done \/ Excused
=============================================================================
