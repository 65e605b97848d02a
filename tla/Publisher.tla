------------------------------ MODULE Publisher ------------------------------
(***************************************************************************)
(* The publishers of one stream that share one connection (publisher.ts),  *)
(* the part of Connection and Client they run on (connection.ts send,      *)
(* restart, the socket listeners; client.ts deletePublisher, restart), and *)
(* the broker as that code uses it.                                        *)
(*                                                                         *)
(* A message of publisher p is its number 1, 2, 3, ... in the order of the *)
(* calls of enqueue.  Its content, its filter value and its publishing id  *)
(* are abstracted away.  One JavaScript macrotask is one step: the code    *)
(* between two awaits of I/O runs to completion, and promises that are     *)
(* already settled continue in the same step.                              *)
(***************************************************************************)
EXTENDS Naturals, Integers, Sequences, FiniteSets

CONSTANTS
  NumPublishers,     \* publishers declared on the connection, in id order
  MaxChunkLength,    \* params.maxChunkLength
  MaxSends,          \* bound: messages handed to each publisher
  Limit              \* bounds: how often each event of Events may happen

Publishers == 1 .. NumPublishers
Events == {"drop", "restart", "close", "delete", "update"}

ASSUME PublisherAssumption ==
  /\ NumPublishers \in Nat
  /\ MaxChunkLength \in Nat \ {0}
  /\ MaxSends \in Nat
  /\ Limit \in [Events -> Nat]

VARIABLES
  accepted,   \* accepted[p]: messages enqueued so far (history)
  queue,      \* queue[p]: StreamPublisher.queue
  scheduled,  \* scheduled[p]: a setImmediate is pending
  closed,     \* closed[p]: StreamPublisher._closed
  notice,     \* notice[p]: how far a delete or a metadata update of p got, "both" if both wait for p
  sock,       \* the connection's current socket
  ready,      \* Connection.setupCompleted
  refs,       \* Connection.refs
  cursor,     \* the publisher Client.restart is redeclaring, 0 if none
  wire,       \* frames written to the socket that the broker has not read
  writing,    \* sendBuffer calls waiting for the write callback, in order
  hung,       \* sendBuffer calls whose promise can no longer settle
  declared,   \* broker: publisher ids it knows on this connection
  stored,     \* stored[p]: broker: messages of p appended to the stream
  refused,    \* refused[p]: broker: messages answered with PublishError
  lost,       \* lost[p]: messages neither the client nor the broker holds
  used        \* used[e]: how often event e happened

client == <<accepted, queue, scheduled, closed, notice>>
conn   == <<sock, ready, refs, cursor>>
calls  == <<wire, writing, hung>>
broker == <<declared, stored, refused, lost>>
vars == <<client, conn, calls, broker, used>>

SocketStates == {"opening", "handshake", "open", "half", "closed"}
Callers == {"send", "timer", "flush", "close"}
Notices == {"none", "asked", "deleted", "unavailable", "both", "done"}
Frame ==
  [type : {"publish"}, pub : Publishers, msgs : Seq(Nat)]
    \cup [type : {"declare", "delete", "close"}, pub : Publishers]
Call == [pub : Publishers, by : Callers]

Elements(s) == {s[i] : i \in DOMAIN s}

(* Messages of p in the publish frames on the wire.                        *)
OnWire(p) ==
  UNION {Elements(wire[i].msgs) :
           i \in {j \in DOMAIN wire : wire[j].type = "publish" /\ wire[j].pub = p}}

Spend(e) == used[e] < Limit[e] /\ used' = [used EXCEPT ![e] = @ + 1]

Init ==
  /\ accepted = [p \in Publishers |-> 0]
  /\ queue = [p \in Publishers |-> <<>>]
  /\ scheduled = [p \in Publishers |-> FALSE]
  /\ closed = [p \in Publishers |-> FALSE]
  /\ notice = [p \in Publishers |-> "none"]
  /\ sock = "open" /\ ready = TRUE /\ refs = NumPublishers /\ cursor = 0
  /\ wire = <<>> /\ writing = <<>> /\ hung = {}
  /\ declared = Publishers
  /\ stored = [p \in Publishers |-> <<>>]
  /\ refused = [p \in Publishers |-> {}]
  /\ lost = [p \in Publishers |-> {}]
  /\ used = [e \in Events |-> 0]

-----------------------------------------------------------------------------
(* Sending a chunk.                                                        *)

SocketIsOpen == sock \in {"handshake", "open"}   \* socket.readyState === "open"

popped(q) == SubSeq(q, 1, IF Len(q) < MaxChunkLength THEN Len(q) ELSE MaxChunkLength)

(* A mutant of remaining: a message too few is taken off the queue.        *)
remainingMutant(q) == SubSeq(q, MaxChunkLength, Len(q))

remaining(q) == SubSeq(q, MaxChunkLength + 1, Len(q))

(* sendBuffer returns false without touching the socket.                   *)
NothingToSend(q) == ~ready \/ q = <<>>

(* A mutant of sendBuffer: the chunk stays queued while it is written.     *)
sendBufferMutant(p, q, by) ==
  /\ ~NothingToSend(q) /\ SocketIsOpen
  /\ queue' = [queue EXCEPT ![p] = q]
  /\ wire' = Append(wire, [type |-> "publish", pub |-> p, msgs |-> popped(q)])
  /\ writing' = Append(writing, [pub |-> p, by |-> by])
  /\ UNCHANGED <<hung, lost>>

(* sendBuffer pops a chunk of queue q and waits: the frame goes to an open *)
(* socket; on any other socket Connection.send writes nothing and its      *)
(* promise stays pending for ever.                                         *)
sendBuffer(p, q, by) ==
  /\ ~NothingToSend(q)
  /\ queue' = [queue EXCEPT ![p] = remaining(q)]
  /\ \/ /\ SocketIsOpen
        /\ wire' = Append(wire, [type |-> "publish", pub |-> p, msgs |-> popped(q)])
        /\ writing' = Append(writing, [pub |-> p, by |-> by])
        /\ UNCHANGED <<hung, lost>>
     \/ /\ ~SocketIsOpen
        /\ hung' = hung \cup {[pub |-> p, by |-> by]}
        /\ lost' = [lost EXCEPT ![p] = @ \cup Elements(popped(q))]
        /\ UNCHANGED <<wire, writing>>

(* A mutant of scheduleIfNeeded: only a full chunk sets the timer.         *)
scheduleIfNeededMutant(p, pending, q) ==
  scheduled' = [scheduled EXCEPT ![p] = pending \/ Len(q) >= MaxChunkLength]

(* scheduleIfNeeded with queue q, when p has or has not a pending timer.   *)
scheduleIfNeeded(p, pending, q) ==
  scheduled' = [scheduled EXCEPT ![p] = pending \/ q # <<>>]

(* send, basicSend and enqueue: a full queue is sent at once, and the rest *)
(* of enqueue waits for the write; otherwise a timer is made sure of.      *)
enqueue(p) ==
  LET q == Append(queue[p], accepted[p] + 1) IN
  /\ accepted[p] < MaxSends
  /\ accepted' = [accepted EXCEPT ![p] = @ + 1]
  /\ \/ /\ Len(q) >= MaxChunkLength
        /\ sendBuffer(p, q, "send")
        /\ UNCHANGED scheduled
     \/ /\ Len(q) < MaxChunkLength \/ NothingToSend(q)
        /\ queue' = [queue EXCEPT ![p] = q]
        /\ scheduleIfNeeded(p, scheduled[p], q)
        /\ UNCHANGED <<wire, writing, hung, lost>>
  /\ UNCHANGED <<closed, notice, conn, declared, stored, refused, used>>

Send(p) == ~closed[p] /\ enqueue(p)

(* basicSend, unlike send, does not look at _closed.                       *)
BasicSend(p) == closed[p] /\ enqueue(p)

(* The setImmediate callback: flush, then scheduleIfNeeded.                *)
TimerFires(p) ==
  /\ scheduled[p]
  /\ \/ /\ sendBuffer(p, queue[p], "timer")
        /\ scheduled' = [scheduled EXCEPT ![p] = FALSE]
     \/ /\ NothingToSend(queue[p])
        /\ scheduleIfNeeded(p, FALSE, queue[p])
        /\ UNCHANGED <<queue, wire, writing, hung, lost>>
  /\ UNCHANGED <<accepted, closed, notice, conn, declared, stored, refused, used>>

(* The application calls flush.                                            *)
Flush(p) ==
  /\ sendBuffer(p, queue[p], "flush")
  /\ UNCHANGED <<accepted, scheduled, closed, notice, conn, declared, stored, refused, used>>

-----------------------------------------------------------------------------
(* Closing.                                                                *)

(* ConnectionPool.releaseConnection, then _closed.  The last release of a  *)
(* ready connection sends Close and waits for its answer; on a socket that *)
(* has ended the write fails, which releaseConnection swallows.            *)
releaseConnection(p) ==
  /\ refs' = refs - 1
  /\ \/ /\ refs - 1 <= 0 /\ ready /\ sock # "half"
        /\ wire' = Append(wire, [type |-> "close", pub |-> p])
        /\ UNCHANGED closed
     \/ /\ refs - 1 > 0 \/ ~ready \/ sock = "half"
        /\ closed' = [closed EXCEPT ![p] = TRUE]
        /\ UNCHANGED wire

(* StreamPublisher.close and automaticClose: one chunk is flushed first.   *)
closePublisher(p) ==
  /\ \/ /\ closed[p]
        /\ UNCHANGED <<queue, closed, refs, calls, lost>>
     \/ /\ ~closed[p]
        /\ sendBuffer(p, queue[p], "close")
        /\ UNCHANGED <<closed, refs>>
     \/ /\ ~closed[p] /\ NothingToSend(queue[p])
        /\ releaseConnection(p)
        /\ UNCHANGED <<queue, writing, hung, lost>>
  /\ UNCHANGED <<accepted, scheduled, sock, ready, cursor, declared, stored, refused>>

(* The application closes p, or Client.close does.                         *)
Close(p) == ~closed[p] /\ closePublisher(p) /\ Spend("close") /\ UNCHANGED notice

(* Client.deletePublisher sends its request; the queue is not flushed yet. *)
DeletePublisher(p) ==
  /\ Spend("delete")
  /\ notice[p] = "none" /\ SocketIsOpen
  /\ wire' = Append(wire, [type |-> "delete", pub |-> p])
  /\ notice' = [notice EXCEPT ![p] = "asked"]
  /\ UNCHANGED <<accepted, queue, scheduled, closed, conn, writing, hung, broker>>

(* deletePublisher got its answer, or the close_publisher event fired, or  *)
(* one after the other.                                                    *)
ClosedByBroker(p) ==
  /\ notice[p] \in {"deleted", "unavailable", "both"}
  /\ notice' = [notice EXCEPT ![p] = IF @ = "both" THEN "deleted" ELSE "done"]
  /\ closePublisher(p)
  /\ UNCHANGED used

(* Client.publishers: an entry goes when its delete or automatic close has *)
(* completed; publisher.close alone leaves it.                             *)
Known == {p \in Publishers : ~(closed[p] /\ notice[p] = "done")}

-----------------------------------------------------------------------------
(* The callback of socket.write.                                           *)

(* Two mutants of WriteDone: a timer that does not look at the queue       *)
(* again, and a close that does not go on.                                 *)
WriteDoneNoReschedule ==
  /\ writing # <<>>
  /\ LET c == Head(writing) IN
       \/ /\ c.by = "send"
          /\ scheduleIfNeeded(c.pub, scheduled[c.pub], queue[c.pub])
          /\ UNCHANGED <<closed, refs, wire>>
       \/ /\ c.by \in {"flush", "timer"}
          /\ UNCHANGED <<scheduled, closed, refs, wire>>
       \/ /\ c.by = "close"
          /\ releaseConnection(c.pub)
          /\ UNCHANGED scheduled
  /\ writing' = Tail(writing)
  /\ UNCHANGED <<accepted, queue, notice, sock, ready, cursor, hung, broker, used>>

WriteDoneNoRelease ==
  /\ writing # <<>>
  /\ LET c == Head(writing) IN
       \/ /\ c.by \in {"send", "timer"}
          /\ scheduleIfNeeded(c.pub, scheduled[c.pub], queue[c.pub])
       \/ /\ c.by \in {"flush", "close"}
          /\ UNCHANGED scheduled
  /\ writing' = Tail(writing)
  /\ UNCHANGED <<accepted, queue, closed, notice, conn, wire, hung, broker, used>>

WriteDone ==
  /\ writing # <<>>
  /\ LET c == Head(writing) IN
       \/ /\ c.by \in {"send", "timer"}
          /\ scheduleIfNeeded(c.pub, scheduled[c.pub], queue[c.pub])
          /\ UNCHANGED <<closed, refs, wire>>
       \/ /\ c.by = "flush"
          /\ UNCHANGED <<scheduled, closed, refs, wire>>
       \/ /\ c.by = "close"
          /\ releaseConnection(c.pub)
          /\ UNCHANGED scheduled
  /\ writing' = Tail(writing)
  /\ UNCHANGED <<accepted, queue, notice, sock, ready, cursor, hung, broker, used>>

(* With an error: enqueue and close throw, only the timer goes on.         *)
WriteFails ==
  /\ writing # <<>> /\ sock = "half"
  /\ LET c == Head(writing) IN
       \/ /\ c.by = "timer"
          /\ scheduleIfNeeded(c.pub, scheduled[c.pub], queue[c.pub])
       \/ /\ c.by # "timer"
          /\ UNCHANGED scheduled
  /\ writing' = Tail(writing)
  /\ UNCHANGED <<accepted, queue, closed, notice, conn, wire, hung, broker, used>>

-----------------------------------------------------------------------------
(* The connection.                                                         *)

(* Frames the broker has not read are gone when a socket ends.             *)
WireIsLost ==
  /\ wire' = <<>>
  /\ lost' = [p \in Publishers |-> lost[p] \cup OnWire(p)]

(* The network fails or the broker goes: the socket is no longer open, but *)
(* its 'close' event, which resets setupCompleted, comes later.            *)
Drop ==
  /\ Spend("drop")
  /\ sock \in {"opening", "handshake", "open"}
  /\ sock' = "half"
  /\ WireIsLost
  /\ declared' = {} /\ cursor' = 0
  /\ UNCHANGED <<client, ready, refs, writing, hung, stored, refused>>

(* 'close' is emitted after every pending write has had its callback.      *)
SocketCloses ==
  /\ sock = "half" /\ writing = <<>>
  /\ sock' = "closed" /\ ready' = FALSE
  /\ UNCHANGED <<client, refs, cursor, calls, broker, used>>

(* Connection.restart replaces the socket and drops the listeners of the   *)
(* old one.  Called from the 'close' event, or by the application while    *)
(* the connection is up: then setupCompleted stays true, and the callbacks *)
(* of writes may come later.  Publishers may write until the socket is     *)
(* replaced: the broker is taken to have read that before the handshake of *)
(* the new one, so that it is read in front of Restart.                    *)
Restart ==
  /\ \/ sock = "closed" /\ UNCHANGED used
     \/ sock = "open" /\ ready /\ cursor = 0 /\ Spend("restart")
  /\ wire = <<>>
  /\ sock' = "opening"
  /\ declared' = {}
  /\ UNCHANGED <<client, ready, refs, cursor, calls, stored, refused, lost>>

SocketConnects ==
  /\ sock = "opening"
  /\ sock' = "handshake"
  /\ UNCHANGED <<client, ready, refs, cursor, calls, broker, used>>

(* Client.restart goes on to the next entry of Client.publishers, which is *)
(* in the order of the ids, and sends its DeclarePublisher; w is the wire. *)
redeclareAfter(k, w) ==
  \/ /\ \A p \in Known : p <= k
     /\ cursor' = 0 /\ wire' = w
  \/ \E p \in Known :
       /\ p > k /\ \A m \in Known : m > k => p <= m
       /\ cursor' = p /\ wire' = Append(w, [type |-> "declare", pub |-> p])

(* A mutant of HandshakeDone: the publishers are not declared again.       *)
HandshakeDoneMutant ==
  /\ sock = "handshake"
  /\ sock' = "open" /\ ready' = TRUE
  /\ UNCHANGED <<client, refs, cursor, calls, broker, used>>

(* The handshake completes, and the first publisher's request follows in   *)
(* the same macrotask.                                                     *)
HandshakeDone ==
  /\ sock = "handshake"
  /\ sock' = "open" /\ ready' = TRUE
  /\ redeclareAfter(0, wire)
  /\ UNCHANGED <<client, refs, writing, hung, broker, used>>

-----------------------------------------------------------------------------
(* The broker.                                                             *)

BrokerReads(type) == SocketIsOpen /\ wire # <<>> /\ Head(wire).type = type

BrokerStores ==
  /\ BrokerReads("publish")
  /\ wire' = Tail(wire)
  /\ LET f == Head(wire) IN
       \/ /\ f.pub \in declared
          /\ stored' = [stored EXCEPT ![f.pub] = @ \o f.msgs]
          /\ UNCHANGED refused
       \/ /\ f.pub \notin declared
          /\ refused' = [refused EXCEPT ![f.pub] = @ \cup Elements(f.msgs)]
          /\ UNCHANGED stored
  /\ UNCHANGED <<client, conn, writing, hung, declared, lost, used>>

(* The answer to DeclarePublisher lets Client.restart go on.               *)
BrokerDeclares ==
  /\ BrokerReads("declare")
  /\ declared' = declared \cup {Head(wire).pub}
  /\ redeclareAfter(Head(wire).pub, Tail(wire))
  /\ UNCHANGED <<client, sock, ready, refs, writing, hung, stored, refused, lost, used>>

(* The answer to DeletePublisher: not ok when the broker has no such id.   *)
BrokerDeletes ==
  /\ BrokerReads("delete")
  /\ wire' = Tail(wire)
  /\ LET p == Head(wire).pub IN
       /\ notice' = [notice EXCEPT ![p] = IF p \in declared THEN "deleted"
                                          ELSE IF @ = "asked" THEN "none" ELSE @]
       /\ declared' = declared \ {p}
  /\ UNCHANGED <<accepted, queue, scheduled, closed, conn, writing, hung, stored, refused, lost, used>>

(* The answer to Close: the client ends the socket and close() returns.    *)
BrokerCloses ==
  /\ BrokerReads("close")
  /\ closed' = [closed EXCEPT ![Head(wire).pub] = TRUE]
  /\ sock' = "half"
  /\ WireIsLost
  /\ declared' = {} /\ cursor' = 0
  /\ UNCHANGED <<accepted, queue, scheduled, notice, ready, refs, writing, hung, stored, refused, used>>

(* MetadataUpdate: the stream left this broker, with all its publishers.   *)
(* It may find a delete under way: one the broker has not read will be     *)
(* refused, one it has answered is closed a second time.                   *)
MetadataUpdate ==
  /\ Spend("update")
  /\ sock = "open" /\ declared # {}
  /\ declared' = {}
  /\ notice' = [p \in Publishers |-> CASE notice[p] \in {"none", "asked"} -> "unavailable"
                                       [] notice[p] = "deleted" -> "both"
                                       [] OTHER -> notice[p]]
  /\ UNCHANGED <<accepted, queue, scheduled, closed, conn, calls, stored, refused, lost>>

-----------------------------------------------------------------------------
Broker == BrokerStores \/ BrokerDeclares \/ BrokerDeletes \/ BrokerCloses
Socket == WriteDone \/ WriteFails \/ SocketCloses \/ SocketConnects \/ HandshakeDone

Next ==
  \/ \E p \in Publishers :
       \/ Send(p) \/ BasicSend(p) \/ TimerFires(p) \/ Flush(p)
       \/ Close(p) \/ DeletePublisher(p) \/ ClosedByBroker(p)
  \/ Socket \/ Drop \/ Restart
  \/ Broker \/ MetadataUpdate

Spec == Init /\ [][Next]_vars

(* The event loop runs timers and callbacks, the broker reads its socket,  *)
(* and the application restarts a closed connection, as README.md's        *)
(* connection_closed listener does.  Nobody has to send, flush or close.   *)
Fairness ==
  /\ \A p \in Publishers : WF_vars(TimerFires(p)) /\ WF_vars(ClosedByBroker(p))
  /\ WF_vars(Socket) /\ WF_vars(Broker)
  /\ WF_vars(sock = "closed" /\ Restart)

FairSpec == Spec /\ Fairness
-----------------------------------------------------------------------------
(* Properties.                                                             *)

TypeOK ==
  /\ accepted \in [Publishers -> Nat]
  /\ queue \in [Publishers -> Seq(Nat)]
  /\ scheduled \in [Publishers -> BOOLEAN]
  /\ closed \in [Publishers -> BOOLEAN]
  /\ notice \in [Publishers -> Notices]
  /\ sock \in SocketStates /\ ready \in BOOLEAN /\ refs \in Int
  /\ cursor \in 0 .. NumPublishers
  /\ wire \in Seq(Frame) /\ writing \in Seq(Call) /\ hung \in SUBSET Call
  /\ declared \in SUBSET Publishers
  /\ stored \in [Publishers -> Seq(Nat)]
  /\ refused \in [Publishers -> SUBSET Nat]
  /\ lost \in [Publishers -> SUBSET Nat]
  /\ used \in [Events -> Nat]

(* The stream holds the messages of a publisher in the order of its send   *)
(* calls and none twice, whatever sends, timers, flushes and closes run at *)
(* once and wherever the socket drops.                                     *)
StoredInOrder ==
  \A p \in Publishers : \A i, j \in DOMAIN stored[p] :
    i < j => stored[p][i] < stored[p][j]

(* Why the order holds.  Sent(p) messages of p have left its queue, which  *)
(* holds exactly the later ones; a chunk is a run of consecutive messages; *)
(* chunks of p stand on the wire in order, all beyond what is stored.      *)
Sent(p) == accepted[p] - Len(queue[p])
QueueIsTail ==
  \A p \in Publishers :
    /\ Len(queue[p]) <= accepted[p]
    /\ \A i \in 1 .. Len(queue[p]) : queue[p][i] = Sent(p) + i
IsRun(m) == Len(m) \in 1 .. MaxChunkLength /\ \A k \in 1 .. Len(m) : m[k] = m[1] + k - 1
LastOf(m) == m[1] + Len(m) - 1
ChunksAreRuns ==
  \A i \in 1 .. Len(wire) : wire[i].type = "publish" =>
    /\ IsRun(wire[i].msgs) /\ wire[i].msgs[1] >= 1
    /\ LastOf(wire[i].msgs) <= Sent(wire[i].pub)
WireInOrder ==
  \A i, j \in 1 .. Len(wire) :
    (/\ i < j /\ wire[i].type = "publish" /\ wire[j].type = "publish"
     /\ wire[i].pub = wire[j].pub)
    => LastOf(wire[i].msgs) < wire[j].msgs[1]
StoredBeforeWire ==
  \A i \in 1 .. Len(wire) : wire[i].type = "publish" =>
    \A k \in 1 .. Len(stored[wire[i].pub]) : stored[wire[i].pub][k] < wire[i].msgs[1]
StoredWasSent ==
  \A p \in Publishers : \A k \in 1 .. Len(stored[p]) : stored[p][k] <= Sent(p)
OrderInv ==
  /\ QueueIsTail /\ ChunksAreRuns /\ WireInOrder
  /\ StoredBeforeWire /\ StoredWasSent /\ StoredInOrder

(* The publishers implement the contract of PublishContract: chunks of     *)
(* consecutive messages, each beyond everything stored before.             *)
Contract == INSTANCE PublishContract WITH
  Publishers <- Publishers, MaxChunkLength <- MaxChunkLength,
  accepted <- accepted, stored <- stored
ImplementsContract == Contract!Spec

(* Where a message of p may be.                                            *)
Holders(p) ==
  [queue |-> Elements(queue[p]), wire |-> OnWire(p), stored |-> Elements(stored[p]),
   refused |-> refused[p], lost |-> lost[p]]

(* A message that send accepted is in exactly one place: queued, on the    *)
(* wire, in the stream, refused with an error, or lost with a socket.      *)
NothingVanishes ==
  \A p \in Publishers : \A n \in 1 .. accepted[p] :
    Cardinality({k \in DOMAIN Holders(p) : n \in Holders(p)[k]}) = 1

TimerWrites(p) == \E i \in DOMAIN writing : writing[i] = [pub |-> p, by |-> "timer"]
TimerHangs(p) == [pub |-> p, by |-> "timer"] \in hung

(* A queue with messages always has somebody who will look at it again: a  *)
(* pending timer, or a timer's flush that is waiting for its write.  The   *)
(* only exception is a flush of the timer that hangs for ever.             *)
NoLostWakeup ==
  \A p \in Publishers :
    queue[p] # <<>> => scheduled[p] \/ TimerWrites(p) \/ TimerHangs(p)

(* As long as nobody closes and no healthy connection is restarted, the    *)
(* publisher with the lowest id is never refused: after a drop it is       *)
(* declared again before any message is sent.  (The others may be: their   *)
(* timers do not wait for their turn in Client.restart.)                   *)
FirstNeverRefused ==
  1 \in Publishers /\ used["restart"] + used["close"] + used["delete"] + used["update"] = 0 => refused[1] = {}

(* Every message accepted by send is dealt with, without the help of       *)
(* another send or a flush: it ends up in the stream, or refused, or lost  *)
(* with a socket.  Only a closed publisher, or one whose timer hangs for   *)
(* ever, may keep messages in its queue.                                   *)
EventuallySettled ==
  \A p \in Publishers : \A n \in 1 .. MaxSends :
    accepted[p] >= n ~>
      n \in Elements(stored[p]) \cup refused[p] \cup lost[p] \/ closed[p] \/ TimerHangs(p)

ClosePends(p) == \E i \in DOMAIN writing : writing[i] = [pub |-> p, by |-> "close"]

(* A close that waits for its last chunk completes, unless the socket ends *)
(* under it.  It need not when the broker has the same publisher closed    *)
(* meanwhile: each of the two closes asks for the end of the connection,   *)
(* and only the first request is answered.                                 *)
CloseCompletes ==
  \A p \in Publishers :
    ClosePends(p) ~> closed[p] \/ used["drop"] + used["restart"] + used["delete"] + used["update"] > 0
=============================================================================
