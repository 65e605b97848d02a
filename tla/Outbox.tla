-------------------------------- MODULE Outbox --------------------------------
(***************************************************************************)
(* The outbox that example/src/autoreconnect_example.js keeps on top of a  *)
(* publisher: messages are generated, sent one per tick of an interval,    *)
(* and forgotten when their publishing id is confirmed, while the          *)
(* connection fails and Client.restart replaces it; with the way a confirm *)
(* takes to its listener (publisher.ts, response_decoder.ts).  The         *)
(* publisher is its queue here; Publisher has the rest of it.              *)
(***************************************************************************)
EXTENDS Naturals, Integers, Sequences, FiniteSets, SequencesExt, Subsequences

CONSTANTS
  NumMessages,     \* bound: messages generated, numbered from 1
  NumIds,          \* bound: publishing ids, from 1
  NumDrops,        \* bound: failures of the connection
  NumConfirms,     \* bound: confirms on their way for the neighbour to add one
  MaxChunkLengths, \* what maxChunkLength may be
  Neighbours       \* whether another publisher is on the connection

ASSUME OutboxAssumption ==
  /\ NumMessages \in Nat /\ NumIds \in Nat /\ NumDrops \in Nat /\ NumConfirms \in Nat
  /\ MaxChunkLengths \subseteq Nat \ {0} /\ Neighbours \subseteq BOOLEAN

VARIABLES
  maxChunkLength, neighbour,
  messageIds, messages, publishingIds, offset,  \* publisherOutbox
  ticks,      \* ticks that wait for send: the message and its publishing id
  lastId,     \* StreamPublisher.publishingId
  queue,      \* its queue: publishing ids
  sent,       \* history: sent[p] is the message that was sent as p
  link,       \* "up", "ended" (the client has not noticed), "down" or "opening"
  wire,       \* chunks on their way to the broker
  stored,     \* broker: the publishing ids stored
  confirms,   \* confirms on their way: sets of publishing ids
  waited,     \* history: a tick had to wait
  drops       \* number of failures

outbox == <<messageIds, messages, publishingIds, offset>>
publisher == <<lastId, queue, sent>>
outboxVars == <<maxChunkLength, neighbour, outbox, ticks, publisher, link, wire, stored, confirms,
          waited, drops>>

OutboxInit ==
  /\ maxChunkLength \in MaxChunkLengths /\ neighbour \in Neighbours
  /\ messageIds = <<>> /\ messages = {} /\ publishingIds = <<>> /\ offset = 0
  /\ ticks = <<>> /\ lastId = 0 /\ queue = <<>> /\ sent = <<>>
  /\ link = "up" /\ wire = <<>> /\ stored = {} /\ confirms = <<>>
  /\ waited = FALSE /\ drops = 0

Generated == Len(messageIds) + Cardinality(ToSet(sent) \ ToSet(messageIds))

(* A new message is put into the outbox.                                   *)
scheduleMessageProduction ==
  /\ Generated < NumMessages
  /\ messageIds' = Append(messageIds, Generated + 1)
  /\ messages' = messages \cup {Generated + 1}
  /\ UNCHANGED <<maxChunkLength, neighbour, publishingIds, offset, ticks, publisher, link, wire,
                 stored, confirms, waited, drops>>

-----------------------------------------------------------------------------
(* Ticks.                                                                  *)

(* A mutant of Sent: the id remembered is the one before.                  *)
SentMutant(m, p) ==
  /\ offset' = offset + 1
  /\ publishingIds' = [q \in DOMAIN publishingIds \cup {p - 1} |-> IF q = p - 1 THEN m ELSE publishingIds[q]]

(* send has returned: the offset moves on, and the id is remembered.       *)
Sent(m, p) ==
  /\ offset' = offset + 1
  /\ publishingIds' = [q \in DOMAIN publishingIds \cup {p} |-> IF q = p THEN m ELSE publishingIds[q]]

Ready == link \in {"up", "ended"}
Writable == link \in {"up", "opening"}
Chunk(ids) == SubSeq(ids, 1, Min({Len(ids), maxChunkLength}))   \* popChunk
Rest(ids) == SubSeq(ids, maxChunkLength + 1, Len(ids))
sendBuffer(chunk) == wire' = IF link = "up" THEN Append(wire, chunk) ELSE wire

(* A tick sends the message at the offset, if the socket is writable.  The *)
(* one that fills a chunk waits for its write; else send returns at once.  *)
scheduleMessageDelivery ==
  /\ Writable /\ offset + 1 \in DOMAIN messageIds /\ lastId < NumIds
  /\ LET m == messageIds[offset + 1]
         p == lastId + 1
     IN
     /\ lastId' = p /\ sent' = Append(sent, m)
     /\ \/ /\ Len(queue) + 1 < maxChunkLength \/ ~Ready
           /\ queue' = Append(queue, p)
           /\ Sent(m, p)
           /\ UNCHANGED <<ticks, wire, waited>>
        \/ /\ Len(queue) + 1 >= maxChunkLength /\ Ready
           /\ queue' = Rest(Append(queue, p)) /\ sendBuffer(Chunk(Append(queue, p)))
           /\ ticks' = Append(ticks, [message |-> m, id |-> p]) /\ waited' = TRUE
           /\ UNCHANGED <<publishingIds, offset>>
  /\ UNCHANGED <<maxChunkLength, neighbour, messageIds, messages, link, stored, confirms, drops>>

(* The callback of the write: the oldest waiting tick goes on.             *)
WriteDone ==
  /\ ticks # <<>> /\ link = "up"
  /\ ticks' = Tail(ticks)
  /\ Sent(Head(ticks).message, Head(ticks).id)
  /\ UNCHANGED <<maxChunkLength, neighbour, messageIds, messages, publisher, link, wire, stored,
                 confirms, waited, drops>>

(* The timer of the publisher: a chunk is sent, or lost with the socket.   *)
FlushChunk ==
  /\ queue # <<>> /\ Ready
  /\ queue' = Rest(queue) /\ sendBuffer(Chunk(queue))
  /\ UNCHANGED <<maxChunkLength, neighbour, outbox, ticks, lastId, sent, link, stored, confirms,
                 waited, drops>>

-----------------------------------------------------------------------------
(* Confirms.                                                               *)

ChunkStored ==
  /\ link = "up" /\ wire # <<>>
  /\ wire' = Tail(wire)
  /\ stored' = stored \cup ToSet(Head(wire))
  /\ confirms' = Append(confirms, ToSet(Head(wire)))
  /\ UNCHANGED <<maxChunkLength, neighbour, outbox, ticks, publisher, link, waited, drops>>

(* A mutant of publisherConfirmCallback: the offset stays.                 *)
publisherConfirmCallbackMutant(ids) ==
  LET known == ids \cap DOMAIN publishingIds
      confirmed == {publishingIds[p] : p \in known}
  IN
  /\ publishingIds' = [p \in DOMAIN publishingIds \ known |-> publishingIds[p]]
  /\ messageIds' = Without(messageIds, confirmed)
  /\ messages' = messages \ confirmed
  /\ UNCHANGED offset

(* Confirmed messages leave the outbox, and the offset goes back by one    *)
(* for each; an id that is not known is passed over.                       *)
publisherConfirmCallback(ids) ==
  LET known == ids \cap DOMAIN publishingIds
      confirmed == {publishingIds[p] : p \in known}
  IN
  /\ publishingIds' = [p \in DOMAIN publishingIds \ known |-> publishingIds[p]]
  /\ messageIds' = Without(messageIds, confirmed)
  /\ messages' = messages \ confirmed
  /\ offset' = offset - Cardinality(messages \cap confirmed)

(* StreamPublisher.on listens to the confirms of the whole connection.     *)
on ==
  /\ confirms # <<>>
  /\ confirms' = Tail(confirms)
  /\ publisherConfirmCallback(Head(confirms))
  /\ UNCHANGED <<maxChunkLength, neighbour, ticks, publisher, link, wire, stored, waited, drops>>

(* A message of another publisher on the connection, which counts from 1   *)
(* as well, is stored.                                                     *)
NeighbourStored ==
  /\ neighbour /\ link = "up" /\ Len(confirms) < NumConfirms
  /\ \E p \in 1 .. NumIds : confirms' = Append(confirms, {p})
  /\ UNCHANGED <<maxChunkLength, neighbour, outbox, ticks, publisher, link, wire, stored, waited,
                 drops>>

-----------------------------------------------------------------------------
(* The connection.                                                         *)

(* What is on its way is lost, and the ticks that wait for a write do not  *)
(* go on.                                                                  *)
Drop ==
  /\ link \in {"up", "opening"} /\ drops < NumDrops
  /\ link' = IF link = "up" THEN "ended" ELSE "down"
  /\ drops' = drops + 1
  /\ wire' = <<>> /\ confirms' = <<>> /\ ticks' = <<>>
  /\ UNCHANGED <<maxChunkLength, neighbour, outbox, publisher, stored, waited>>

(* The 'close' event, on which the example restarts the client, and the    *)
(* end of the wait, after which there is a new socket.                     *)
connectionClosedCallback ==
  /\ \/ link = "ended" /\ link' = "down"
     \/ link = "down" /\ link' = "opening"
  /\ UNCHANGED <<maxChunkLength, neighbour, outbox, ticks, publisher, wire, stored, confirms,
                 waited, drops>>

(* The handshake is over and the publisher declared.                       *)
Restarted ==
  /\ link = "opening" /\ link' = "up"
  /\ UNCHANGED <<maxChunkLength, neighbour, outbox, ticks, publisher, wire, stored, confirms,
                 waited, drops>>

-----------------------------------------------------------------------------
OutboxNext ==
  \/ scheduleMessageProduction \/ scheduleMessageDelivery \/ WriteDone \/ FlushChunk
  \/ ChunkStored \/ on \/ NeighbourStored
  \/ Drop \/ connectionClosedCallback \/ Restarted

OutboxSpec == OutboxInit /\ [][OutboxNext]_outboxVars
-----------------------------------------------------------------------------
(* Properties.                                                             *)

StoredMessages == {sent[p] : p \in stored}

(* A message leaves the outbox only when it is in the stream, whatever     *)
(* fails in between and however often it was sent, unless there is another *)
(* publisher on the connection: its confirms are taken for one's own.      *)
NothingForgotten ==
  ~neighbour => \A m \in 1 .. Generated : m \in messages \cup StoredMessages

(* As long as no tick had to wait for a write, the offset parts the outbox *)
(* into what has been sent and what has not: nothing is passed over, and   *)
(* nothing is sent twice, through confirms and failures.  Behind a full    *)
(* chunk several ticks send the same message, and pass over later ones.    *)
NonePassedOver ==
  ~waited => \A i \in DOMAIN messageIds : (i <= offset <=> messageIds[i] \in ToSet(sent))
=============================================================================
