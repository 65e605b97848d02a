# Verification of the RabbitMQ stream client for Node.js

This directory models the client in `src/src/` (file references below are
relative to `src/`, so `src/client.ts` is the file `src/src/client.ts` of the
checkout) in TLA+, checks the models with TLC on small instances, and proves
the main safety results with TLAPS for every value of the constants.

## 1. Inventory

| Component | State it keeps | Operations | Talks to |
|---|---|---|---|
| **StreamPublisher** (`src/publisher.ts`) | `queue`, `scheduled`, `_closed`, `publishingId` | `send`, `basicSend`, `sendSubEntries`, `flush`, `close`, `automaticClose`, the `setImmediate` timer | its Connection (`send`), the pool (`releaseConnection`) |
| **StreamConsumer** (`src/consumer.ts`) and the credit policies (`src/consumer_credit_policy.ts`) | `offset`, `clientLocalOffset`, `closed` | `handle`, `storeOffset`, `queryOffset`, `close`, `updateConsumerOffset` | Client.handleDelivery, its Connection, the pool |
| **Connection** (`src/connection.ts`) | `socket`, `setupCompleted`, `correlationId`, `receivedResponses`, `waitingResponses`, `refs`, id counters, close listeners | `start`, `restart`, `send`, `sendAndWait`, `close`, the socket's event listeners | ResponseDecoder, Heartbeat, the broker |
| **ResponseDecoder** (`src/response_decoder.ts`) | `lastData`, an event emitter | `add`, one decoder per response | Connection.responseReceived, listeners |
| **Heartbeat** (`src/heartbeat.ts`) | `interval`, `idleCounter`, two timestamps, `timeout`, `heartBeatStarted` | `start`, `stop`, `reportLast…`, the timer | Connection (`send`, `close`) |
| **ConnectionPool** (`src/connection_pool.ts`) | `connectionsMap` | `getConnection`, `releaseConnection` | Connection reference counts |
| **Client** (`src/client.ts`) | `publishers`, `consumers`, `locatorConnection`, `pool` | declare/delete/close of publishers and consumers, `restart`, `close`, queries, stream administration | everything above |
| **SuperStreamPublisher / SuperStreamConsumer** (`src/super_stream_publisher.ts`, `src/super_stream_consumer.ts`) | `publishers`, `routingCache` / `consumers` | `send`, `basicSend`, `sendSubEntries`, `close` / `start`, `close` | Client, one publisher or consumer per partition |
| **The outbox of the reconnection example** (`example/src/autoreconnect_example.js`) | `publisherOutbox` | the two intervals, the listeners of confirms and of `connection_closed` | Client, one publisher |
| **Requests, responses, BufferDataWriter, amqp10** | buffer and offset | encode, decode, grow the buffer | Connection, ResponseDecoder |
| **murmur32, versions, compression, util** | none | pure functions | super stream routing, handshake |

How they interact: the application calls the Client; a publisher or consumer
holds one Connection taken from the pool, which several publishers (or several
consumers) of one stream share and count with `refs`. Everything runs on
one event loop: two calls interleave only at an `await`, but there are many
(every write, every answer).

Two facts of the platform matter everywhere. An operation on a socket is one
macrotask: the code between two awaits of I/O runs undisturbed, and promises
that are already settled continue in the same macrotask. And `Connection.send`
tests `socket.readyState` (`src/connection.ts:518`): on a socket that is not
open it writes nothing and its promise never settles, while `sendAndWait`
(`src/connection.ts:419`) writes anyway, and has neither a timeout nor a
rejection when the socket closes.

### What makes each component correct

* **Publisher**: messages reach the stream in the order of `send`, none twice;
  none disappears without the code having dropped or failed it; a nonempty
  queue is always looked at again; close waits for its flush and returns.
* **Consumer**: messages reach the handler in order, one at a time, with the
  default policy; the stored offset never passes an unhandled message; credit
  is neither created nor (handlers that throw apart) lost; a reconnection skips
  nothing and rewinds to nothing before the origin.
* **ConnectionPool**: a connection in use stays open, an unused one ends; no
  connection is overbooked; ids on a connection are unique.
* **Heartbeat**: the client is never silent for two intervals, and a silent
  peer is noticed.
* **Connection**: every answer goes to the request with its correlation id;
  every request is answered or fails; the handshake is done in order, again
  after each restart.
* **ResponseDecoder**: however a stream of frames is cut into `data` events,
  the same responses come out.
* **Requests and codec**: a request is written whole or not sent; the size in
  front of a message is the number of its bytes; a message is read as it was
  sent, with its own offset.
* **Client**: after `restart` every live publisher and consumer is declared
  again, on a ready connection; what was closed stays closed; `close` leaves no
  connection open; calls return.
* **Super stream publisher**: a message sent without an id is never taken for a
  duplicate; messages of a partition are stored in the order of the calls, each
  once; a routing key stays on its partition.
* **Single active consumers**, on a stream or a partition: what is stored has
  been handled, a hand-over of the active role skips nothing, and somebody
  handles every message.
* **Confirmations**: a message that leaves the outbox is in the stream, and one
  that is in the outbox is sent.

## 2. Hard behaviour

* *Interleaving at awaits.* `enqueue`, the `setImmediate` timer, `flush` and
  `close` pop chunks of one queue while earlier writes are pending; deliveries
  of several chunks run at once, each awaiting the application's handler;
  declarations and closes of publishers overlap between reading and changing
  the reference count of their connection; `restart` awaits one request after
  the other while users are closed; an active consumer loses its role with
  messages in its handler.
* *Stale state.* `ready` outlives the socket until its `close` event, and a
  restart of a healthy connection altogether. The pool's cache outlives its
  connections. `getOffset` forgets what kind of offset it holds.
* *Failure and restart.* A socket ends with frames unread; `Client.restart`
  replaces every socket and declares publishers and consumers again, one
  awaited request after the other, while their timers and deliveries go on.
* *Promises that never settle*: see above; a flush, a heartbeat or a timer
  that waits for one never goes on.
* *Limits*: chunk length, credit, ids in one byte, connections shared, the
  frame size against messages, chunks and the buffer they are written to.
* *Time*: the heartbeat against the broker's patience.

Every such place is listed, with its line and the properties that guard it, in
`PROJECT.json` under `hazards`. Where the code does not keep what one would
expect, the property is stated with the condition under which it does hold, and
the hazard's note says what happens beyond it.

## 3. The models

A message, a chunk, a publisher or a connection is a number or a model value;
frames carry what the broker decides on; in `Wire`, where sizes matter, they
are counted in bytes. The `Limit` constant of `Publisher`, `Connection` and
`ConnectionPool` bounds how often each disturbing event (`Events`) may happen,
`used` counts them. `Consumer` picks such a limit from the set `Budgets` in its
initial state, and a credit policy from `Policies`, so that one run covers them
all; `ConnectionPool` picks in the same way whether calls are made in turn
(`Serials`) and whether there is an address resolver (`Resolvers`), and
`SuperStream`, `Client` and `ConsumerGroup` pick what the application does and
what may fail (`Plans`). All other bounds are named in the constants' comments.

| Module | Models | State | Actions |
|---|---|---|---|
| `Publisher` | the publishers sharing one connection; `Connection.send`, restart and socket events; the broker's side | `queue`, `scheduled`, `closed`; `sock`, `ready`, `refs`; `wire` (frames written, not read), `writing` (calls awaiting their write callback), `hung` (calls that cannot settle any more) | `Send`, `BasicSend`, `TimerFires`, `Flush`, `Close`, `DeletePublisher`, `ClosedByBroker`; `WriteDone`, `WriteFails`, `SocketCloses`, `Restart`, `SocketConnects`, `HandshakeDone`; `Drop`; the broker's actions |
| `PublishContract` | the abstract specification: chunks of messages, in order, each beyond all stored before | `accepted`, `stored` | `Accept`, `Store` |
| `Consumer` | one consumer: `handleDelivery`, `handle`, both credit policies, restart, `close`, `closeConsumer` | `tasks` (running calls of `handleDelivery`), `offset`, `local`, `closed`, `known`; the broker's subscription and credit | one per await of `handleDelivery`; `Restart`, `Resubscribe`, `Close`, `Unsubscribe`, `Closing` |
| `ConnectionPool` | the connections of one cache key and their users | `cache`, `refs`, `nextId`; `state[u]`: the await at which the calls for `u` are | `Lookup` (reads a count and chooses), `Connected`, `Begin` (takes an id, counts a consumer, sends the request), `Declared`, `Queried`, `Refused`, `Close`, `Flushed`, `CloseAgain`, `CloseAnswered`, `Drop`, `SocketCloses` |
| `Heartbeat` | the loop of one connection, in ticks | `loop`, `timer`, the ages of the last messages, `idleCounter` | `Tick`, `Fire`, `SendDone`, `SendFails`, traffic, `Drop`, `Close`, `Restart` |
| `Connection` | one connection: handshake, requests and their answers, `close`, `restart`, the cutting of frames into `data` events | `sock`, `gen` (its number), `ready`, `corr`; `waiting`, `received`, `lastData`; `writing`, `batch`, `micro` (what the event loop has still to run); `step[g]`, `calls` | `Call`, `WriteDone`, `WriteFails`; `Data`, `Emit`; the continuations `Answered` to `SetupCompleted`; `SocketConnects`, `Drop`, `SocketCloses`, `Restart`; the broker's actions |
| `BufferDataWriter` | the growing buffer of one request (`growIfNeeded`, the write methods) | `length`, `offset`, `asked` (what should have been written), `status` (a write threw) | `New`, `WriteNumber`, `WriteData` |
| `Amqp10` | the codec, as operators: a message is encoded to a sequence of values with their widths, its size is computed apart, and it is decoded | | `encode`, `messageSize`, `decodeMessage` |
| `Wire` | the way of a message, with `Amqp10` and `BufferDataWriter`: three publish requests, the size check, the broker's chunks, frames cut into `data` events, `ResponseDecoder.add` and the decoding of deliveries | `request`, `todo` (writes left); `chunks`, `delivered`; `rest` (`lastData`), `decoded`, `crashed` | `Publish`, `Write`, `RequestFails`; `BrokerStores`, `BrokerRefuses`, `BrokerDelivers`; `Data`, `DecodeFrame` |
| `SuperStream` | a `SuperStreamPublisher`, the publishers of its partitions, their publishing ids and batches; the broker that drops duplicates | `cache`, `publishers`; `made` (the `StreamPublisher`s: last id, queue), `conns`, `locator` (requests not answered); `calls` | `Send`, `SendSubEntries`, `RouteAnswered`, `Declared`, `Refused`, `SequenceAnswered`, `Flush`, `StartClose`, `BrokerCloses`, `BrokerStores`, `Rebind` |
| `Client` | the users of a client, publishers and consumers, over their connections and the locator: `restart`, `close`, `closeConsumer`, `deletePublisher`, the users' own `close`, metadata updates | `sock`, `ready`, `queue` (requests not answered), `known` (declared at the broker); `refs`, `registered`, `closed`, `listening`; `calls[k].at`, the await a call is at | each call from one await to the next; the broker's answers, the end of a socket, an unreachable broker, the deletion of a stream |
| `ConsumerGroup` | single active consumers of one reference, on a stream or on a partition of a super stream; `ConsumerUpdate`, the stored offset; the broker that hands the active role over | `stored`, `group`, `active`, `asked`, `pos`, `plain` (who subscribed without the "super-stream" property); `offset`, `local`, `closed`, `answering`, `tasks` | `declareConsumer`, `QueryArrives`, `ConsumerUpdateResponse`, `DeliveryArrives`, `HandlerReturns`, `StoreFromOutside`, `close`, `Unsubscribe`, `closing`, `Drop`, `Crash`, `Redeclare`, and the broker's |
| `Outbox` | the reconnection example: the outbox, the ticks that send from it, the confirms and the restart, on a publisher reduced to its queue | `messageIds`, `messages`, `publishingIds`, `offset`; `ticks` (waiting for `send`), `queue`, `wire`, `confirms`, `link` | `scheduleMessageProduction`, `scheduleMessageDelivery`, `WriteDone`, `FlushChunk`, `on`, `connectionClosedCallback`, `Restarted`, `Drop`, and the broker's |
| `Subsequences` | parts of a sequence in its order: the `filter` of the example's outbox, the keys of a `Map` | | `Without`, `FirstOnes` |
| `MCPublisher`, `MCConsumer`, `MCConnectionPool`, `MCConnection`, `MCSuperStream`, `MCClient`, `MCConsumerGroup`, `MCOutbox`, `MCWire` | values of the constants for TLC | | |
| `PublisherProofs`, `ConsumerProofs`, `PoolProofs`, `ConnectionProofs`, `ConsumerGroupProofs`, `ClientProofs` | theorems and proofs about the module of that name | | |
| `LinkProofs` | those about `BufferDataWriter`, `Amqp10`, `Wire` and `Heartbeat` | | |
| `NumberingProofs` | those about `SuperStream` and `Outbox` | | |

Where a model narrows the code:

* `Publisher`: publishing ids are in `SuperStream`, filter values and the size
  check of a message in `Wire`; a failing write is one on a socket that has ended. A refused
  declaration on restart is not modelled. Starting with `ready` and no
  message, the model includes every later restart. A restart of a healthy
  connection replaces a socket on which the broker has read everything: the
  code lets publishers write until then, and the broker is taken to read that
  before the handshake of the new socket. A metadata update may come while a
  delete is under way, but does nothing to a publisher whose delete has been
  answered and carried out, and no delete is begun between an update and its
  listener.
* `Consumer`: one consumer; single active consumers and `storeOffset` are in
  `ConsumerGroup`, `ProgressIsComplete` says what an application may store.
  The filter after delivery is left out.
  `closeConsumer` is modelled where the broker still knows the subscription.
  A rejected `handleDelivery` is an unhandled rejection, which ends a Node
  process that does not handle it; the model is of one that does. A consumer
  of an unresolved connection is in `Client.consumers` without a subscription;
  it is not modelled.
* `ConnectionPool`: one key; `Client.restart` is not part of it; a connection
  that drops stays down, as the pool neither notices nor repairs it. Between the
  lookup of a connection (`src/connection_pool.ts:24`) and its use lie only
  awaits of settled promises (`src/client.ts:815`, `:327`): other lookups come in
  between, events of sockets do not (`Drained`). After `Connected` no lookup
  would come in between either; the model lets it.
* `Connection`: the broker accepts every step of a handshake, and a refused
  request is not told from an accepted one. The 'error' and 'timeout' events
  are left out: they reject the promise of `start` or `restart` and change
  nothing else. `Client.restart` waits five seconds: the callbacks of the
  writes on the old socket are taken to have run by then. What the decoder makes of frames
  behind an incomplete one of an old socket is not modelled: they are lost
  (`DataGarbled`). Ids count from 1 instead of 101.
* `Heartbeat`: a timer fires within the tick, and a write to an open socket is
  done within the tick; ages are capped at `Old`, beyond which the code does
  not tell them apart.
* `BufferDataWriter`: bytes are counted, their values left out. After a buffer
  has shrunk below its offset, what a write makes of it depends on the kind of
  data: both outcomes are possible.
* `Wire`: the buffer in which the messages of a batch are encoded apart is
  taken not to be cut, compression not to change sizes, and filter values to be
  ASCII. Only messages this client writes are decoded, from frames of the
  second version of Deliver: the message header, an AMQP value as the body and
  the format codes other clients use are left out. Decoding that throws ends
  the consumer's part of the model (`crashed`): the exception leaves the
  listener of the `data` event, and the process with it unless it catches it.

* `SuperStream`: a `publisherRef` is always given. All chunks of a queue count
  as one, the hash is a function chosen at the start, a second `close` is not
  made while one is under way, and a batch that finds several publishers gone
  declares them one after the other. The refusal of a publisher on a shared
  connection is in `ConnectionPool`.
* `Client`: users are declared at the start; declaring is in `ConnectionPool`,
  with the cache, which is not needed here. An application may restart at any
  time, as its `connection_closed` listener does. A call that waits on a socket
  that ends or is replaced does not settle (`hung`).
* `ConsumerGroup`: a message is a chunk of its own, the policy is the default
  one, and a declaration says `Offset.first()`. `Client.restart` declares a member
  without the `superStreamConsumer` (`src/client.ts:598`), so without the
  "super-stream" property: a group with such a member is taken to keep its first
  one active, as the group of a stream does. A store on a connection that has ended has no effect. The broker
  takes an answer to a `ConsumerUpdate` only from whom it asked.
* `Outbox`: `Publisher` has the rest of a publisher. A restarted connection
  is ready and its publisher declared in one step: what is sent in between is
  refused there, and like a lost chunk never confirmed. The publisher's timer is
  taken to be set whenever its queue is not empty, and `publish_error` is left
  out, as the client never emits it. A tick whose write fails does not go on:
  its rejection is nobody's, and ends the process unless that handles it.

The broker, the network and the application are modelled from how the code uses
them (`external` in the map): the broker reads a connection in order, answers
every request, stores a chunk of a publisher it knows and refuses one it does
not, delivers a chunk per credit; the network may end a socket at any time,
losing what was not read.

## 4. The runs

| Run | Configuration | Shows |
|---|---|---|
| `publisher_faults` | 2 publishers, chunks of 2, 2 messages each, one drop, one restart of a healthy connection | `OrderInv` (queue, wire and stream hold each publisher's messages in order), `NothingVanishes` (each message is in exactly one place), `FirstNeverRefused`, `ImplementsContract` |
| `publisher_shutdown` | 1 publisher, chunks of 2, 3 messages; a drop, a close, a delete and a metadata update | `NoLostWakeup`, `EventuallySettled` (each accepted message is stored, refused or lost in the end), `CloseCompletes` |
| `consumer` | both policies, 2 chunks of 2, numeric offset 1 (inside a chunk); a close, an unsubscription, a drop, a restart or a throw, or a throw and one of the others | `HandledInOrder`, `ProgressIsComplete`, `CreditsConserved`, `NothingSkipped`, `EventuallyHandled` |
| `consumer_overlap` | default policy, one restart | violated: `AlwaysInOrder` |
| `pool` | 3 publishers, or 3 consumers, limit 2, 3 ids, calls at once or in turn, with and without an address resolver; a drop, a refusal, a second close | `UniqueIds`, `RefsExact`, `SharedWithinLimit`, `InTurnStaysOpen`, `DeclaresSucceed`, `AbandonedEnds` |
| `heartbeat` | interval of 4 ticks, 2 failures | `SilenceBounded`, `NeverMissed` |
| `connection` | 1 request, up to 3 sockets; a drop, a restart of a healthy connection, a request before the connection is ready | `AnswersMatch`, `HandshakeInOrder`, `RequestsSettle`, `HandshakeCompletes` |
| `super_stream` | 2 partitions, 2 keys, by hash or by key; up to 4 calls in turn or 3 at once, of sends, sends with an id, `basicSend`s, batches and closes; a rebinding, a refused declaration | `NextIdIsValid`, `StoredInCallOrder` (for calls in turn), `NoneTwice`, `KeysStick` |
| `client` | 2 consumers that share a connection and 3 publishers of which the first and the last share one, so that a restart goes to another connection in between; up to 3 calls at once: two restarts, one beside closes of users, one beside `close`; a drop, an unreachable broker, a deleted stream | `RestartRestores` (an action property: of the step in which a restart returns), `ClosedForGood`, `CloseEndsAll`, `CallsReturn` |
| `group` | 2 members, 3 messages, on one connection or two, of a stream or a partition; offsets stored by the handler, as the local one, or from outside; without the listener; both ways to close, a drop with a restart, a crash | `StoredSafe`, `GroupSkipsNothing`, `GroupHandlesAll` |
| `outbox` | 3 messages, 4 publishing ids, chunks of 1, 2 or more; alone on the connection or not; one failure | `NothingForgotten`, `NonePassedOver` |
| `wire` | 3 requests of 6 kinds, frames cut in front of, inside and behind a size and inside messages; an initial buffer of 16 bytes and a limit of 1000 | `WrittenWhole`, `ReadAsSent`, `AllRead` |

The modules' type invariants (`TypeOK`) are proved, see section 5.

The bounds are small but not idle: a queue that outgrows a chunk while the
socket is down, two chunks of one publisher on the wire behind one of another's,
a chunk that starts before the offset asked for, two deliveries at once, a full
connection and one more declaration, an answer before its write's callback, a
waiter for Tune left by a handshake that was cut off, a heartbeat postponed by a request just
before its timer, two sends that both find no publisher, a batch in front of
queued messages, a consumer closed between two requests of a restart, a role
handed over while a message is in the old member's handler, a stored offset
older than what was handled, two ticks that wait behind one write, texts of 255
and 256 bytes, a chunk whose messages fit the limit while it
does not, a frame whose size has arrived and whose end has not, all happen within
them. Each property is paired with a mutant
of the code (`mutants`) that breaks it under the same bounds. `CHECK_DEADLOCK
FALSE` is set where the system may stop: all events spent and nothing to do.

**Fairness.** Only what the event loop, the broker and the network do of
themselves is fair: timers fire, callbacks run, the broker reads and answers,
handlers return, an application restarts a closed connection as the
`connection_closed` listener of `README.md` does. Nobody has to send, declare,
close or fail. Weak fairness is enough, as each of these stays possible until
it happens.

**The violation.** `README.md:273` says that the default policy grants
processing in order. After a restart the new subscription starts with fresh
credit while a delivery of the old one still runs and asks for credit when it
ends: two deliveries run at once, and the order is lost for good.

**What the code does not keep.** These the properties exclude by a condition,
which their comments and the hazards' notes name:

* A restart of a healthy connection leaves `ready` true while the new socket
  connects: the timer pops a chunk that `Connection.send` drops.
* A publisher is counted when it is constructed, after its declaration was
  answered; a close in between finds a count of 0 and ends the connection under
  it. Calls made in turn are safe (`InTurnStaysOpen`).
* Users declared at once share a connection beyond the limit: the count is read
  at `src/connection_pool.ts:24` and goes up after further awaits, a consumer's
  at `src/consumer.ts:154`, a publisher's at `src/publisher.ts:300`. When the
  locator's answers for two declarations come in one `data` event, both see the
  old count. `SharedWithinLimit` is about calls made in turn.
* The condition for a missed heartbeat needs a last message sent more than an
  interval ago, just after the heartbeat has been sent: a dead peer is never
  noticed. `NeverMissed` says so, and is proved.
* `decodeSubEntries` (`src/response_decoder.ts:307`) numbers the messages of a
  batch from 0 instead of from the chunk's first offset.
* Two sends at once for a partition without a publisher declare two
  (`src/super_stream_publisher.ts:124`), which count from the same id: the
  broker takes the second message for a duplicate. `basicSend` and batches
  number behind the count in the same way.
* Two restarts that overlap: the second finds a publisher that the first has
  just declared on a connection the second has restarted, is refused, closes
  that connection under the first, and throws. Of three, two may leave each
  other hanging. `RestartRestores` is about a restart that runs alone or beside
  one other that has not thrown.
* A consumer that starts at a timestamp and is restarted before its first
  message asks for the offset of that number of milliseconds, and so skips the
  stream: `getOffset` takes the value for an offset. `NothingSkipped` excludes it.
* A user the application closes itself stays in the client's maps: `restart`
  declares it again, on a connection that `Client.close` then leaves open. A
  consumer whose stream is gone cannot be closed: `closeConsumer` sends an
  Unsubscribe that is refused, and throws before it lets the connection go.
* A restart beside `Client.close`, or after one that hangs, opens connections
  that a later close does not end: `close` has replaced the maps by empty ones.
  `CloseEndsAll` is about the first close, with nothing beside it.
* A consumer closed without Unsubscribe goes on taking the messages of its
  group as long as its connection is shared (`Starving`).
* A batch that fails for one of its keys leaves requests for the others behind,
  whose answers come when the calls after it have routed these keys anew: they
  overwrite `routingCache` (`src/super_stream_publisher.ts:120`), and a key that
  was bound elsewhere in between moves back. `KeysStick` is about calls made in
  turn, before a batch has failed.
* A member that comes back with a delivery still running has two messages in
  its handler from then on: the later one's offset may be stored first
  (`overlap`).
* Behind a full chunk, several ticks of the example's outbox send the same
  message and pass over later ones; a message lost with the connection stays in
  the outbox and is not sent again, as only `setupPublisher` resets the offset;
  and confirms of another publisher on the connection are taken for one's own.

## 5. What is proved

The provers check these for every value of the constants that satisfies the
module's assumption (`PublisherAssumption`, `ConsumerAssumption`,
`PoolAssumption`, `ConnectionAssumption`, `HeartbeatAssumption`,
`WriterAssumption`, `WireAssumption`, `GroupAssumption`, `ClientAssumption`,
`SuperStreamAssumption`, `OutboxAssumption`: types, finitely many users and
keys, nonzero lengths, limits and intervals, consumers that are not
publishers, no user on the locator's connection, and a ratio of at most 1).
What they say of the environment is what the module's external actions say.

Where the code keeps a property only under a condition, the inductive invariant
carries the condition in front (`Undisturbed`, `Calm`, `Orderly`, `Sequential`,
`~overlap`, `~overtaken`, `plan.serial`, an empty `beside`) and the proof first shows that a step never
brings it back.

* `PublisherProofs!TypeCorrect`, `OrderHolds`, `StoredOnceInOrder`. *Stored in
  order* is not inductive: it needs to know that what comes next is beyond what
  is stored. `OrderInv` says so along the whole way of a message: the queue is
  the tail of the numbers accepted, a chunk is a run of consecutive numbers
  below the queue's first, chunks of one publisher stand on the wire in
  increasing order and beyond everything stored. Each action moves a message
  one place further, or drops it. The proof has one step per action; actions
  that touch none of the variables share a lemma.
* `PublisherProofs!WakeupNeverLost`: the invariant is inductive with the
  types; the timer's flag, its write and its hanging write are the three places
  of the wake-up, and every action that removes one puts it in another or
  leaves an empty queue.
* `PublisherProofs!ContractImplemented`: with `OrderInv`, every step maps to
  `Accept`, `Store` or a stutter of `PublishContract`.
* `PublisherProofs!EachMessageHeldOnce` (`NothingVanishes`): what has left a
  queue is split up among the wire, the stream, the refused and the lost
  (`Kept`), and `OrderInv` says that the queue is the rest. Each action moves
  the messages of one chunk from one of the four to another.
* `PublisherProofs!FirstIsDeclaredInTime` (`FirstNeverRefused`): while nobody
  closes and no healthy connection is restarted, what the broker reads first on
  a new socket declares the first publisher, as nothing is sent before `ready`
  and `ready` is set after the declaration is written (`FirstDeclared`).
* `ConsumerProofs!TypeCorrect`: needs that a delivery whose handler runs has a
  message left (`Typed`), as its place moves on when the handler returns.
* `ConsumerProofs!CreditsKept`: credit, frames on the wire and running
  deliveries together (`Outstanding`) never grow before a reconnection, and
  only a reconnection reopens the socket (`Reopened`). A handler that throws
  ends its delivery without asking for credit: the sum falls and stays low.
* `ConsumerProofs!OrderKept`: with `CreditsKept` at most one chunk is under
  way, so what is handled lies before the place of the one delivery, before
  the chunks on the wire and before the next chunk (`Ordered`).
* `ConsumerProofs!NothingIsSkipped`, for a consumer that does not start at a
  timestamp: each message from the origin on that lies before a delivery's
  place has been given to the handler, or a running delivery carries it
  (`Settled`), and so for the offset a restart asks for; before the chunks on the
  wire and the next chunk it may also be in a frame that was not read yet
  (`Gapless`).
* `ConsumerProofs!ProgressKept` (`ProgressIsComplete`): with one chunk under
  way, all that lies before the delivery's place, before the chunk on the wire
  or, while there is credit, before the next chunk is done (`Complete`).
* `LinkProofs!SilenceIsBounded`: the invariant relates the timer to the
  age of the last message sent; a heartbeat is skipped only when that age is
  less than an interval, and the timer is never more than an interval away.
* `LinkProofs!NothingMissed`: whenever `idleDetection` runs, the age of
  the last message sent is at most an interval: the branch that counts is dead.
* `PoolProofs!TypeCorrect`, `IdsUnique`: every id in use is below its
  connection's counter (`IdsBelow`), so the next one is new. The proof first
  reduces the actions to three kinds of steps: those that create a connection,
  those that give a user one, and all others, which `Keeps` describes.
* `PoolProofs!RefsAreExact`: the counts change just when a user begins or ends
  to be counted (lemma `Recount`). It needs `Roles`: a consumer is counted before its
  request is sent and so is never in a state that only publishers have.
* `PoolProofs!LimitKept`: the room seen by the lookup is still there when the
  user is counted (`Room`), because one call is under way at a time (`Alone`).
  A new connection has room because nobody else can be on it (`Fresh`).
* `PoolProofs!StaysOpen`, `DeclarationsSucceed`, `NoneAbandoned`
  (`InTurnStaysOpen`, `DeclaresSucceed`, `AbandonedEnds`), for calls in turn
  that meet no failure (`Calm`): whoever is served has an open connection, and a
  connection that is connecting, open or closing has the user that accounts for
  it (`Steady`). Without an address resolver the cache holds each live
  connection once and nothing else, a connection chosen by a lookup is still
  open when it is used (`ChosenUp`), and only ids can run out.
* `ConnectionProofs!TypeCorrect`, `AnswersAreMatched`: a request and its answer
  are one message on its way through `Traffic` (written, on the wire, decoded,
  waited for, kept); its id is at most the counter (`IdsBelow`) and belongs to
  no other message (`OneMessage`), on whatever socket, as `restart` does not
  reset the counter. Each step moves messages or sends one request (`Moves`,
  `Sends`). Tune, whose id is every handshake's, is exempt.
* `ConnectionProofs!HandshakesInOrder`: on an open socket, the frames under way
  are the next steps of the handshake, and each is asked for once, the latest
  one only but for authenticate, whose answer Tune may overtake (`Ordered`).
  The hard part is Tune, which every socket's waiter would take: once it was
  taken on a socket, no other Tune can reach a waiter there (`Tuned`). A waiter
  left by a handshake that was cut off takes the Tune of the next one and sends
  the rest of it: the broker is asked in order all the same.
* `ConsumerGroupProofs!GroupInvariant`, `StoredIsSafe`, `HandOverSkipsNothing`:
  until a delivery overlaps with one of an earlier subscription (`overlap`), each
  member has one delivery under way at most, counting credit, frame and handler
  (`OneUnderWay`); what it is given comes behind messages that are all handled
  (`Handed`); and what the broker will not send the active member any more is
  handled or in its hands (`InTurn`). So whatever is stored is safe, and a
  hand-over that starts there skips nothing.
* `ClientProofs!ClientInvariant`: a request on a connection waits for the call
  that sent it, and that call stands at the await that expects the answer and
  waits for no other (`QueueInv`); another call's step can do no
  more to a call than make it hang, take a user off its list and note that it
  ran beside it (`Passive`).
* `ClientProofs!ClosedStaysClosed`: from the answer on, the broker does not know
  the user of a closing call; when the call is over, the user is in no map, and
  no restart has it on its list (`Spared`). While the call runs, no restart
  does, unless it was `beside`, which the property excludes.
* `ClientProofs!RestartIsComplete` (`LoneRestartRestores`: `RestartRestores` for a
  restart that runs alone): nothing else is under way (`AloneInv`), so every
  connection the restart has opened stays open with no request on it but its own
  (`Seized`), and each user in the maps is on its way to be declared or is
  declared on one of them (`Restoring`).
* `ClientProofs!CloseIsComplete` (`CloseEndsAll`): as long as no call has failed,
  a connection is counted for no more users than will still give it back: those
  in the maps and the calls that are on their way to release one (`Counted`).
  The invariant (`Sound`) says so beside `Inv`. A first close that runs alone has
  every other call over (`ClosesAlone`); what it has ended so far, and which
  connections it is still waiting for, depends on the await it is at (`Ends`). The
  last user of a connection finds a count of 0 because the users before it are as
  many as the count allowed (a pigeonhole over the list of the close).
* `LinkProofs!RequestsWhole`, `LimitIsHard`: `WriterInv` relates the buffer's
  length, its offset and what was asked for: as long as that fits the limit
  nothing has been cut, and the offset is inside the buffer. Lemma `Growth` says
  that a buffer that need not grow has room, as its ratio is at most 1, and one
  that grows has room up to the limit. These hold of any sequence of writes.
* `LinkProofs!RequestsAreWritten`, `PublishersWriteWhole`: `Wire` implements
  `BufferDataWriter`: each step of it is one of the writer's or a stutter, so
  that what holds of every sequence of writes holds of a publisher's requests.
* `LinkProofs!RoundTrip`: for every message the codec keeps, `messageSize` is the
  size of what `encode` writes, and `decodeMessage` gives the message back with
  nothing left over. The lemmas follow the code: a value, a field of a list, a pair
  of a map, a section, and the loop of `decodeMessage`, whose steps are counted.
* `LinkProofs!FramesWhole`, `SentIsRead` (`AllRead`, `ReadAsSent`): chunks that are
  delivered do not change, what is decoded is what the broker has delivered, in
  order, and the bytes of the decoded frames and the rest add up to those that
  arrived (`StreamIs`); with `RoundTrip` a delivery is read as it was sent.
* `NumberingProofs!HandedOnce` (`NoneTwice`), whatever calls run at once: a message
  is at one place (`Holds`), and none of a call that has not come to a partition
  yet is anywhere (`Settled`): so the call that comes to it hands over the only
  one. Each step moves a message from one place to another or adds one of the call
  it continues (`Event` lists the steps in these terms, lemma `StepIs`).
* `NumberingProofs!OneKeyOnePartition` (`KeysStick`): with calls in turn every
  request for a route is of the call that waits, and a call knows a partition of
  a key only if the cache does, which then keeps it (`KeysInv`).
* `NumberingProofs!StoredAsSent`, `CountedIdsAreNew` (`StoredInCallOrder`,
  `NextIdIsValid`): with calls in turn there is one publisher for a partition at a
  time, alone on its connection, and one that has left the map is over, with
  nothing in its queue and its connection gone (`InTurn`). So calls, and the ids of
  messages sent without one, increase along the log, the connection and the queue
  (`Lined`, `Ahead`), and a publisher's count is at least every id before it
  (`Counts`): it is constructed when everything of the one before is stored.
* `NumberingProofs!OutboxForgetsNothing`, `OffsetParts` (`NothingForgotten`,
  `NonePassedOver`): the ids in the outbox increase, and with the messages sent
  they are all that were generated; an id remembered is the message's that was sent
  as it. The offset counts the messages of the outbox that were sent, which come
  first in it, and confirms take from both.

Recursion over data is done with recursive functions and folds over sequences.
The library's induction theorems, which take an operator, cannot be used with
the provers at hand; the proofs use sets of numbers instead: a set that holds 0
and with each number the next holds all (`SetInduction`, from the
well-foundedness of `<`), applied to a set defined for the purpose.

Only model-checked: liveness, which the provers cannot do; and `RestartRestores`
where another restart runs beside. Every other invariant and action property of
the runs is a theorem.

## 6. Not modelled, and the plan

Not modelled: see `components` in `PROJECT.json` for each part and the
reason. The modules above were written in this order: `Publisher` with its
contract, `Consumer`, `ConnectionPool`, `Heartbeat`, `Connection`, `Wire`
with the codec and the buffer below it, then `SuperStream`, `Client`,
`ConsumerGroup` and `Outbox`. There remain:

1. Proofs: `RestartRestores` beside another restart, which needs which of the two
   has the turn on a connection they both restart.
2. `Wire`: messages other clients write, and the frames besides deliveries. In
   `Connection`: refusals during a handshake.

The versions exchange is left out because nothing follows from it: the answer
of `checkServerDeclaredVersions` is not looked at (`src/connection.ts:206`), and
the versions a server declares are only kept to be shown.

Out of scope: the layouts of administrative requests and responses (field by
field, no state), gzip and the hash function (data, no state), TLS and the
socket itself, logging.
