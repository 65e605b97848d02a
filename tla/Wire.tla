-------------------------------- MODULE Wire --------------------------------
(***************************************************************************)
(* Messages on their way from a publisher to a consumer: a publish request *)
(* is encoded (requests/publish_request.ts, requests/                      *)
(* sub_entry_batch_publish_request.ts, AbstractRequest.toBuffer), stored   *)
(* by the broker in a chunk, delivered in a frame that arrives in pieces,  *)
(* and decoded (ResponseDecoder.add, decode, decodeDeliverResponse).       *)
(*                                                                         *)
(* Encoding, and the decoding of what one 'data' event completes, run      *)
(* without interruption (Idle).                                            *)
(***************************************************************************)
EXTENDS Amqp10, BufferDataWriter, FiniteSets

CONSTANTS
  Requests,      \* the requests publishers may make: [kind, messages], of kind "plain",
                 \* "filtered" (by a publisher with a filter) or "batch"
  MaxRequests,   \* bound: requests made
  Cuts           \* bound: where 'data' events end, in bytes from the start of a frame

(* A chunk is only sent when there is something in the queue.              *)
ASSUME WireAssumption ==
  /\ Requests \subseteq [kind : {"plain", "filtered", "batch"}, messages : Seq(Message)]
  /\ \A r \in Requests : r.kind # "batch" => r.messages # <<>>
  /\ MaxRequests \in Nat /\ Cuts \subseteq Int

VARIABLES
  request,   \* the request that is encoded: <<>>, or <<it>>
  todo,      \* what is still to be written of it
  made,      \* requests made so far
  chunks,    \* the stream: sequences of entries
  delivered, \* chunks the broker has sent to the consumer
  rest,      \* bytes of them that have arrived and are not decoded (lastData)
  arrived,   \* history: all bytes that have arrived
  decoded,   \* decoded[i]: what the handler was given for chunk i
  crashed    \* decoding threw, in the listener of the 'data' event

stream == <<chunks, delivered>>
reader == <<rest, arrived, decoded, crashed>>
wire == <<writer, request, todo, made, stream, reader>>

WireInit ==
  /\ WriterInit
  /\ request = <<>> /\ todo = <<>> /\ made = 0
  /\ chunks = <<>> /\ delivered = 0
  /\ rest = 0 /\ arrived = 0 /\ decoded = <<>> /\ crashed = FALSE

-----------------------------------------------------------------------------
(* Encoding a request.                                                     *)

Numbers(widths) == [i \in DOMAIN widths |-> [bytes |-> widths[i], text |-> FALSE]]
Text(n) == <<[bytes |-> n, text |-> TRUE]>>
Writes(tokens) ==
  FlattenSeq([i \in DOMAIN tokens |->
    Numbers(tokens[i].head) \o (IF tokens[i].data = 0 THEN <<>> ELSE Text(tokens[i].data))])

amqpEncode(m) == Numbers(<<4>>) \o Writes(encode(m))
Inner(messages) == Total([i \in DOMAIN messages |-> 4 + Bytes(encode(messages[i]))])

Header == Numbers(<<2, 2>>)                                  \* key and version
PublishRequest(messages) ==
  Header \o Numbers(<<1, 4>>)
    \o FlattenSeq([i \in DOMAIN messages |-> Numbers(<<8>>) \o amqpEncode(messages[i])])
(* A message with its filter value, or -1 where there is none.             *)
filterValue(m) == Numbers(<<2>>) \o (IF m.filterValue = 0 THEN <<>> ELSE Text(m.filterValue))
PublishRequestV2(messages) ==
  Header \o Numbers(<<1, 4>>)
    \o FlattenSeq([i \in DOMAIN messages |->
         Numbers(<<8>>) \o filterValue(messages[i]) \o amqpEncode(messages[i])])
(* The messages of a batch are encoded apart.                              *)
SubEntryBatchPublishRequest(messages) ==
  Header \o Numbers(<<1, 4, 8, 1, 2, 4, 4>>) \o Text(Inner(messages))

Idle == request = <<>> /\ ~crashed

(* A publisher takes an unlimited frame for one of the default size.       *)
DefaultFrameMax == 1048576
maxFrameSize == IF MaxSize = Unlimited THEN DefaultFrameMax ELSE MaxSize
checkMessageSize(m) == messageSize(m) <= maxFrameSize

(* A chunk of messages that passed the size check is sent, or a batch.     *)
Publish(r) ==
  /\ Idle /\ made < MaxRequests
  /\ r.kind = "batch" \/ \A i \in DOMAIN r.messages : checkMessageSize(r.messages[i])
  /\ made' = made + 1
  /\ request' = <<r>>
  /\ todo' = CASE r.kind = "plain"    -> PublishRequest(r.messages)
               [] r.kind = "filtered" -> PublishRequestV2(r.messages)
               [] r.kind = "batch"    -> SubEntryBatchPublishRequest(r.messages)
  /\ New
  /\ UNCHANGED <<stream, reader>>

Write ==
  /\ todo # <<>>
  /\ IF Head(todo).text THEN WriteData(Head(todo).bytes) ELSE WriteNumber(Head(todo).bytes)
  /\ todo' = Tail(todo)
  /\ UNCHANGED <<request, made, stream, reader>>

(* toBuffer throws: the promise of Connection.send is rejected, and the    *)
(* messages are in no queue any more.                                      *)
RequestFails ==
  /\ status = "thrown"
  /\ request' = <<>> /\ todo' = <<>>
  /\ UNCHANGED <<writer, made, stream, reader>>

Finished == request # <<>> /\ todo = <<>> /\ status = "writing"

(* What the broker makes of a message: its size and its bytes.             *)
Stored(m) == [size |-> messageSize(m), tokens |-> encode(m), message |-> m]
Entries(r) ==
  LET records == [i \in DOMAIN r.messages |-> Stored(r.messages[i])]
  IN  IF r.kind = "batch" THEN <<[batch |-> TRUE, records |-> records]>>
      ELSE [i \in DOMAIN records |-> [batch |-> FALSE, records |-> <<records[i]>>]]
Readable(r) ==
  offset = asked /\ \A i \in DOMAIN r.messages : Bytes(encode(r.messages[i])) = messageSize(r.messages[i])

(* The broker stores the entries of a frame it can read, in a chunk of     *)
(* their own or behind others.                                             *)
BrokerStores ==
  /\ Finished /\ Readable(request[1])
  /\ \/ chunks' = Append(chunks, Entries(request[1]))
     \/ /\ delivered < Len(chunks)
        /\ chunks' = [chunks EXCEPT ![Len(chunks)] = @ \o Entries(request[1])]
  /\ request' = <<>>
  /\ UNCHANGED <<writer, todo, made, delivered, reader>>

BrokerRefuses ==
  /\ Finished /\ ~Readable(request[1])
  /\ request' = <<>>
  /\ UNCHANGED <<writer, todo, made, stream, reader>>

-----------------------------------------------------------------------------
(* Decoding.                                                               *)

(* The bytes of a Deliver frame behind its size, with the chunk's header.  *)
EntrySize(e) ==
  Total([i \in DOMAIN e.records |-> 4 + e.records[i].size]) + (IF e.batch THEN 1 + 2 + 4 + 4 ELSE 0)
FrameSize(c) == 2 + 2 + 1 + 48 + Total([i \in DOMAIN c |-> EntrySize(c[i])])
UInt32Size == 4
WholeFrame(c) == UInt32Size + FrameSize(c)

BrokerDelivers ==
  /\ Idle /\ delivered < Len(chunks)
  /\ delivered' = delivered + 1
  /\ UNCHANGED <<writer, request, todo, made, chunks, reader>>

Unread == SubSeq(chunks, Len(decoded) + 1, delivered)
OnTheWire == Total([i \in DOMAIN Unread |-> WholeFrame(Unread[i])]) - rest

(* decode finds a whole frame.                                             *)
Complete == Unread # <<>> /\ rest >= UInt32Size /\ rest - UInt32Size >= FrameSize(Unread[1])

(* Where the bytes of a 'data' event may end.                              *)
Ends ==
  LET start(k) == Total([i \in 1 .. k - 1 |-> WholeFrame(Unread[i])])
  IN  {start(k) + cut : k \in 1 .. Len(Unread) + 1, cut \in Cuts}

(* Bytes arrive, once the loop over the ones before has ended.             *)
Data ==
  /\ Idle /\ ~Complete
  /\ \E n \in {end - rest : end \in Ends} \cap (1 .. OnTheWire) :
       rest' = rest + n /\ arrived' = arrived + n
  /\ UNCHANGED <<writer, request, todo, made, stream, decoded, crashed>>

FirstOffset(i) ==
  LET recordsOf(c) == Total([k \in DOMAIN c |-> Len(c[k].records)])
  IN  Total([k \in 1 .. i - 1 |-> recordsOf(chunks[k])])

(* decodeMessage: <<[message, offset]>>, or <<>> when it throws.           *)
Decoded(record, at) ==
  LET read == decodeMessage(record.tokens, record.size)
  IN  IF read = <<>> THEN <<>> ELSE <<[message |-> read[1], offset |-> at]>>

(* decodeSubEntries numbers the messages of a batch from 0.                *)
decodeSubEntries(e) == [i \in DOMAIN e.records |-> Decoded(e.records[i], i - 1)]

(* A mutant of decodeEntries: all entries carry the offset of the first.   *)
decodeEntriesMutant(c, first) ==
  [i \in DOMAIN c |-> IF c[i].batch THEN <<>> ELSE Decoded(c[i].records[1], first)]

(* Plain entries, each with its offset; a batch is taken for a message.    *)
decodeEntries(c, first) ==
  [i \in DOMAIN c |-> IF c[i].batch THEN <<>> ELSE Decoded(c[i].records[1], first + i - 1)]

(* The first entry decides what the chunk is taken for; of batches, only   *)
(* the first one is read.                                                  *)
decodeDeliverResponse(c, first) ==
  IF c[1].batch THEN decodeSubEntries(c[1]) ELSE decodeEntries(c, first)

(* A frame is decoded as a whole or not at all.                            *)
Handled(read) ==
  /\ crashed' = \E i \in DOMAIN read : read[i] = <<>>
  /\ decoded' = Append(decoded, IF crashed' THEN <<>> ELSE FlattenSeq(read))

(* A mutant of DecodeFrame: what lies behind the frame is dropped.         *)
DecodeFrameMutant ==
  /\ ~crashed /\ Complete
  /\ rest' = 0
  /\ Handled(decodeDeliverResponse(Unread[1], FirstOffset(Len(decoded) + 1)))
  /\ UNCHANGED <<writer, request, todo, made, stream, arrived>>

(* The loop of add takes one frame.                                        *)
DecodeFrame ==
  /\ ~crashed /\ Complete
  /\ rest' = rest - WholeFrame(Unread[1])
  /\ Handled(decodeDeliverResponse(Unread[1], FirstOffset(Len(decoded) + 1)))
  /\ UNCHANGED <<writer, request, todo, made, stream, arrived>>

-----------------------------------------------------------------------------
WireNext ==
  \/ \E r \in Requests : Publish(r)
  \/ Write \/ RequestFails
  \/ BrokerStores \/ BrokerRefuses \/ BrokerDelivers
  \/ Data \/ DecodeFrame

WireSpec == WireInit /\ [][WireNext]_wire

-----------------------------------------------------------------------------
(* Properties.                                                             *)

(* Messages the codec keeps: a key is not empty, a user id neither empty   *)
(* nor long, an application property neither 0 nor "", an annotation not   *)
(* "".                                                                     *)
Proper(m) ==
  /\ \A p \in ToSet(m.application) : ~Falsy(p.key) /\ ~Falsy(p.value)
  /\ \A p \in ToSet(m.annotations) : ~Falsy(p.key) /\ p.value # Value("string", 0)
  /\ \A p \in ToSet(m.properties) : p["userId"] = Absent \/ p["userId"].n \in 1 .. 255

(* What a consumer is to be given: an unset, empty or zero property is     *)
(* absent, an AmqpByte a number.                                           *)
AsRead(m) ==
  [content |-> m.content,
   properties |-> [f \in ToSet(Fields) |->
     IF m.properties = <<>> THEN Absent
     ELSE IF Falsy(m.properties[1][f]) THEN Absent ELSE m.properties[1][f]],
   application |-> m.application,
   annotations |-> [i \in DOMAIN m.annotations |->
     LET p == m.annotations[i]
     IN  [p EXCEPT !.value = IF @.kind = "byte" THEN Value("number", @.n) ELSE @]]]

Messages(r) == ToSet(r.messages)

ChunkIs(c, batch) == \A i \in DOMAIN c : c[i].batch = batch
Records(c) == FlattenSeq([i \in DOMAIN c |-> c[i].records])
AllProper(c) == \A i \in DOMAIN Records(c) : Proper(Records(c)[i].message)
Expected(i) ==
  [k \in DOMAIN Records(chunks[i]) |->
     [message |-> AsRead(Records(chunks[i])[k].message), offset |-> FirstOffset(i) + k - 1]]

(* What was sent is what is handled: every message of a delivered chunk,   *)
(* in order, as it was and with its own offset, wherever frames were cut.  *)
ReadAsSent ==
  \A i \in DOMAIN decoded :
    ChunkIs(chunks[i], FALSE) /\ AllProper(chunks[i]) => decoded[i] = Expected(i)

(* When all bytes have arrived, all frames have been decoded, and none was *)
(* taken for complete before it was.                                       *)
AllRead ==
  LET sizes == [i \in DOMAIN decoded |-> WholeFrame(chunks[i])]
  IN  Total(sizes) + rest = arrived
=============================================================================
