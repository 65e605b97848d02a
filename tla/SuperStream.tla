----------------------------- MODULE SuperStream -----------------------------
(***************************************************************************)
(* A SuperStreamPublisher and the numbers of its messages                  *)
(* (super_stream_publisher.ts; send, basicSend, sendSubEntries, close of   *)
(* publisher.ts as far as publishing ids go; declarePublisher, routeQuery  *)
(* of client.ts; queryPublisherSequence of connection.ts), with the broker *)
(* that discards what it takes for a duplicate.                            *)
(*                                                                         *)
(* The application makes calls 1, 2, 3, ...; a call is also the name of    *)
(* its message, or of what its batch holds for a partition.  A step is the *)
(* code between two awaits of I/O.  All chunks of a queue count as one.    *)
(***************************************************************************)
EXTENDS Naturals, Integers, Sequences, FiniteSets, SequencesExt, Subsequences

CONSTANTS
  Partitions,   \* what queryPartitions returned
  Keys,         \* routing keys, as the keyExtractor returns them
  Plans,        \* what the application may do, see Plan
  MaxId,        \* bound: the ids an application chooses itself
  Strategies    \* of "hash" and "key": the routingStrategy

Sends == {"send", "numbered", "basic"}   \* "numbered": send with opts.publishingId
Events == {"rebind", "refuse"}

(* The kinds of calls an application makes, whether it awaits each before  *)
(* the next, and the bounds: how many calls, how often each event.         *)
Plan ==
  [ops : SUBSET (Sends \cup {"batch", "close"}), serial : BOOLEAN,
   calls : Nat, limit : [Events -> Nat]]

ASSUME SuperStreamAssumption ==
  /\ 0 \notin Partitions /\ IsFiniteSet(Keys)
  /\ Plans \subseteq Plan /\ MaxId \in Nat
  /\ Strategies \subseteq {"hash", "key"}

VARIABLES
  strategy,    \* routingStrategy
  plan,        \* what the application does
  binding,     \* binding[k]: where the broker, or the hash, sends key k
  cache,       \* routingCache: the partition of a key, 0 if none
  publishers,  \* publishers: the publisher of a partition, 0 if none
  made,        \* the StreamPublishers constructed, in order
  conns,       \* their connections, with the frames the broker has not read
  locator,     \* requests on the locator connection, in order
  calls,       \* the calls made
  last,        \* broker: last id stored for the publisherRef, per partition
  log,         \* broker: calls whose messages it stored, per partition
  discarded,   \* broker: <<partition, call>> confirmed as duplicates
  overtaken,   \* a batch was written before queued messages (history)
  used         \* used[e]: how often event e happened

chosen == <<strategy, plan>>
broker == <<last, log, discarded>>
vars == <<chosen, binding, cache, publishers, made, conns, locator, calls, broker, overtaken, used>>

Awaiting == {"routing", "declaring", "querying", "closing"}
MayStart(op) ==
  /\ op \in plan.ops /\ Len(calls) < plan.calls
  /\ plan.serial => \A c \in DOMAIN calls : calls[c].at \notin Awaiting
Spend(e) == used[e] < plan.limit[e] /\ used' = [used EXCEPT ![e] = @ + 1]

Init ==
  /\ strategy \in Strategies /\ plan \in Plans
  /\ binding \in [Keys -> Partitions]
  /\ cache = [k \in Keys |-> 0]
  /\ publishers = [p \in Partitions |-> 0]
  /\ made = <<>> /\ conns = <<>> /\ locator = <<>> /\ calls = <<>>
  /\ last = [p \in Partitions |-> -1]
  /\ log = [p \in Partitions |-> <<>>]
  /\ discarded = {} /\ overtaken = FALSE
  /\ used = [e \in Events |-> 0]

-----------------------------------------------------------------------------
(* Publishers and the numbers they give.                                   *)

Frame(c, n) == [call |-> c, id |-> n]
CloseFrame(m) == [call |-> 0, id |-> m]
RouteQuery(c, k) == [type |-> "route", call |-> c, key |-> k]
SequenceQuery(c, p) == [type |-> "sequence", call |-> c, part |-> p]

(* send takes the next id, or the application's and counts on from it when *)
(* that is beyond; basicSend leaves the count alone.  send refuses on a    *)
(* closed publisher, basicSend does not.                                   *)
accept(pub, c, call) ==
  CASE call.op = "send" /\ pub.state # "closed" ->
         [pub EXCEPT !.id = @ + 1, !.queue = Append(@, Frame(c, pub.id + 1))]
    [] call.op = "numbered" /\ pub.state # "closed" ->
         [pub EXCEPT !.id = IF call.n > @ THEN call.n ELSE @, !.queue = Append(@, Frame(c, call.n))]
    [] call.op = "basic" -> [pub EXCEPT !.queue = Append(@, Frame(c, call.n))]
    [] OTHER -> pub

(* The publishers in ms, of those in all, get the call's message.  A batch *)
(* is written at once, whatever is queued, under the last id given.        *)
Hand(c, call, ms, all) ==
  \/ /\ call.op = "batch"
     /\ made' = all
     /\ conns' = [k \in DOMAIN conns |->
          IF conns[k].up /\ \E m \in ms : all[m].conn = k
          THEN [conns[k] EXCEPT !.frames =
                 Append(@, Frame(c, all[CHOOSE m \in ms : all[m].conn = k].id))]
          ELSE conns[k]]
     /\ overtaken' = (overtaken \/ \E m \in ms : all[m].queue # <<>>)
  \/ /\ call.op # "batch"
     /\ made' = [m \in DOMAIN all |-> IF m \in ms THEN accept(all[m], c, call) ELSE all[m]]
     /\ UNCHANGED <<conns, overtaken>>

(* The timer of publisher m: its queue is written.                         *)
Flush(m) ==
  /\ made[m].queue # <<>> /\ conns[made[m].conn].up
  /\ conns' = [conns EXCEPT ![made[m].conn].frames = @ \o made[m].queue]
  /\ made' = [made EXCEPT ![m].queue = <<>>]
  /\ UNCHANGED <<chosen, binding, cache, publishers, locator, calls, broker, overtaken, used>>

-----------------------------------------------------------------------------
(* Finding the publishers of a call.                                       *)

Put(c, call) == IF c \in DOMAIN calls THEN [calls EXCEPT ![c] = call] ELSE Append(calls, call)

Absent(todo, pubs) == Without(todo, {p \in Partitions : pubs[p] # 0})

(* The rest of todo from the first partition without a publisher on.       *)
FromAbsent(todo, pubs) ==
  LET absent == {i \in DOMAIN todo : pubs[todo[i]] = 0} IN
  IF absent = {} THEN <<>> ELSE SubSeq(todo, Min(absent), Len(todo))

(* Another: a batch goes to all partitions again after a late look-up.     *)
getPublisherAgain(c, call, pubs, all) ==
  LET rest == FromAbsent(call.todo, pubs)
      ready == call.ready \/ rest = <<>>
      absent == Absent(call.parts, pubs)
  IN
  /\ publishers' = pubs
  /\ \/ /\ ~ready
        /\ calls' = Put(c, [call EXCEPT !.todo = rest, !.at = "declaring"])
        /\ made' = all
        /\ UNCHANGED <<conns, overtaken>>
     \/ /\ ready
        /\ Hand(c, call, {pubs[p] : p \in {q \in ToSet(call.parts) : pubs[q] # 0}}, all)
        /\ calls' = Put(c, [call EXCEPT !.ready = absent = <<>>, !.todo = absent,
                                        !.at = IF absent = <<>> THEN "done" ELSE "declaring"])

(* getPublisher for the partitions in todo, with the map pubs.  A batch    *)
(* goes through them in sequence first; when it has them all (ready) it    *)
(* looks each up again and sends, as a single message does at once.        *)
getPublisher(c, call, pubs, all) ==
  LET rest == FromAbsent(call.todo, pubs)
      ready == call.ready \/ rest = <<>>
      todo == IF call.ready THEN call.todo ELSE call.parts
      absent == Absent(todo, pubs)
  IN
  /\ publishers' = pubs
  /\ \/ /\ ~ready
        /\ calls' = Put(c, [call EXCEPT !.todo = rest, !.at = "declaring"])
        /\ made' = all
        /\ UNCHANGED <<conns, overtaken>>
     \/ /\ ready
        /\ Hand(c, call, {pubs[p] : p \in {q \in ToSet(todo) : pubs[q] # 0}}, all)
        /\ calls' = Put(c, [call EXCEPT !.ready = TRUE, !.todo = absent,
                                        !.at = IF absent = <<>> THEN "done" ELSE "declaring"])

(* routeMessage: the keys whose partition is known without the broker.     *)
Resolved(k) == cache[k] # 0 \/ strategy = "hash"
PartitionOf(k) == IF cache[k] # 0 THEN cache[k] ELSE binding[k]

AddPartition(parts, p) == IF p \in ToSet(parts) THEN parts ELSE Append(parts, p)

(* A mutant of Route: what is known of one key is not kept.                *)
RouteMutant(c, op, keys, n) ==
  LET call == [op |-> op, keys |-> keys, n |-> n, ready |-> op # "batch", conn |-> 0,
               parts |-> <<>>, todo |-> <<>>, at |-> "routing"]
  IN
  /\ calls' = Put(c, call)
  /\ locator' = locator \o [i \in DOMAIN keys |-> RouteQuery(c, keys[i])]
  /\ UNCHANGED <<cache, publishers, made, conns, overtaken>>

(* send, basicSend and sendSubEntries: the messages are routed.  Unless    *)
(* all partitions are known, the call waits for the broker's answers.      *)
Route(c, op, keys, n) ==
  LET asked == Without(keys, {k \in Keys : Resolved(k)})
      known == Without(keys, {k \in Keys : ~Resolved(k)})
      parts == FirstOnes([i \in DOMAIN known |-> PartitionOf(known[i])])
      call == [op |-> op, keys |-> keys, n |-> n, ready |-> op # "batch", conn |-> 0,
               parts |-> parts, todo |-> parts, at |-> "routing"]
  IN
  /\ cache' = [k \in Keys |-> IF k \in ToSet(keys) /\ Resolved(k) THEN PartitionOf(k) ELSE cache[k]]
  /\ \/ /\ asked # <<>>
        /\ calls' = Put(c, call)
        /\ locator' = locator \o [i \in DOMAIN asked |-> RouteQuery(c, asked[i])]
        /\ UNCHANGED <<publishers, made, conns, overtaken>>
     \/ /\ asked = <<>>
        /\ getPublisher(c, call, publishers, made)
        /\ UNCHANGED locator

Send(op, k, n) ==
  /\ MayStart(op)
  /\ Route(Len(calls) + 1, op, <<k>>, n)
  /\ UNCHANGED <<chosen, binding, broker, used>>

SendSubEntries(keys) ==
  /\ MayStart("batch")
  /\ Route(Len(calls) + 1, "batch", keys, 0)
  /\ UNCHANGED <<chosen, binding, broker, used>>

(* The answer to a routeQuery: the call fails when no partition is among   *)
(* those it knows, and goes on when it was the last it waited for.         *)
RouteAnswered ==
  /\ locator # <<>> /\ Head(locator).type = "route"
  /\ LET c == Head(locator).call
         k == Head(locator).key
         parts == AddPartition(calls[c].parts, binding[k])
         call == [calls[c] EXCEPT !.parts = parts, !.todo = parts]
         waits == \E i \in DOMAIN locator : i > 1 /\ locator[i].call = c
     IN
       /\ locator' = Tail(locator)
       /\ \/ /\ binding[k] = 0
             /\ calls' = [calls EXCEPT ![c].at = "failed"]
             /\ UNCHANGED <<cache, publishers, made, conns, overtaken>>
          \/ /\ binding[k] # 0
             /\ cache' = [cache EXCEPT ![k] = binding[k]]
             /\ \/ /\ waits \/ calls[c].at = "failed"
                   /\ calls' = [calls EXCEPT ![c].parts = parts]
                   /\ UNCHANGED <<publishers, made, conns, overtaken>>
                \/ /\ ~waits /\ calls[c].at # "failed"
                   /\ getPublisher(c, call, publishers, made)
  /\ UNCHANGED <<chosen, binding, broker, used>>

(* declarePublisher: the pool has a connection, new or shared, and the     *)
(* broker accepts; the last publishing id is asked for on the locator.     *)
Declared(c) ==
  /\ calls[c].at = "declaring"
  /\ LET p == Head(calls[c].todo) IN
       /\ \/ /\ conns' = Append(conns, [part |-> p, up |-> TRUE, frames |-> <<>>])
             /\ calls' = [calls EXCEPT ![c] = [@ EXCEPT !.at = "querying", !.conn = Len(conns) + 1]]
          \/ \E k \in DOMAIN conns :
               /\ conns[k].part = p /\ conns[k].up
               /\ calls' = [calls EXCEPT ![c] = [@ EXCEPT !.at = "querying", !.conn = k]]
               /\ UNCHANGED conns
       /\ locator' = Append(locator, SequenceQuery(c, p))
  /\ UNCHANGED <<chosen, binding, cache, publishers, made, broker, overtaken, used>>

(* The broker refuses: the call throws, what it found so far remains.      *)
Refused(c) ==
  /\ Spend("refuse")
  /\ calls[c].at = "declaring"
  /\ calls' = [calls EXCEPT ![c].at = "failed"]
  /\ UNCHANGED <<chosen, binding, cache, publishers, made, conns, locator, broker, overtaken>>

(* A mutant of initPublisher: every publisher counts from 0.               *)
initPublisherMutant(p, k) == [part |-> p, conn |-> k, id |-> 0, queue |-> <<>>, state |-> "open"]

(* The StreamPublisher counts from the last id the broker has.             *)
initPublisher(p, k) ==
  [part |-> p, conn |-> k, id |-> IF last[p] < 0 THEN 0 ELSE last[p], queue |-> <<>>, state |-> "open"]

(* The last id is there: the publisher is constructed and entered, in the  *)
(* place of another that came first, and its own call goes on with it.     *)
SequenceAnswered ==
  /\ locator # <<>> /\ Head(locator).type = "sequence"
  /\ locator' = Tail(locator)
  /\ LET c == Head(locator).call
         p == Head(locator).part
         m == Len(made) + 1
         all == Append(made, initPublisher(p, calls[c].conn))
         pubs == [publishers EXCEPT ![p] = m]
         call == [calls[c] EXCEPT !.todo = Tail(@)]
     IN
       \/ /\ call.ready
          /\ publishers' = pubs
          /\ Hand(c, call, {m}, all)
          /\ calls' = [calls EXCEPT ![c] = [call EXCEPT
                         !.at = IF call.todo = <<>> THEN "done" ELSE "declaring"]]
       \/ /\ ~call.ready
          /\ getPublisher(c, call, pubs, all)
  /\ UNCHANGED <<chosen, binding, cache, broker, used>>

-----------------------------------------------------------------------------
(* Closing.                                                                *)

InMap == {publishers[p] : p \in Partitions} \ {0}
ClosedMap == [p \in Partitions |-> 0]

(* A mutant of Waits: no close waits for the broker.                       *)
WaitsMutant(m) == FALSE

(* The close of publisher m ends its connection, when nobody else is on it.*)
Waits(m) ==
  /\ conns[made[m].conn].up
  /\ \A x \in DOMAIN made : x # m /\ made[x].conn = made[m].conn => made[x].state # "open"

(* SuperStreamPublisher.close closes the publishers in the map, each of    *)
(* which flushes its queue, and waits for them all.                        *)
StartClose ==
  LET ms == {m \in InMap : made[m].state = "open"} IN
  /\ MayStart("close")
  /\ \A c \in DOMAIN calls : calls[c].at # "closing"
  /\ made' = [m \in DOMAIN made |->
       IF m \notin ms THEN made[m]
       ELSE [made[m] EXCEPT !.queue = IF conns[made[m].conn].up THEN <<>> ELSE @,
                            !.state = IF Waits(m) THEN "closing" ELSE "closed"]]
  /\ conns' = [k \in DOMAIN conns |->
       IF ~conns[k].up \/ \A m \in ms : made[m].conn # k THEN conns[k]
       ELSE LET m == CHOOSE x \in ms : made[x].conn = k IN
            [conns[k] EXCEPT !.frames = @ \o made[m].queue \o
               IF Waits(m) THEN <<CloseFrame(m)>> ELSE <<>>]]
  /\ LET call == [op |-> "close", keys |-> <<>>, n |-> 0, ready |-> TRUE, conn |-> 0,
                  parts |-> <<>>, todo |-> <<>>, at |-> "closing"]
     IN \/ /\ \E m \in ms : Waits(m)
           /\ calls' = Append(calls, call)
           /\ UNCHANGED publishers
        \/ /\ \A m \in ms : ~Waits(m)
           /\ calls' = Append(calls, [call EXCEPT !.at = "done"])
           /\ publishers' = ClosedMap
  /\ UNCHANGED <<chosen, binding, cache, locator, broker, overtaken, used>>

(* The broker answers the Close of publisher m; with the last one close    *)
(* returns, and the map is emptied.                                        *)
BrokerCloses(k) ==
  /\ conns[k].up /\ conns[k].frames # <<>> /\ Head(conns[k].frames).call = 0
  /\ conns' = [conns EXCEPT ![k].up = FALSE, ![k].frames = <<>>]
  /\ made' = [made EXCEPT ![Head(conns[k].frames).id].state = "closed"]
  /\ LET over == \A m \in DOMAIN made' : made'[m].state # "closing" IN
       /\ calls' = [c \in DOMAIN calls |->
            IF over /\ calls[c].at = "closing" THEN [calls[c] EXCEPT !.at = "done"] ELSE calls[c]]
       /\ publishers' = IF over THEN ClosedMap ELSE publishers
  /\ UNCHANGED <<chosen, binding, cache, locator, broker, overtaken, used>>

-----------------------------------------------------------------------------
(* The broker.                                                             *)

(* Ids not beyond the last one are taken for duplicates, and confirmed     *)
(* like the others.                                                        *)
BrokerStores(k) ==
  /\ conns[k].up /\ conns[k].frames # <<>> /\ Head(conns[k].frames).call # 0
  /\ conns' = [conns EXCEPT ![k].frames = Tail(@)]
  /\ LET f == Head(conns[k].frames)
         p == conns[k].part
     IN \/ /\ f.id > last[p]
           /\ last' = [last EXCEPT ![p] = f.id]
           /\ log' = [log EXCEPT ![p] = Append(@, f.call)]
           /\ UNCHANGED discarded
        \/ /\ f.id <= last[p]
           /\ discarded' = discarded \cup {<<p, f.call>>}
           /\ UNCHANGED <<last, log>>
  /\ UNCHANGED <<chosen, binding, cache, publishers, made, locator, calls, overtaken, used>>

(* The bindings of the super stream change; 0 is a partition that was not  *)
(* there when the publisher asked for the partitions.                      *)
Rebind(k, p) ==
  /\ Spend("rebind") /\ strategy = "key" /\ binding[k] # p
  /\ binding' = [binding EXCEPT ![k] = p]
  /\ UNCHANGED <<chosen, cache, publishers, made, conns, locator, calls, broker, overtaken>>

Next ==
  \/ \E k \in Keys : \E op \in Sends : \E n \in IF op = "send" THEN {0} ELSE 1 .. MaxId : Send(op, k, n)
  \/ \E keys \in SetToSeqs(Keys) : SendSubEntries(keys)
  \/ StartClose
  \/ \E m \in DOMAIN made : Flush(m)
  \/ \E c \in DOMAIN calls : Declared(c) \/ Refused(c)
  \/ RouteAnswered \/ SequenceAnswered
  \/ \E k \in DOMAIN conns : BrokerStores(k) \/ BrokerCloses(k)
  \/ \E k \in Keys, p \in Partitions \cup {0} : Rebind(k, p)

Spec == Init /\ [][Next]_vars
-----------------------------------------------------------------------------
(* Properties.                                                             *)

(* A message sent without a number is never taken for a duplicate, as long *)
(* as calls are made in turn (two at once for a partition may make two     *)
(* publishers, which count from the same id), none of them is a basicSend, *)
(* which numbers behind the publisher's back, and no batch overtakes       *)
(* queued messages, whose last id it uses.  Batches themselves may be      *)
(* taken for duplicates.                                                   *)
Orderly == plan.serial /\ ~overtaken /\ \A c \in DOMAIN calls : calls[c].op # "basic"
NextIdIsValid == Orderly => \A d \in discarded : calls[d[2]].op # "send"

(* Calls made in turn are stored in the order of the calls, across a close *)
(* and the publishers made after it.                                       *)
StoredInCallOrder ==
  plan.serial /\ ~overtaken =>
    \A p \in Partitions : \A i, j \in DOMAIN log[p] : i < j => log[p][i] < log[p][j]

(* Whatever calls run at once, each hands its message, or its entry for a  *)
(* partition, to one publisher and once: it is in one place at most.       *)
At(frames, c) == {i \in DOMAIN frames : frames[i].call = c}
StoredAt(p, c) == {<<"stored", i>> : i \in {i \in DOMAIN log[p] : log[p][i] = c}}
DiscardedAt(p, c) == {<<"discarded">> : d \in {d \in discarded : d = <<p, c>>}}
WrittenAt(p, c) ==
  UNION {{<<"written", k, i>> : i \in At(conns[k].frames, c)} : k \in {k \in DOMAIN conns : conns[k].part = p}}
QueuedAt(p, c) ==
  UNION {{<<"queued", m, i>> : i \in At(made[m].queue, c)} : m \in {m \in DOMAIN made : made[m].part = p}}
Places(p, c) == StoredAt(p, c) \cup DiscardedAt(p, c) \cup WrittenAt(p, c) \cup QueuedAt(p, c)
NoneTwice ==
  \A p \in Partitions, c \in DOMAIN calls : \A x, y \in Places(p, c) : x = y

(* Messages of one key that are sent in turn go to one partition, whatever *)
(* becomes of the bindings, unless a batch has failed for one of its keys: *)
(* the answers for the others come later, and overwrite what the cache     *)
(* holds by then.                                                          *)
BatchFailed == \E c \in DOMAIN calls : calls[c].at = "failed" /\ Len(calls[c].keys) > 1
KeysStick ==
  plan.serial /\ ~BatchFailed => \A c, d \in DOMAIN calls :
    /\ Len(calls[c].keys) = 1 /\ calls[c].keys = calls[d].keys
    /\ calls[c].parts # <<>> /\ calls[d].parts # <<>>
    => calls[c].parts = calls[d].parts
=============================================================================
