----------------------------- MODULE Connection -----------------------------
(***************************************************************************)
(* One Connection: its sockets, the handshake of the 'connect' listener,   *)
(* requests and their answers (sendAndWait, waitResponse,                  *)
(* responseReceived), the reassembly of frames in ResponseDecoder.add,     *)
(* close and restart (connection.ts, waiting_response.ts,                  *)
(* response_decoder.ts), with the broker's side as that code uses it.      *)
(*                                                                         *)
(* A macrotask of the event loop (a socket event, a write callback, a call *)
(* of the application) starts only when nothing is left of the one before  *)
(* (Idle).  One 'data' event hands over all its frames (batch) before the  *)
(* continuations of the promises they settle run (micro).                  *)
(***************************************************************************)
EXTENDS Naturals, Integers, Sequences, FiniteSets, SequencesExt

CONSTANTS
  Requests,      \* the application's calls of sendAndWait, numbers
  MaxSockets,    \* bound: sockets created by start and restart
  Limit          \* bounds: how often each event of Events may happen

Events == {"drop", "restart", "early"}
Sockets == 1 .. MaxSockets

ASSUME ConnectionAssumption ==
  /\ Requests \subseteq Nat
  /\ MaxSockets \in Nat \ {0}
  /\ Limit \in [Events -> Nat]

VARIABLES
  sock,      \* the socket: "connecting", "open", "ended" (no 'close' event yet), "closed"
  gen,       \* its number
  ready,     \* Connection.setupCompleted
  manual,    \* Connection.userManuallyClose
  corr,      \* Connection.correlationId
  writing,   \* writes on the socket whose callbacks are to come
  waiting,   \* Connection.waitingResponses
  received,  \* Connection.receivedResponses
  lastData,  \* ResponseDecoder.lastData: "empty", "part" of a frame, of an old socket: "stale"
  batch,     \* frames of the current 'data' event, not emitted yet
  micro,     \* settled promises whose continuations are to run
  step,      \* step[g]: what the handshake of socket g waits for
  calls,     \* calls[r]: "idle", "called", "answered" or "failed"
  toBroker,  \* frames written, not read by the broker
  fromBroker,\* frames sent by the broker, not read by the client
  level,     \* broker: handshake frames read from this socket
  mixed,     \* history: an answer settled another request's promise
  disorder,  \* history: the broker read a frame it did not expect
  used       \* used[e]: how often event e happened

client == <<ready, manual, corr, waiting, received, lastData, batch, micro, step, calls>>
wires == <<writing, toBroker, fromBroker>>
history == <<mixed, disorder>>
vars == <<sock, gen, client, wires, level, history, used>>

Handshake == <<"properties", "sasl", "authenticate", "tuned", "open", "versions">>
Awaited == ToSet(Handshake) \cup {"tune"}
Steps == Awaited \cup {"none", "done", "failed"}
UserKeys == {"query", "close"}
Keys == Awaited \cup UserKeys
(* A request: its id, what it is, the call or the handshake it is part of, *)
(* and the socket it is written to.  An answer carries those of its        *)
(* request.  Only Tune, which the broker sends by itself, has the id -1,   *)
(* and only the answer to it, which takes none, the id 0.                  *)
TuneId == -1
Message ==
  {m \in [corr : Int, key : Keys, by : Nat, gen : Sockets] :
     /\ m.corr >= TuneId
     /\ m.corr = TuneId <=> m.key = "tune"
     /\ m.corr = 0 <=> m.key = "tuned"}

Idle == batch = <<>> /\ micro = <<>>
Spend(e) == used[e] < Limit[e] /\ used' = [used EXCEPT ![e] = @ + 1]

Init ==
  /\ sock = "connecting" /\ gen = 1 /\ level = 0
  /\ ready = FALSE /\ manual = FALSE
  /\ corr = 0
  /\ writing = <<>> /\ toBroker = <<>> /\ fromBroker = <<>>
  /\ waiting = <<>> /\ received = <<>>
  /\ lastData = "empty" /\ batch = <<>> /\ micro = <<>>
  /\ step = [g \in Sockets |-> "none"]
  /\ calls = [r \in Requests |-> "idle"]
  /\ mixed = FALSE /\ disorder = FALSE
  /\ used = [e \in Events |-> 0]

-----------------------------------------------------------------------------
(* Requests and answers.                                                   *)

(* socket.write: a socket that is connecting keeps the frame until it is   *)
(* open; one that has ended drops it, and the callback gets the error.     *)
write(m) ==
  /\ writing' = Append(writing, m)
  /\ toBroker' = IF sock \in {"connecting", "open"} THEN Append(toBroker, m) ELSE toBroker

(* A mutant of sendAndWait: ids start again with every socket.             *)
sendAndWaitMutant(key, by) ==
  /\ corr' = IF key = "properties" THEN 1 ELSE corr + 1
  /\ write([corr |-> corr', key |-> key, by |-> by, gen |-> gen])

sendAndWait(key, by) ==
  /\ corr' = corr + 1
  /\ write([corr |-> corr + 1, key |-> key, by |-> by, gen |-> gen])

(* The promise of request w is settled with answer m; q runs before.       *)
Settle(w, m, q) ==
  /\ micro' = Append(q, w)
  /\ mixed' = (mixed \/ (w.corr # TuneId /\ w # m))

First(s, id, i) == i \in DOMAIN s /\ s[i].corr = id /\ \A j \in 1 .. i - 1 : s[j].corr # id
None(s, id) == \A i \in DOMAIN s : s[i].corr # id

(* waitResponse: the answer may be there already.                          *)
waitResponse(w, q) ==
  \/ \E i \in DOMAIN received :
       /\ First(received, w.corr, i)
       /\ received' = RemoveAt(received, i)
       /\ Settle(w, received[i], q)
       /\ UNCHANGED waiting
  \/ /\ None(received, w.corr)
     /\ waiting' = Append(waiting, w)
     /\ micro' = q
     /\ UNCHANGED <<received, mixed>>

(* A mutant of responseReceived: an answer nobody waits for yet is lost.   *)
responseReceivedMutant(m) ==
  \/ \E i \in DOMAIN waiting :
       /\ First(waiting, m.corr, i)
       /\ waiting' = RemoveAt(waiting, i)
       /\ Settle(waiting[i], m, micro)
       /\ UNCHANGED received
  \/ None(waiting, m.corr) /\ UNCHANGED <<waiting, received, micro, mixed>>

responseReceived(m) ==
  \/ \E i \in DOMAIN waiting :
       /\ First(waiting, m.corr, i)
       /\ waiting' = RemoveAt(waiting, i)
       /\ Settle(waiting[i], m, micro)
       /\ UNCHANGED received
  \/ /\ None(waiting, m.corr)
     /\ received' = Append(received, m)
     /\ UNCHANGED <<waiting, micro, mixed>>

(* The application calls sendAndWait, or close; it may do so early, while  *)
(* the connection is not ready.                                            *)
Call(r) ==
  /\ Idle /\ calls[r] = "idle"
  /\ \/ ready /\ UNCHANGED used
     \/ ~ready /\ Spend("early")
  /\ \E key \in UserKeys : sendAndWait(key, r)
  /\ calls' = [calls EXCEPT ![r] = "called"]
  /\ UNCHANGED <<sock, gen, ready, manual, waiting, received, lastData, batch, micro, step,
                 fromBroker, level, history>>

(* The callbacks of the writes run in order.  That of the answer to Tune   *)
(* goes on with the handshake, the others wait for the answer.             *)
WriteDone ==
  /\ Idle /\ writing # <<>> /\ sock \in {"open", "ended"}
  /\ writing' = Tail(writing)
  /\ \/ /\ Head(writing).key = "tuned"
        /\ micro' = Append(micro, Head(writing))
        /\ UNCHANGED <<waiting, received, mixed>>
     \/ Head(writing).key # "tuned" /\ waitResponse(Head(writing), micro)
  /\ UNCHANGED <<sock, gen, ready, manual, corr, lastData, batch, step, calls,
                 toBroker, fromBroker, level, disorder, used>>

(* The request fails; a handshake stops for good, unhandled.               *)
WriteFails ==
  /\ Idle /\ writing # <<>> /\ sock \in {"ended", "closed"}
  /\ writing' = Tail(writing)
  /\ LET w == Head(writing) IN
       \/ /\ w.key \in UserKeys
          /\ calls' = [calls EXCEPT ![w.by] = "failed"]
          /\ UNCHANGED step
       \/ /\ w.key \notin UserKeys
          /\ step' = [step EXCEPT ![w.by] = "failed"]
          /\ UNCHANGED calls
  /\ UNCHANGED <<sock, gen, ready, manual, corr, waiting, received, lastData, batch, micro,
                 toBroker, fromBroker, level, history, used>>

-----------------------------------------------------------------------------
(* Incoming data.                                                          *)

(* A 'data' event brings n whole frames, or what was missing of the first  *)
(* of them, and maybe a part of the next.                                  *)
Data ==
  /\ Idle /\ sock = "open" /\ lastData # "stale"
  /\ \E n \in 0 .. Len(fromBroker), half \in BOOLEAN :
       /\ half => n < Len(fromBroker)
       /\ n > 0 \/ (half /\ lastData = "empty")
       /\ batch' = SubSeq(fromBroker, 1, n)
       /\ fromBroker' = SubSeq(fromBroker, n + 1, Len(fromBroker))
       /\ lastData' = IF half THEN "part" ELSE "empty"
  /\ UNCHANGED <<sock, gen, ready, manual, corr, waiting, received, micro, step, calls,
                 writing, toBroker, level, history, used>>

(* Behind the beginning of a frame of an old socket nothing is read as     *)
(* what it is; what the decoder takes it for is not modelled.              *)
DataGarbled ==
  /\ Idle /\ sock = "open" /\ lastData = "stale" /\ fromBroker # <<>>
  /\ fromBroker' = <<>>
  /\ UNCHANGED <<sock, gen, client, writing, toBroker, level, history, used>>

Emit ==
  /\ batch # <<>>
  /\ responseReceived(Head(batch))
  /\ batch' = Tail(batch)
  /\ UNCHANGED <<sock, gen, ready, manual, corr, lastData, step, calls,
                 wires, level, disorder, used>>

-----------------------------------------------------------------------------
(* What runs when a promise is settled.                                    *)

settled == Head(micro)
Running == batch = <<>> /\ micro # <<>>

(* The caller of sendAndWait.                                              *)
Answered ==
  /\ Running /\ settled.key = "query"
  /\ micro' = Tail(micro)
  /\ calls' = [calls EXCEPT ![settled.by] = "answered"]
  /\ UNCHANGED <<sock, gen, ready, manual, corr, waiting, received, lastData, batch, step,
                 wires, level, history, used>>

(* The rest of close.  Client.close asks not to be told of the end.        *)
CloseAnswered ==
  /\ Running /\ settled.key = "close"
  /\ micro' = Tail(micro)
  /\ calls' = [calls EXCEPT ![settled.by] = "answered"]
  /\ manual' \in BOOLEAN
  /\ sock' = IF sock = "closed" THEN sock ELSE "ended"
  /\ UNCHANGED <<gen, ready, corr, waiting, received, lastData, batch, step,
                 wires, level, history, used>>

After(key) == CASE key = "properties" -> "sasl" [] key = "sasl" -> "authenticate"
                [] key = "tuned" -> "open" [] key = "open" -> "versions"

(* The handshake sends its next request, on the socket there is now.       *)
Advance ==
  /\ Running /\ settled.key \in {"properties", "sasl", "tuned", "open"}
  /\ micro' = Tail(micro)
  /\ sendAndWait(After(settled.key), settled.by)
  /\ step' = [step EXCEPT ![settled.by] = After(settled.key)]
  /\ UNCHANGED <<sock, gen, ready, manual, waiting, received, lastData, batch, calls,
                 fromBroker, level, history, used>>

(* tune waits for a Tune frame, whichever comes first ...                  *)
AwaitTune ==
  /\ Running /\ settled.key = "authenticate"
  /\ waitResponse([corr |-> TuneId, key |-> "tune", by |-> settled.by, gen |-> gen], Tail(micro))
  /\ step' = [step EXCEPT ![settled.by] = "tune"]
  /\ UNCHANGED <<sock, gen, ready, manual, corr, lastData, batch, calls,
                 wires, level, disorder, used>>

(* ... and answers it with a frame that has no correlation id.             *)
AnswerTune ==
  /\ Running /\ settled.key = "tune"
  /\ micro' = Tail(micro)
  /\ write([corr |-> 0, key |-> "tuned", by |-> settled.by, gen |-> gen])
  /\ step' = [step EXCEPT ![settled.by] = "tuned"]
  /\ UNCHANGED <<sock, gen, ready, manual, corr, waiting, received, lastData, batch, calls,
                 fromBroker, level, history, used>>

SetupCompleted ==
  /\ Running /\ settled.key = "versions"
  /\ micro' = Tail(micro)
  /\ ready' = TRUE
  /\ step' = [step EXCEPT ![settled.by] = "done"]
  /\ UNCHANGED <<sock, gen, manual, corr, waiting, received, lastData, batch, calls,
                 wires, level, history, used>>

-----------------------------------------------------------------------------
(* The socket.                                                             *)

(* The 'connect' listener starts the handshake.                            *)
SocketConnects ==
  /\ Idle /\ sock = "connecting"
  /\ sock' = "open"
  /\ sendAndWait("properties", gen)
  /\ step' = [step EXCEPT ![gen] = "properties"]
  /\ UNCHANGED <<gen, ready, manual, waiting, received, lastData, batch, micro, calls,
                 fromBroker, level, history, used>>

Lost == toBroker' = <<>> /\ fromBroker' = <<>>

Drop ==
  /\ Idle /\ Spend("drop")
  /\ sock \in {"connecting", "open"}
  /\ sock' = "ended"
  /\ Lost
  /\ UNCHANGED <<gen, client, writing, level, history>>

(* A mutant of SocketCloses: the 'close' listener leaves ready as it is.   *)
SocketClosesMutant ==
  /\ Idle /\ sock = "ended" /\ writing = <<>>
  /\ sock' = "closed"
  /\ UNCHANGED <<gen, client, wires, level, history, used>>

(* The 'close' event, after the callbacks of all writes.                   *)
SocketCloses ==
  /\ Idle /\ sock = "ended" /\ writing = <<>>
  /\ sock' = "closed"
  /\ ready' = FALSE
  /\ UNCHANGED <<gen, manual, corr, waiting, received, lastData, batch, micro, step, calls,
                 wires, level, history, used>>

(* restart, called by the application's connection_closed listener unless  *)
(* the end was asked for, or on a connection that is well.  The old        *)
(* socket's listeners are gone; its waiters and the decoder stay.          *)
Restart ==
  /\ Idle /\ writing = <<>> /\ gen < MaxSockets
  /\ \/ sock = "closed" /\ ~manual /\ UNCHANGED used
     \/ sock = "open" /\ ready /\ Spend("restart")
  /\ sock' = "connecting" /\ gen' = gen + 1 /\ level' = 0
  /\ Lost
  /\ lastData' = IF lastData = "empty" THEN "empty" ELSE "stale"
  /\ UNCHANGED <<ready, manual, corr, waiting, received, batch, micro, step, calls,
                 writing, history>>

-----------------------------------------------------------------------------
(* The broker.                                                             *)

opened == level >= 5
Closing == Len(Handshake) + 1

Expected(m) ==
  \/ level < Len(Handshake) /\ m.key = Handshake[level + 1]
  \/ opened /\ level < Closing /\ m.key \in UserKeys

Tune(m) == [corr |-> TuneId, key |-> "tune", by |-> m.by, gen |-> m.gen]
Answer(m) ==
  CASE m.key = "authenticate" -> <<m, Tune(m)>>
    [] m.key = "tuned"        -> <<>>
    [] OTHER                  -> <<m>>

(* It takes the steps of the handshake in order, answers what it is asked  *)
(* after Open, and nothing any more after Close.                           *)
BrokerReads ==
  /\ sock = "open" /\ toBroker # <<>> /\ Expected(Head(toBroker))
  /\ toBroker' = Tail(toBroker)
  /\ fromBroker' = fromBroker \o Answer(Head(toBroker))
  /\ level' = CASE Head(toBroker).key = "close" -> Closing
               [] Head(toBroker).key = "query" -> level
               [] OTHER                        -> level + 1
  /\ UNCHANGED <<sock, gen, client, writing, history, used>>

(* A frame out of order: it ends the connection.                           *)
BrokerRefuses ==
  /\ Idle /\ sock = "open" /\ level < Closing
  /\ toBroker # <<>> /\ ~Expected(Head(toBroker))
  /\ disorder' = TRUE
  /\ sock' = "ended"
  /\ Lost
  /\ UNCHANGED <<gen, client, writing, level, mixed, used>>

-----------------------------------------------------------------------------
Task ==
  \/ WriteDone \/ WriteFails \/ Data \/ DataGarbled \/ Emit
  \/ Answered \/ CloseAnswered \/ Advance \/ AwaitTune \/ AnswerTune \/ SetupCompleted
  \/ SocketConnects \/ SocketCloses
Broker == BrokerReads \/ BrokerRefuses

Next == Task \/ Broker \/ Drop \/ Restart \/ \E r \in Requests : Call(r)

Spec == Init /\ [][Next]_vars

(* The event loop runs, the broker reads, and the application restarts a   *)
(* closed connection.                                                      *)
Fairness ==
  /\ WF_vars(Task) /\ WF_vars(Data) /\ WF_vars(Broker)
  /\ WF_vars(WriteDone \/ WriteFails)
  /\ WF_vars(sock = "closed" /\ Restart)

FairSpec == Spec /\ Fairness
-----------------------------------------------------------------------------
(* Properties.                                                             *)

TypeOK ==
  /\ sock \in {"connecting", "open", "ended", "closed"}
  /\ gen \in Sockets /\ ready \in BOOLEAN /\ manual \in BOOLEAN /\ corr \in Nat
  /\ writing \in Seq(Message) /\ toBroker \in Seq(Message) /\ fromBroker \in Seq(Message)
  /\ waiting \in Seq(Message) /\ received \in Seq(Message)
  /\ batch \in Seq(Message) /\ micro \in Seq(Message)
  /\ lastData \in {"empty", "part", "stale"}
  /\ step \in [Sockets -> Steps]
  /\ calls \in [Requests -> {"idle", "called", "answered", "failed"}]
  /\ level \in Nat /\ mixed \in BOOLEAN /\ disorder \in BOOLEAN
  /\ used \in [Events -> Nat]

(* A request is settled by the answer to itself, written on the socket     *)
(* that answered: never by that to another one, or by one left over from   *)
(* an earlier socket.                                                      *)
AnswersMatch == ~mixed

(* The broker never reads a frame it does not expect, even when handshakes *)
(* of several sockets were cut off, as long as the application makes its   *)
(* requests while the connection is ready and restarts no healthy one.     *)
HandshakeInOrder == used["early"] + used["restart"] = 0 => ~disorder

(* The socket that is number g is no more, or cannot be understood.        *)
Gone(g) == gen # g \/ sock \in {"ended", "closed"} \/ lastData = "stale"

Pending(r, g) ==
  \E m \in ToSet(writing) \cup ToSet(waiting) : m.by = r /\ m.gen = g /\ m.key \in UserKeys

(* Every request made on a socket is settled as long as the socket lives,  *)
(* whether its answer comes before or after the callback of its write.     *)
RequestsSettle ==
  \A r \in Requests, g \in Sockets :
    Pending(r, g) /\ gen = g ~> calls[r] \in {"answered", "failed"} \/ Gone(g)

(* Every handshake completes as long as its socket lives, so that start or *)
(* restart returns, provided no handshake before was cut off while it      *)
(* waited for Tune.                                                        *)
HandshakeCompletes ==
  \A g \in Sockets :
    gen = g /\ sock = "connecting" /\ None(waiting, TuneId) ~> (ready /\ step[g] = "done") \/ Gone(g)
=============================================================================
