-------------------------------- MODULE Client --------------------------------
(***************************************************************************)
(* The life of a Client's publishers and consumers over their connections  *)
(* (restart, close, closeConsumer, deletePublisher of client.ts; close of  *)
(* publisher.ts and consumer.ts; releaseConnection of connection_pool.ts;  *)
(* the metadata_update listener and close of connection.ts), with sockets  *)
(* that end and a broker that knows who is declared on which connection.   *)
(*                                                                         *)
(* A call of the application runs from one await of I/O to the next: what  *)
(* wakes it (an answer, an error, a new socket) is one action, its way to  *)
(* the next await another, and nothing else happens in between.            *)
(***************************************************************************)
EXTENDS Naturals, Integers, Sequences, FiniteSets

CONSTANTS
  Consumers, Publishers,  \* numbers, in the order of their declaration
  Layouts,                \* where they may be: connections from 1 on
  Plans                   \* what the application and the network may do, see Plan

Users == Consumers \cup Publishers
Locator == 0
Ops == {"restart", "close", "closeConsumer", "deletePublisher", "closeUser"}
Events == {"drop", "unreachable", "update"}

(* Which calls are made, and how many, and how often each event happens.   *)
Plan == [ops : SUBSET Ops, calls : Nat, limit : [Events -> Nat]]

ASSUME ClientAssumption ==
  /\ Users \subseteq Nat /\ IsFiniteSet(Users) /\ Consumers \cap Publishers = {}
  /\ Layouts \subseteq [Users -> Nat \ {Locator}] /\ Plans \subseteq Plan

VARIABLES
  plan, home,   \* chosen at the start: home[u] is the connection of u
  sock,         \* the socket of a connection
  ready,        \* setupCompleted
  queue,        \* requests on a connection the broker has not answered
  known,        \* broker: who is declared on a connection
  refs,         \* reference counts
  registered,   \* the keys of Client.consumers and Client.publishers
  closed,       \* users whose closed flag is set
  listening,    \* users registered for the metadata updates of their stream
  exists,       \* broker: the stream of a connection exists
  calls,        \* the calls, in the order they were made
  used          \* used[e]: how often event e happened

users == <<refs, registered, closed, listening>>
vars == <<plan, home, sock, ready, queue, known, users, exists, calls, used>>

Conns == {Locator} \cup {home[u] : u \in Users}
UsersOf(c) == {u \in Users : home[u] = c}

Init ==
  /\ plan \in Plans /\ home \in Layouts
  /\ sock = [c \in Conns |-> "open"] /\ ready = [c \in Conns |-> TRUE]
  /\ queue = [c \in Conns |-> <<>>]
  /\ known = [c \in Conns |-> UsersOf(c)]
  /\ refs = [c \in Conns |-> Cardinality(UsersOf(c))]
  /\ registered = Users /\ closed = {} /\ listening = Users
  /\ exists = [c \in Conns |-> TRUE]
  /\ calls = <<>> /\ used = [e \in Events |-> 0]

-----------------------------------------------------------------------------
(* Calls: at is the await a call is at, and wake what it has been given.   *)

Over(call) == call.at \in {"done", "failed", "hung"}
Quiet == \A k \in DOMAIN calls : calls[k].wake = "no"
Woken(k, op, at) ==
  /\ calls[k].op \in op /\ calls[k].at = at /\ calls[k].wake # "no"
  /\ \A j \in 1 .. k - 1 : calls[j].wake = "no"

(* Histories, for the properties: beside, what else was called while this  *)
(* one ran; upset, whether a socket or a stream failed since it began.     *)
NewCall(op, u) ==
  [op |-> op, user |-> u, at |-> "begins", wake |-> "ok", conn |-> Locator,
   seen |-> {Locator}, todo |-> {}, upset |-> FALSE,
   beside |-> {calls[k].op : k \in {j \in DOMAIN calls : ~Over(calls[j])}}]
Beside(op) ==
  [k \in DOMAIN calls |->
     [calls[k] EXCEPT !.beside = IF Over(calls[k]) THEN @ ELSE @ \cup {op}]]
Upset(cs) == [k \in DOMAIN cs |-> [cs[k] EXCEPT !.upset = TRUE]]

Start(op, u) ==
  /\ Quiet /\ op \in plan.ops /\ Len(calls) < plan.calls
  /\ calls' = Append(Beside(op), NewCall(op, u))
  /\ UNCHANGED <<plan, home, sock, ready, queue, known, users, exists, used>>

End(k, at) == calls' = [calls EXCEPT ![k].at = at, ![k].wake = "no"]

(* Who waits for connection c, in a handshake or for an answer: it will    *)
(* not settle when the socket ends or is replaced.                         *)
WaitsFor(k, c, q) ==
  \/ calls[k].at = "connecting" /\ calls[k].conn = c
  \/ \E i \in DOMAIN q : q[i].by = k
Abandon(cs, c, q) ==
  [k \in DOMAIN cs |-> IF WaitsFor(k, c, q) THEN [cs[k] EXCEPT !.at = "hung"] ELSE cs[k]]

(* Call k, now in the form call, sends n[c] requests on each connection c. *)
(* A write to a socket that has ended fails.  On one that is connecting it *)
(* comes in the middle of the handshake, and the broker ends it.           *)
Request(k, call, req, n) ==
  LET asked == {c \in Conns : n[c] > 0}
      early == {c \in asked : sock[c] = "opening"}
      sent == {c \in asked : sock[c] = "open"}
  IN
  /\ queue' = [c \in Conns |->
       IF c \in sent THEN queue[c] \o [i \in 1 .. n[c] |-> [req |-> req, by |-> k]] ELSE queue[c]]
  /\ sock' = [c \in Conns |-> IF c \in early THEN "half" ELSE sock[c]]
  /\ calls' = [j \in DOMAIN calls |->
       IF j = k THEN [call EXCEPT
         !.at = IF early # {} THEN "hung" ELSE @,
         !.wake = IF early \cup sent # {} THEN "no"
                  ELSE IF asked = {} \/ req = "close" THEN "ok" ELSE "error"]
       ELSE IF calls[j].at = "connecting" /\ calls[j].conn \in early
            THEN [calls[j] EXCEPT !.at = "hung"] ELSE calls[j]]

Only(c) == [d \in Conns |-> IF d = c THEN 1 ELSE 0]
At(k, at) == [calls[k] EXCEPT !.at = at]

-----------------------------------------------------------------------------
(* Closing users: each gives its connection back, and the one that finds   *)
(* the count at 0 or below asks for its end; releaseConnection catches the *)
(* error of that request.                                                  *)

Turn(u, us) == Cardinality({v \in us : home[v] = home[u] /\ v <= u})
(* Mutants of EndsConnection: the last user but one is enough, and none is.*)
EndsConnectionEarly(u, us) == ready[home[u]] /\ refs[home[u]] - Turn(u, us) <= 1
EndsConnectionLate(u, us) == ready[home[u]] /\ refs[home[u]] - Turn(u, us) < 0

EndsConnection(u, us) == ready[home[u]] /\ refs[home[u]] - Turn(u, us) <= 0

(* A consumer's flag is set first, a publisher's when its close is over.   *)
Release(k, call, us) ==
  /\ refs' = [c \in Conns |-> refs[c] - Cardinality(us \cap UsersOf(c))]
  /\ closed' = closed \cup {u \in us : u \in Consumers \/ ~EndsConnection(u, us)}
  /\ Request(k, call, "close",
       [c \in Conns |-> Cardinality({u \in us \cap UsersOf(c) : EndsConnection(u, us)})])
  /\ UNCHANGED <<plan, home, ready, known, registered, listening, exists, used>>

(* A loop of restart over a map does not visit an entry deleted meanwhile. *)
Forget(u, cs) == [k \in DOMAIN cs |-> [cs[k] EXCEPT !.todo = @ \ {u}]]

(* A mutant of Forgets: the entry stays in the map.                        *)
ForgetsMutant(op) == FALSE

(* After its close, a user closed through the client leaves the map; one   *)
(* closed by the application stays there.                                  *)
Forgets(op) == op # "closeUser"

Released(k) ==
  /\ Woken(k, Ops \cup {"automaticClose"}, "releasing")
  /\ LET u == calls[k].user
         over == [calls EXCEPT ![k].at = "done", ![k].wake = "no"]
     IN /\ closed' = closed \cup {u}
        /\ \/ /\ Forgets(calls[k].op)
              /\ registered' = registered \ {u} /\ calls' = Forget(u, over)
           \/ /\ ~Forgets(calls[k].op)
              /\ calls' = over /\ UNCHANGED registered
  /\ UNCHANGED <<plan, home, sock, ready, queue, known, refs, listening, exists, used>>

(* The close of a publisher or consumer by the application, and that of a  *)
(* publisher whose stream has changed.  A publisher is closed once.        *)
CloseUser(k) ==
  /\ Woken(k, {"closeUser", "automaticClose"}, "begins")
  /\ LET u == calls[k].user IN
       Release(k, At(k, "releasing"), IF u \in Publishers \cap closed THEN {} ELSE {u})

closeConsumer(k) ==
  /\ Woken(k, {"closeConsumer"}, "begins")
  /\ \/ /\ calls[k].user \in registered
        /\ Request(k, At(k, "metadata"), "metadata", Only(Locator))
     \/ /\ calls[k].user \notin registered
        /\ End(k, "failed")
        /\ UNCHANGED <<sock, queue>>
  /\ UNCHANGED <<plan, home, ready, known, users, exists, used>>

Unsubscribe(k) ==
  /\ Woken(k, {"closeConsumer"}, "metadata") /\ calls[k].wake = "ok"
  /\ Request(k, At(k, "unsubscribing"), "unsubscribe", Only(home[calls[k].user]))
  /\ UNCHANGED <<plan, home, ready, known, users, exists, used>>

(* The stream is gone, or the subscription: the consumer is closed.        *)
closing(k) ==
  /\ \/ Woken(k, {"closeConsumer"}, "metadata") /\ calls[k].wake = "refused"
     \/ Woken(k, {"closeConsumer"}, "unsubscribing") /\ calls[k].wake = "ok"
  /\ Release(k, At(k, "releasing"), {calls[k].user})

(* A publisher the client does not know is asked for on the locator.       *)
deletePublisher(k) ==
  /\ Woken(k, {"deletePublisher"}, "begins")
  /\ LET u == calls[k].user IN
       Request(k, At(k, "deleting"), "delete", Only(IF u \in registered THEN home[u] ELSE Locator))
  /\ UNCHANGED <<plan, home, ready, known, users, exists, used>>

Deleted(k) ==
  /\ Woken(k, {"deletePublisher"}, "deleting") /\ calls[k].wake = "ok"
  /\ Release(k, At(k, "releasing"), {calls[k].user} \ closed)

(* A refused or failed request: the call throws.                           *)
Throws(k) ==
  /\ \/ Woken(k, Ops, "unsubscribing") \/ Woken(k, Ops, "deleting")
     \/ Woken(k, Ops, "metadata") /\ calls[k].wake = "error"
  /\ calls[k].wake # "ok"
  /\ End(k, "failed")
  /\ UNCHANGED <<plan, home, sock, ready, queue, known, users, exists, used>>

-----------------------------------------------------------------------------
(* Client.close: all publishers at once, then all consumers, then the      *)
(* locator connection.  The maps are replaced by empty ones.               *)

closeAllPublishers(k) ==
  /\ Woken(k, {"close"}, "begins")
  /\ Release(k, At(k, "publishers"), (registered \cap Publishers) \ closed)

closeAllConsumers(k) ==
  /\ Woken(k, {"close"}, "publishers")
  /\ LET us == registered \cap Consumers IN
     /\ refs' = [c \in Conns |-> refs[c] - Cardinality(us \cap UsersOf(c))]
     /\ Request(k, At(k, "consumers"), "close",
          [c \in Conns |-> Cardinality({u \in us \cap UsersOf(c) : EndsConnection(u, us)})])
     /\ closed' = closed \cup us \cup (registered \cap Publishers)
  /\ registered' = registered \ Publishers
  /\ UNCHANGED <<plan, home, ready, known, listening, exists, used>>

CloseLocator(k) ==
  /\ Woken(k, {"close"}, "consumers")
  /\ registered' = registered \ Consumers
  /\ Request(k, At(k, "locator"), "end", Only(Locator))
  /\ UNCHANGED <<plan, home, ready, known, refs, closed, listening, exists, used>>

Closed(k) ==
  /\ Woken(k, {"close"}, "locator")
  /\ End(k, IF calls[k].wake = "ok" THEN "done" ELSE "failed")
  /\ UNCHANGED <<plan, home, sock, ready, queue, known, users, exists, used>>

-----------------------------------------------------------------------------
(* Client.restart.                                                         *)

(* Connection.restart: a new socket.  The old one, if it lives, is left to *)
(* itself: ready stays, and what waits for it never settles.               *)
Reconnect(k, call, c) ==
  /\ sock' = [sock EXCEPT ![c] = "opening"]
  /\ queue' = [queue EXCEPT ![c] = <<>>]
  /\ known' = [known EXCEPT ![c] = {}]
  /\ calls' = [Abandon(calls, c, queue[c]) EXCEPT
       ![k] = [call EXCEPT !.at = "connecting", !.conn = c, !.seen = @ \cup {c}, !.wake = "no"]]

(* The five seconds restart waits begin and are over.                      *)
restart(k) ==
  /\ Woken(k, {"restart"}, "begins")
  /\ End(k, "waiting")
  /\ UNCHANGED <<plan, home, sock, ready, queue, known, users, exists, used>>

RestartLocator(k) ==
  /\ Quiet /\ calls[k].op = "restart" /\ calls[k].at = "waiting"
  /\ Reconnect(k, calls[k], Locator)
  /\ UNCHANGED <<plan, home, ready, users, exists, used>>

declareOnConnection(k, call) ==
  Request(k, [call EXCEPT !.at = "declaring"], "declare", Only(home[call.user]))

(* The locator is there: the consumers are next.                           *)
LocatorRestarted(k) ==
  /\ Woken(k, {"restart"}, "connecting") /\ calls[k].conn = Locator /\ calls[k].wake = "ok"
  /\ calls' = [calls EXCEPT ![k].at = "consumers", ![k].todo = registered \cap Consumers]
  /\ UNCHANGED <<plan, home, sock, ready, queue, known, users, exists, used>>

(* A mutant of Seen: no connection is remembered but the locator's.        *)
SeenMutant(k, c) == c = Locator

(* uniqueConnectionIds: the connections this restart has restarted.        *)
Seen(k, c) == c \in calls[k].seen

(* The next user is declared, on its connection or on a new socket of it.  *)
NextUser(k) ==
  /\ \E at \in {"consumers", "publishers"} : Woken(k, {"restart"}, at)
  /\ \E u \in calls[k].todo :
       /\ \A v \in calls[k].todo : u <= v
       /\ LET call == [calls[k] EXCEPT !.user = u, !.todo = @ \ {u}] IN
            \/ /\ Seen(k, home[u])
               /\ declareOnConnection(k, call)
               /\ UNCHANGED known
            \/ /\ ~Seen(k, home[u])
               /\ Reconnect(k, call, home[u])
  /\ UNCHANGED <<plan, home, ready, users, exists, used>>

ConnectionRestarted(k) ==
  /\ Woken(k, {"restart"}, "connecting") /\ calls[k].conn # Locator /\ calls[k].wake = "ok"
  /\ declareOnConnection(k, calls[k])
  /\ UNCHANGED <<plan, home, ready, known, users, exists, used>>

Redeclared(k) ==
  /\ Woken(k, {"restart"}, "declaring") /\ calls[k].wake = "ok"
  /\ calls' = [calls EXCEPT ![k].at =
       IF calls[k].user \in Consumers THEN "consumers" ELSE "publishers"]
  /\ UNCHANGED <<plan, home, sock, ready, queue, known, users, exists, used>>

(* After the last consumer come the publishers, and restart returns.       *)
LoopEnds(k) ==
  /\ \/ /\ Woken(k, {"restart"}, "consumers")
        /\ calls' = [calls EXCEPT ![k].at = "publishers", ![k].todo = registered \cap Publishers]
     \/ Woken(k, {"restart"}, "publishers") /\ End(k, "done")
  /\ calls[k].todo = {}
  /\ UNCHANGED <<plan, home, sock, ready, queue, known, users, exists, used>>

(* A refused consumer leaves the map, counted as it is; the connection of  *)
(* a refused publisher is closed, whoever else is on it.  restart throws.  *)
Refused(k) ==
  /\ Woken(k, {"restart"}, "declaring") /\ calls[k].wake = "refused"
  /\ LET u == calls[k].user IN
     \/ /\ u \in Consumers
        /\ registered' = registered \ {u}
        /\ calls' = Forget(u, [calls EXCEPT ![k].at = "failed", ![k].wake = "no"])
        /\ UNCHANGED <<sock, queue>>
     \/ /\ u \in Publishers
        /\ Request(k, At(k, "refusing"), "end", Only(home[u]))
        /\ UNCHANGED registered
  /\ UNCHANGED <<plan, home, ready, known, refs, closed, listening, exists, used>>

RestartThrows(k) ==
  /\ \/ Woken(k, {"restart"}, "refusing")
     \/ \E at \in {"connecting", "declaring"} : Woken(k, {"restart"}, at) /\ calls[k].wake = "error"
  /\ End(k, "failed")
  /\ UNCHANGED <<plan, home, sock, ready, queue, known, users, exists, used>>

-----------------------------------------------------------------------------
(* Sockets and the broker.                                                 *)

Wake(k, wake) == [calls EXCEPT ![k].wake = wake]

Connected(c) ==
  /\ Quiet /\ sock[c] = "opening"
  /\ sock' = [sock EXCEPT ![c] = "open"] /\ ready' = [ready EXCEPT ![c] = TRUE]
  /\ \E k \in DOMAIN calls :
       /\ calls[k].at = "connecting" /\ calls[k].conn = c
       /\ calls' = Wake(k, "ok")
  /\ UNCHANGED <<plan, home, queue, known, users, exists, used>>

Spend(e) == used[e] < plan.limit[e] /\ used' = [used EXCEPT ![e] = @ + 1]

(* The broker cannot be reached: the promise of restart is rejected.       *)
ConnectFails(c) ==
  /\ Quiet /\ Spend("unreachable") /\ sock[c] = "opening"
  /\ sock' = [sock EXCEPT ![c] = "down"] /\ ready' = [ready EXCEPT ![c] = FALSE]
  /\ \E k \in DOMAIN calls :
       /\ calls[k].at = "connecting" /\ calls[k].conn = c
       /\ calls' = Upset(Wake(k, "error"))
  /\ UNCHANGED <<plan, home, queue, known, users, exists>>

Drop(c) ==
  /\ Quiet /\ Spend("drop") /\ sock[c] \in {"open", "opening"}
  /\ sock' = [sock EXCEPT ![c] = "half"]
  /\ queue' = [queue EXCEPT ![c] = <<>>]
  /\ known' = [known EXCEPT ![c] = {}]
  /\ calls' = Upset(Abandon(calls, c, queue[c]))
  /\ UNCHANGED <<plan, home, ready, users, exists>>

(* The 'close' event of a socket that has ended.                           *)
SocketCloses(c) ==
  /\ Quiet /\ sock[c] = "half"
  /\ sock' = [sock EXCEPT ![c] = "down"] /\ ready' = [ready EXCEPT ![c] = FALSE]
  /\ UNCHANGED <<plan, home, queue, known, users, exists, calls, used>>

(* What the broker says to request req for user u on connection c.         *)
Verdict(req, u, c) ==
  LET ok == \/ req = "metadata" /\ exists[home[u]]
            \/ req \in {"unsubscribe", "delete"} /\ u \in known[c]
            \/ req = "declare" /\ exists[c] /\ u \notin known[c]
  IN IF ok THEN "ok" ELSE "refused"

BrokerAnswers(c) ==
  /\ Quiet /\ sock[c] = "open" /\ queue[c] # <<>>
  /\ LET f == Head(queue[c])
         u == calls[f.by].user
     IN
     /\ f.req \notin {"close", "end"}
     /\ known' = [known EXCEPT ![c] =
          IF f.req \in {"unsubscribe", "delete"} THEN @ \ {u}
          ELSE IF f.req = "declare" /\ exists[c] THEN @ \cup {u} ELSE @]
     /\ calls' = Wake(f.by, Verdict(f.req, u, c))
  /\ queue' = [queue EXCEPT ![c] = Tail(@)]
  /\ UNCHANGED <<plan, home, sock, ready, users, exists, used>>

(* The answer to Close, after which the client ends the socket.  Requests  *)
(* behind it are not answered.                                             *)
CloseAnswered(c) ==
  /\ Quiet /\ sock[c] = "open" /\ queue[c] # <<>>
  /\ Head(queue[c]).req \in {"close", "end"}
  /\ sock' = [sock EXCEPT ![c] = "half"]
  /\ queue' = [queue EXCEPT ![c] = <<>>]
  /\ known' = [known EXCEPT ![c] = {}]
  /\ LET k == Head(queue[c]).by
         left == Abandon(calls, c, Tail(queue[c]))
         more == \E d \in Conns \ {c} : WaitsFor(k, d, queue[d])
     IN calls' = IF more \/ left[k].at = "hung" THEN left ELSE [left EXCEPT ![k].wake = "ok"]
  /\ UNCHANGED <<plan, home, ready, users, exists, used>>

(* The stream of connection c is deleted, or has moved: the broker ends    *)
(* the subscriptions and publishers, and each user registered for it is    *)
(* closed, once.                                                           *)
MetadataUpdate(c) ==
  /\ Quiet /\ Spend("update") /\ c # Locator /\ sock[c] = "open"
  /\ \E gone \in BOOLEAN : exists' = [exists EXCEPT ![c] = @ /\ ~gone]
  /\ known' = [known EXCEPT ![c] = {}]
  /\ LET us == listening \cap UsersOf(c)
         close(u) == NewCall(IF u \in Consumers THEN "closeConsumer" ELSE "automaticClose", u)
     IN \E told \in [1 .. Cardinality(us) -> us] :
          /\ \A i, j \in DOMAIN told : i < j => told[i] < told[j]
          /\ calls' = Upset(Beside("update") \o [i \in DOMAIN told |-> close(told[i])])
  /\ listening' = listening \ UsersOf(c)
  /\ UNCHANGED <<plan, home, sock, ready, queue, refs, registered, closed>>

-----------------------------------------------------------------------------
Continue(k) ==
  \/ Released(k) \/ CloseUser(k)
  \/ closeConsumer(k) \/ Unsubscribe(k) \/ closing(k)
  \/ deletePublisher(k) \/ Deleted(k) \/ Throws(k)
  \/ closeAllPublishers(k) \/ closeAllConsumers(k) \/ CloseLocator(k) \/ Closed(k)
  \/ restart(k) \/ LocatorRestarted(k) \/ NextUser(k) \/ ConnectionRestarted(k)
  \/ Redeclared(k) \/ LoopEnds(k) \/ Refused(k) \/ RestartThrows(k)

Network(c) == Connected(c) \/ SocketCloses(c) \/ BrokerAnswers(c) \/ CloseAnswered(c)

Next ==
  \/ Start("restart", 0) \/ Start("close", 0)
  \/ \E u \in Consumers : Start("closeConsumer", u)
  \/ \E u \in Publishers : Start("deletePublisher", u)
  \/ \E u \in Users : Start("closeUser", u)
  \/ \E k \in DOMAIN calls : Continue(k) \/ RestartLocator(k)
  \/ \E c \in Conns : Network(c) \/ ConnectFails(c) \/ Drop(c) \/ MetadataUpdate(c)

Spec == Init /\ [][Next]_vars

(* What the event loop, the broker and the network do of themselves.       *)
Fairness ==
  /\ WF_vars(\E k \in DOMAIN calls : Continue(k))
  /\ WF_vars(\E k \in DOMAIN calls : RestartLocator(k))
  /\ WF_vars(\E c \in Conns : Network(c))

FairSpec == Spec /\ Fairness
-----------------------------------------------------------------------------
(* Properties.                                                             *)

Returned(k, op) == calls[k].op \in op /\ calls[k].at = "done"

Restored ==
  \A u \in registered : u \in known[home[u]] /\ sock[home[u]] = "open" /\ ready[home[u]]

(* No other call has run beside call k, or one restart only, which has not *)
(* thrown.                                                                 *)
HardlyDisturbed(k) ==
  LET others == {j \in DOMAIN calls \ {k} : calls[j].beside # {}} IN
  \/ calls[k].beside = {}
  \/ /\ calls[k].beside = {"restart"} /\ Cardinality(others) = 1
     /\ \A j \in others : calls[j].at \in {"done", "hung"}

(* When a restart returns, every user in the maps is declared at the       *)
(* broker, on a connection that is open and ready, if nothing failed since *)
(* it began and it ran alone, or beside one restart that is over and has   *)
(* not thrown.  (The second of two restarts throws when the first declares *)
(* a publisher on a connection that the second has just restarted, and     *)
(* closes that connection; of three, two may leave each other hanging.)    *)
RestartRestores ==
  [][\A k \in DOMAIN calls :
       /\ calls[k].op = "restart" /\ ~Over(calls[k]) /\ calls'[k].at = "done"
       /\ ~calls[k].upset /\ HardlyDisturbed(k)
       => Restored]_vars

(* A user closed through the client is never declared again, whatever is   *)
(* restarted later.  (A restart beside the close may be about to declare   *)
(* it.  A user the application closes itself is declared by every restart.)*)
ClosedForGood ==
  \A k \in DOMAIN calls :
    Returned(k, {"closeConsumer", "deletePublisher"}) /\ "restart" \notin calls[k].beside
    => calls[k].user \notin known[home[calls[k].user]]

(* When the first close has returned, no connection of the client is left  *)
(* open, if nothing was called beside it or later, and no restart threw    *)
(* before: a refused consumer stays counted on its connection.  Left open  *)
(* may be the connection of publishers that the application closed itself: *)
(* a restart opens it again, and who is closed is not closed again.  (In   *)
(* the same way a restart beside one close, or after one that hangs, opens *)
(* connections that no later close ends.)                                  *)
CloseEndsAll ==
  \A k \in DOMAIN calls :
    /\ Returned(k, {"close"}) /\ calls[k].beside = {} /\ k = Len(calls)
    /\ \A j \in DOMAIN calls : calls[j].at # "failed" /\ (calls[j].op = "close" => j = k)
    => \A c \in Conns :
         \/ sock[c] \in {"half", "down"}
         \/ \E j \in DOMAIN calls :
              /\ calls[j].op = "closeUser" /\ calls[j].user \in Publishers
              /\ c = home[calls[j].user]

(* Every call returns or throws, unless a socket fails meanwhile, another  *)
(* call runs beside it, or users were released more often than counted.    *)
Excused(call) == call.upset \/ call.beside # {} \/ \E c \in Conns : refs[c] < 0
CallsReturn ==
  []<>(\A k \in DOMAIN calls : calls[k].at \in {"done", "failed"} \/ Excused(calls[k]))
=============================================================================
