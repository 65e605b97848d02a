--------------------------- MODULE ConnectionPool ---------------------------
(***************************************************************************)
(* The connections of one key of the ConnectionPool (one stream, one node, *)
(* publishers or consumers) and the publishers or consumers that share     *)
(* them: connection_pool.ts, the reference counts and id counters of       *)
(* connection.ts, and declarePublisher, declareConsumer, close of          *)
(* client.ts, publisher.ts and consumer.ts.                                *)
(*                                                                         *)
(* A step is the code between two awaits.  The metadata query with which a *)
(* declaration starts changes nothing and is part of Lookup.  Between      *)
(* Lookup, which reads a reference count, and Begin, which uses what it    *)
(* chose, lie awaits of promises that are already settled: no event of a   *)
(* socket comes in between, but the continuations of other calls do.       *)
(***************************************************************************)
EXTENDS Naturals, Integers, Sequences, FiniteSets, SequencesExt

CONSTANTS
  Users,           \* the publishers, or the consumers, of the stream
  Purposes,        \* of "publisher" and "consumer": what the users may be
  MaxShared,       \* getMaxSharedConnectionInstances()
  IdSpace,         \* ids a frame can hold: 256, they are written as a UInt8
  Serials,         \* of TRUE and FALSE: whether the application awaits each call
  Resolvers,       \* of TRUE and FALSE: whether params.addressResolver is enabled
  Limit            \* bounds: how often each event of Events may happen

Events == {"drop", "refuse", "again"}

ASSUME PoolAssumption ==
  /\ IsFiniteSet(Users)
  /\ Purposes \subseteq {"publisher", "consumer"}
  /\ MaxShared \in Nat \ {0} /\ IdSpace \in Nat \ {0}
  /\ Serials \subseteq BOOLEAN /\ Resolvers \subseteq BOOLEAN
  /\ Limit \in [Events -> Nat]

(* A declaration creates at most one connection.                           *)
Connections == 1 .. Cardinality(Users)

VARIABLES
  purpose,  \* what the users of this key are
  serial,   \* the application awaits each call before the next one
  resolver, \* the client is behind an address resolver
  cache,    \* connectionsMap.get(key)
  conn,     \* conn[c]: the state of connection c
  refs,     \* refs[c]: Connection.refs
  nextId,   \* nextId[c]: Connection.publisherId, or consumerId
  closer,   \* closer[c]: the user whose Close request is answered, if any
  at,       \* at[u]: the connection of u, 0 before it has one
  id,       \* id[u]: the id of u on its connection
  state,    \* state[u]: where the calls on behalf of u are
  used      \* used[e]: how often event e happened

pool == <<cache, conn, refs, nextId, closer>>
vars == <<purpose, serial, resolver, pool, at, id, state, used>>

ConnStates == {"none", "connecting", "up", "closing", "half", "down"}
Awaiting == {"connecting", "chosen", "declaring", "ignored", "querying", "refused", "flushing", "closing"}
UserStates == Awaiting \cup {"idle", "using", "closed", "failed"}

ready(c) == conn[c] \in {"up", "closing", "half"}   \* setupCompleted
Spend(e) == used[e] < Limit[e] /\ used' = [used EXCEPT ![e] = @ + 1]
MayStart == serial => \A u \in Users : state[u] \notin Awaiting

Init ==
  /\ purpose \in Purposes /\ serial \in Serials /\ resolver \in Resolvers
  /\ cache = <<>>
  /\ conn = [c \in Connections |-> "none"]
  /\ refs = [c \in Connections |-> 0]
  /\ nextId = [c \in Connections |-> 0]
  /\ closer = [c \in Connections |-> {}]
  /\ at = [u \in Users |-> 0]
  /\ id = [u \in Users |-> 0]
  /\ state = [u \in Users |-> "idle"]
  /\ used = [e \in Events |-> 0]

-----------------------------------------------------------------------------
(* Declaring.                                                              *)

(* The continuations of one event run before the next event, so that only  *)
(* what the locator's answers and the application set off comes between a  *)
(* lookup and its Begin.  (After Connected no lookup does; the model is    *)
(* more general there.)                                                    *)
Drained == \A u \in Users : state[u] # "chosen"

(* A mutant of Cached: a full connection takes one more.                   *)
CachedMutant == cache # <<>> /\ refs[Last(cache)] <= MaxShared

(* getConnection: only the last connection of the key is looked at.        *)
Cached == cache # <<>> /\ refs[Last(cache)] < MaxShared

Lookup(u) ==
  /\ MayStart /\ state[u] = "idle"
  /\ \/ /\ Cached
        /\ at' = [at EXCEPT ![u] = Last(cache)]
        /\ state' = [state EXCEPT ![u] = "chosen"]
        /\ UNCHANGED conn
     \/ /\ ~Cached
        /\ \E c \in Connections :
             /\ conn[c] = "none" /\ \A d \in 1 .. c - 1 : conn[d] # "none"
             /\ conn' = [conn EXCEPT ![c] = "connecting"]
             /\ at' = [at EXCEPT ![u] = c]
        /\ state' = [state EXCEPT ![u] = "connecting"]
  /\ UNCHANGED <<cache, refs, nextId, closer, id, used>>

(* connectionCreator resolves: the connection is cached and handed out.    *)
Connected(u) ==
  /\ Drained /\ state[u] = "connecting"
  /\ conn' = [conn EXCEPT ![at[u]] = "up"]
  /\ cache' = Append(cache, at[u])
  /\ state' = [state EXCEPT ![u] = "chosen"]
  /\ UNCHANGED <<refs, nextId, closer, at, id, used>>

(* The user gets the next id of its connection, and its request is         *)
(* written, which throws for an id beyond a byte or a socket that has      *)
(* ended; behind a Close the broker does not read it any more.  Only a     *)
(* consumer is counted now, by its constructor.                            *)
Begin(u) ==
  /\ state[u] = "chosen"
  /\ LET c == at[u] IN
       /\ id' = [id EXCEPT ![u] = nextId[c]]
       /\ nextId' = [nextId EXCEPT ![c] = @ + 1]
       /\ refs' = IF purpose = "consumer" THEN [refs EXCEPT ![c] = @ + 1] ELSE refs
       /\ \/ /\ nextId[c] < IdSpace /\ conn[c] = "up"
             /\ state' = [state EXCEPT ![u] = "declaring"]
          \/ /\ nextId[c] < IdSpace /\ conn[c] = "closing"
             /\ state' = [state EXCEPT ![u] = "ignored"]
          \/ /\ nextId[c] >= IdSpace \/ conn[c] \notin {"up", "closing"}
             /\ state' = [state EXCEPT ![u] = "failed"]
  /\ UNCHANGED <<cache, conn, closer, at, used>>

(* The constructor of StreamPublisher counts the publisher.                *)
Counted(u) == refs' = IF purpose = "publisher" THEN [refs EXCEPT ![at[u]] = @ + 1] ELSE refs

(* The broker accepts; a publisher with a reference asks for its last      *)
(* publishing id on the locator before it is constructed.                  *)
Declared(u) ==
  /\ Drained /\ state[u] = "declaring" /\ conn[at[u]] \in {"up", "closing"}
  /\ \/ /\ purpose = "publisher"
        /\ state' = [state EXCEPT ![u] = "querying"]
        /\ UNCHANGED refs
     \/ /\ state' = [state EXCEPT ![u] = "using"]
        /\ Counted(u)
  /\ UNCHANGED <<cache, conn, nextId, closer, at, id, used>>

(* A mutant of Queried: a publisher with a reference is not counted.       *)
QueriedMutant(u) ==
  /\ state[u] = "querying"
  /\ state' = [state EXCEPT ![u] = "using"]
  /\ UNCHANGED <<pool, at, id, used>>

Queried(u) ==
  /\ state[u] = "querying"
  /\ state' = [state EXCEPT ![u] = "using"]
  /\ Counted(u)
  /\ UNCHANGED <<cache, conn, nextId, closer, at, id, used>>

(* The broker refuses: declarePublisher closes the connection, whoever     *)
(* else is on it; declareConsumer only throws, the consumer stays counted. *)
Refused(u) ==
  /\ Spend("refuse")
  /\ Drained /\ state[u] = "declaring" /\ conn[at[u]] \in {"up", "closing"}
  /\ \/ /\ purpose = "publisher"
        /\ state' = [state EXCEPT ![u] = "refused"]
        /\ conn' = [conn EXCEPT ![at[u]] = "closing"]
        /\ closer' = [closer EXCEPT ![at[u]] = IF conn[at[u]] = "up" THEN {u} ELSE @]
     \/ /\ purpose = "consumer"
        /\ state' = [state EXCEPT ![u] = "failed"]
        /\ UNCHANGED <<conn, closer>>
  /\ UNCHANGED <<cache, refs, nextId, at, id>>

-----------------------------------------------------------------------------
(* Closing.                                                                *)

(* A mutant of removeCachedConnection: the connection stays cached.        *)
removeCachedConnectionMutant(c) == UNCHANGED cache

(* removeCachedConnection builds the key from the connection's hostname:   *)
(* the resolver's, while the connection is cached under the node's, and    *)
(* once only.                                                              *)
removeCachedConnection(c) ==
  \/ /\ resolver \/ c \notin ToSet(cache)
     /\ UNCHANGED cache
  \/ /\ ~resolver
     /\ \E i \in DOMAIN cache : cache[i] = c /\ cache' = RemoveAt(cache, i)

(* A mutant of LastRelease: the connection goes with a user still on it.   *)
LastReleaseMutant(c) == refs[c] - 1 <= 1 /\ ready(c)

LastRelease(c) == refs[c] - 1 <= 0 /\ ready(c)

(* A mutant of releaseConnection: the id is given back as well.            *)
releaseConnectionMutant(u, c) ==
  /\ refs' = [refs EXCEPT ![c] = @ - 1]
  /\ \/ /\ LastRelease(c) /\ conn[c] = "up"
        /\ conn' = [conn EXCEPT ![c] = "closing"]
        /\ closer' = [closer EXCEPT ![c] = {u}]
        /\ UNCHANGED cache
     \/ /\ LastRelease(c) /\ conn[c] = "half"
        /\ removeCachedConnection(c)
        /\ UNCHANGED <<conn, closer>>
     \/ /\ LastRelease(c) => conn[c] = "closing"
        /\ UNCHANGED <<cache, conn, closer>>
  /\ nextId' = [nextId EXCEPT ![c] = @ - 1]
  /\ UNCHANGED <<at, id>>

(* releaseConnection: the last release sends Close and waits.  A second    *)
(* Close on the same socket is not answered; on a socket that has ended    *)
(* the write fails, which is only logged.                                  *)
releaseConnection(u, c) ==
  /\ refs' = [refs EXCEPT ![c] = @ - 1]
  /\ \/ /\ LastRelease(c) /\ conn[c] = "up"
        /\ conn' = [conn EXCEPT ![c] = "closing"]
        /\ closer' = [closer EXCEPT ![c] = {u}]
        /\ UNCHANGED cache
     \/ /\ LastRelease(c) /\ conn[c] = "half"
        /\ removeCachedConnection(c)
        /\ UNCHANGED <<conn, closer>>
     \/ /\ LastRelease(c) => conn[c] = "closing"
        /\ UNCHANGED <<cache, conn, closer>>
  /\ UNCHANGED <<nextId, at, id>>

(* close of u releases its connection; it returns at once or waits for the *)
(* answer to Close.                                                        *)
closeUser(u) ==
  /\ releaseConnection(u, at[u])
  /\ state' = [state EXCEPT ![u] = IF LastRelease(at[u]) /\ conn[at[u]] # "half"
                                   THEN "closing" ELSE "closed"]

(* A publisher may have a chunk to flush first.                            *)
Close(u) ==
  /\ MayStart /\ state[u] = "using"
  /\ \/ closeUser(u)
     \/ /\ purpose = "publisher"
        /\ state' = [state EXCEPT ![u] = "flushing"]
        /\ UNCHANGED <<pool, at, id>>
  /\ UNCHANGED used

(* A mutant of Flushed: the connection is not released.                    *)
FlushedMutant(u) ==
  /\ state[u] = "flushing"
  /\ state' = [state EXCEPT ![u] = "closed"]
  /\ UNCHANGED <<pool, at, id, used>>

Flushed(u) ==
  /\ state[u] = "flushing"
  /\ closeUser(u)
  /\ UNCHANGED used

(* A second close: of a publisher only while the first one is under way,   *)
(* as _closed is set last; a consumer's close does not look at closed.     *)
CloseAgain(u) ==
  /\ Spend("again")
  /\ \/ purpose = "publisher" /\ state[u] \in {"flushing", "closing"}
     \/ purpose = "consumer" /\ state[u] \in {"closing", "closed"}
  /\ releaseConnection(u, at[u])
  /\ UNCHANGED state

(* The broker answers the first Close, after the declarations before it;   *)
(* the socket is ended.                                                    *)
CloseAnswered(c) ==
  /\ Drained /\ conn[c] = "closing"
  /\ \A u \in Users : at[u] = c => state[u] # "declaring"
  /\ conn' = [conn EXCEPT ![c] = "half"]
  /\ \E u \in closer[c] :
       \/ /\ state[u] = "refused"
          /\ state' = [state EXCEPT ![u] = "failed"]
          /\ UNCHANGED cache
       \/ /\ state[u] # "refused"
          /\ state' = [state EXCEPT ![u] = IF @ = "closing" THEN "closed" ELSE @]
          /\ removeCachedConnection(c)
  /\ UNCHANGED <<refs, nextId, closer, at, id, used>>

-----------------------------------------------------------------------------
(* The network: nobody is told, answers that are waited for never come.    *)
Drop(c) ==
  /\ Spend("drop")
  /\ Drained /\ conn[c] \in {"up", "closing"}
  /\ conn' = [conn EXCEPT ![c] = "half"]
  /\ UNCHANGED <<cache, refs, nextId, closer, at, id, state>>

(* The 'close' event resets setupCompleted.                                *)
SocketCloses(c) ==
  /\ Drained /\ conn[c] = "half"
  /\ conn' = [conn EXCEPT ![c] = "down"]
  /\ UNCHANGED <<cache, refs, nextId, closer, at, id, state, used>>

Next ==
  /\ \/ \E u \in Users :
          \/ Lookup(u) \/ Connected(u) \/ Begin(u) \/ Declared(u) \/ Queried(u) \/ Refused(u)
          \/ Close(u) \/ Flushed(u) \/ CloseAgain(u)
     \/ \E c \in Connections : CloseAnswered(c) \/ Drop(c) \/ SocketCloses(c)
  /\ UNCHANGED <<purpose, serial, resolver>>

Spec == Init /\ [][Next]_vars
-----------------------------------------------------------------------------
(* Properties.                                                             *)

TypeOK ==
  /\ purpose \in Purposes /\ serial \in Serials /\ resolver \in Resolvers
  /\ cache \in Seq(Connections)
  /\ conn \in [Connections -> ConnStates]
  /\ refs \in [Connections -> Int]
  /\ nextId \in [Connections -> Nat]
  /\ closer \in [Connections -> SUBSET Users]
  /\ at \in [Users -> Connections \cup {0}]
  /\ id \in [Users -> Nat]
  /\ state \in [Users -> UserStates]
  /\ used \in [Events -> Nat]

(* A user that got as far as an id on its connection.                      *)
Placed(u) == at[u] # 0 /\ state[u] \notin {"connecting", "chosen"}

(* Users of one connection have different ids, whoever was closed before:  *)
(* an answer or a delivery for an id belongs to one user only.             *)
UniqueIds ==
  \A u, v \in Users : u # v /\ Placed(u) /\ Placed(v) /\ at[u] = at[v] => id[u] # id[v]

(* The users a connection counts: those constructed and not released.      *)
IsCounted(u) ==
  IF purpose = "publisher" THEN state[u] \in {"using", "flushing"}
                           ELSE state[u] \in {"declaring", "ignored", "using", "failed"}
UsersOf(c) == {u \in Users : at[u] = c /\ IsCounted(u)}

(* As long as nobody is closed twice, a connection's reference count is    *)
(* the number of its users, and so never negative.                         *)
RefsExact ==
  used["again"] = 0 => \A c \in Connections : refs[c] = Cardinality(UsersOf(c))

(* Calls made one after the other never overbook a connection, until a     *)
(* second close of one user makes room that is not there.  (Declared at    *)
(* once, all see the count from before any of them is counted: a consumer  *)
(* is counted two awaits after its lookup, a publisher after its answers.) *)
SharedWithinLimit ==
  serial /\ used["again"] = 0 =>
    \A c \in Connections : Cardinality({u \in Users : at[u] = c /\ state[u] = "using"}) <= MaxShared

(* Calls are made one after the other, neither the network nor the broker  *)
(* fails and nobody is closed twice.                                       *)
Calm == serial /\ \A e \in Events : used[e] = 0

(* Then closing users never ends the connection under one that is in use.  *)
(* (A close while another user is being declared does: a publisher is      *)
(* counted when it is constructed, after the answer to its declaration.)   *)
InTurnStaysOpen == Calm => \A u \in Users : state[u] = "using" => conn[at[u]] = "up"

(* Then every declaration succeeds, on a connection that is not ending, as *)
(* long as the connection has ids left.  Behind an address resolver a      *)
(* connection that has ended is handed out again.                          *)
DeclaresSucceed ==
  Calm /\ ~resolver => \A u \in Users : state[u] \in {"ignored", "failed"} => id[u] >= IdSpace

(* Then a connection whose users have all been closed is ending or ended:  *)
(* none is left open with nobody to close it.                              *)
Abandoned(c) == conn[c] # "none" /\ \A u \in Users : at[u] = c => state[u] = "closed"
AbandonedEnds ==
  Calm => \A c \in Connections : Abandoned(c) => conn[c] \in {"closing", "half", "down"}
=============================================================================
