----------------------------- MODULE PoolProofs -----------------------------
(* Proofs about ConnectionPool, for all users, limits and id spaces.       *)
EXTENDS ConnectionPool, SequenceTheorems, FiniteSetTheorems, TLAPS

-----------------------------------------------------------------------------
(* Types.  A user past "idle" has a connection.                            *)

Located == \A u \in Users : IF state[u] = "idle" THEN at[u] = 0 ELSE at[u] \in Connections
Typed == TypeOK /\ Located

LEMMA ConnectionsAreNumbers ==
  Connections \subseteq Nat /\ 0 \notin Connections
  BY FS_CardinalityType, PoolAssumption DEF Connections

(* Removing an element from a sequence leaves elements of the sequence.    *)
LEMMA RemoveAtElements ==
  ASSUME NEW S, NEW s \in Seq(S), NEW i \in 1 .. Len(s)
  PROVE  /\ RemoveAt(s, i) \in Seq(S)
         /\ Len(RemoveAt(s, i)) = Len(s) - 1
         /\ \A k \in 1 .. Len(RemoveAt(s, i)) :
              RemoveAt(s, i)[k] = s[IF k < i THEN k ELSE k + 1]
         /\ \A k \in 1 .. Len(RemoveAt(s, i)) : \E m \in 1 .. Len(s) : RemoveAt(s, i)[k] = s[m]
<1> DEFINE front == SubSeq(s, 1, i - 1)
           rest  == SubSeq(s, i + 1, Len(s))
           t     == RemoveAt(s, i)
<1>1. Len(s) \in Nat
  BY LenProperties
<1>2. /\ front \in Seq(S) /\ Len(front) = i - 1
      /\ \A k \in 1 .. i - 1 : front[k] = s[k]
  BY <1>1, SubSeqProperties
<1>3. /\ rest \in Seq(S) /\ Len(rest) = Len(s) - i
      /\ \A k \in 1 .. Len(s) - i : rest[k] = s[i + k]
  BY <1>1, SubSeqProperties
<1>4. t = front \o rest
  BY DEF RemoveAt
<1> HIDE DEF front, rest, t
<1>5. /\ t \in Seq(S) /\ Len(t) = Len(s) - 1
      /\ \A k \in 1 .. Len(s) - 1 :
           t[k] = IF k <= i - 1 THEN front[k] ELSE rest[k - (i - 1)]
  <2>1. /\ t \in Seq(S) /\ Len(t) = Len(front) + Len(rest)
        /\ \A k \in 1 .. Len(front) + Len(rest) :
             t[k] = IF k <= Len(front) THEN front[k] ELSE rest[k - Len(front)]
    BY <1>2, <1>3, <1>4, ConcatProperties
  <2>2. Len(front) + Len(rest) = Len(s) - 1
    BY <1>1, <1>2, <1>3
  <2> QED
    BY <2>1, <2>2, <1>2
<1>6. \A k \in 1 .. Len(t) :
        LET m == IF k < i THEN k ELSE k + 1 IN m \in 1 .. Len(s) /\ t[k] = s[m]
  <2> TAKE k \in 1 .. Len(t)
  <2>0. k \in 1 .. Len(s) - 1 /\ k \in Nat /\ i \in Nat
    BY <1>1, <1>5
  <2>1. CASE k < i
    <3>1. k \in 1 .. i - 1 /\ k \in 1 .. Len(s) /\ k <= i - 1
      BY <2>0, <2>1, <1>1
    <3>2. t[k] = front[k]
      BY <2>0, <3>1, <1>5
    <3> QED
      BY <2>1, <3>1, <3>2, <1>2
  <2>2. CASE ~(k < i)
    <3>1. k - (i - 1) \in 1 .. Len(s) - i /\ k + 1 \in 1 .. Len(s) /\ ~(k <= i - 1)
      BY <2>0, <2>2, <1>1
    <3>2. t[k] = rest[k - (i - 1)]
      BY <2>0, <3>1, <1>5
    <3>3. rest[k - (i - 1)] = s[i + (k - (i - 1))]
      BY <3>1, <1>3
    <3>4. i + (k - (i - 1)) = k + 1
      BY <1>1, <1>5
    <3> QED
      BY <2>2, <3>1, <3>2, <3>3, <3>4
  <2> QED
    BY <2>1, <2>2
<1>7. \A k \in 1 .. Len(t) : t[k] = s[IF k < i THEN k ELSE k + 1]
  BY <1>6
<1>8. \A k \in 1 .. Len(t) : \E m \in 1 .. Len(s) : t[k] = s[m]
  BY <1>6
<1> QED
  BY <1>5, <1>7, <1>8 DEF t

(* So the cache only loses connections when one is removed.                *)
LEMMA RemoveShrinks ==
  ASSUME cache \in Seq(Connections), NEW c, removeCachedConnection(c)
  PROVE  /\ cache' \in Seq(Connections)
         /\ \A k \in 1 .. Len(cache') : \E m \in 1 .. Len(cache) : cache'[k] = cache[m]
<1>1. CASE UNCHANGED cache
  BY <1>1
<1>2. ASSUME NEW i \in DOMAIN cache, cache' = RemoveAt(cache, i)
      PROVE  /\ cache' \in Seq(Connections)
             /\ \A k \in 1 .. Len(cache') : \E m \in 1 .. Len(cache) : cache'[k] = cache[m]
  <2>1. i \in 1 .. Len(cache)
    BY LenProperties
  <2>2. /\ RemoveAt(cache, i) \in Seq(Connections)
        /\ \A k \in 1 .. Len(RemoveAt(cache, i)) :
             \E m \in 1 .. Len(cache) : RemoveAt(cache, i)[k] = cache[m]
    BY <2>1, RemoveAtElements, SMTT(30)
  <2> QED
    BY <2>2, <1>2
<1> QED
  BY <1>1, <1>2 DEF removeCachedConnection

(* What the id and the request do to user u and its connection c.          *)
LEMMA BeginEffect ==
  ASSUME Typed, NEW u \in Users, NEW c \in Connections, c = at[u], Begin(u)
  PROVE  /\ id' \in [Users -> Nat] /\ nextId' \in [Connections -> Nat]
         /\ refs' \in [Connections -> Int] /\ state' \in [Users -> UserStates]
         /\ id'[u] = nextId[c] /\ nextId'[c] = nextId[c] + 1
         /\ state[u] = "chosen" /\ state'[u] \in {"declaring", "ignored", "failed"}
         /\ \A v \in Users \ {u} : id'[v] = id[v] /\ state'[v] = state[v]
         /\ \A d \in Connections \ {c} : nextId'[d] = nextId[d] /\ refs'[d] = refs[d]
         /\ refs'[c] = IF purpose = "consumer" THEN refs[c] + 1 ELSE refs[c]
         /\ UNCHANGED <<cache, conn, closer, at, used>>
         /\ Located'
<1>0. TypeOK /\ Located
  BY DEF Typed
<1>1. /\ id' = [id EXCEPT ![u] = nextId[c]]
      /\ nextId' = [nextId EXCEPT ![c] = @ + 1]
      /\ refs' = IF purpose = "consumer" THEN [refs EXCEPT ![c] = @ + 1] ELSE refs
      /\ state[u] = "chosen" /\ UNCHANGED <<cache, conn, closer, at, used>>
  BY DEF Begin
<1>2. /\ id' \in [Users -> Nat] /\ id'[u] = nextId[c]
      /\ \A v \in Users \ {u} : id'[v] = id[v]
  BY <1>0, <1>1 DEF TypeOK
<1>3. /\ nextId' \in [Connections -> Nat] /\ nextId'[c] = nextId[c] + 1
      /\ \A d \in Connections \ {c} : nextId'[d] = nextId[d]
  BY <1>0, <1>1 DEF TypeOK
<1>4. /\ refs' \in [Connections -> Int]
      /\ \A d \in Connections \ {c} : refs'[d] = refs[d]
      /\ refs'[c] = IF purpose = "consumer" THEN refs[c] + 1 ELSE refs[c]
  BY <1>0, <1>1 DEF TypeOK
<1>5. /\ state' \in [Users -> UserStates]
      /\ state'[u] \in {"declaring", "ignored", "failed"}
      /\ \A v \in Users \ {u} : state'[v] = state[v]
  <2>1. PICK s \in {"declaring", "ignored", "failed"} : state' = [state EXCEPT ![u] = s]
    BY DEF Begin
  <2> QED
    BY <1>0, <2>1 DEF TypeOK, UserStates, Awaiting
<1>6. Located'
  BY <1>0, <1>1, <1>5 DEF Located
<1> QED
  BY <1>1, <1>2, <1>3, <1>4, <1>5, <1>6

(* What counting a user does.                                              *)
LEMMA CountedEffect ==
  ASSUME TypeOK, NEW u \in Users, at[u] \in Connections, Counted(u)
  PROVE  /\ refs' \in [Connections -> Int]
         /\ \A d \in Connections \ {at[u]} : refs'[d] = refs[d]
         /\ refs'[at[u]] = IF purpose = "publisher" THEN refs[at[u]] + 1 ELSE refs[at[u]]
<1> DEFINE c == at[u]
<1>1. refs' = IF purpose = "publisher" THEN [refs EXCEPT ![c] = @ + 1] ELSE refs
  BY DEF Counted
<1>2. c \in Connections /\ refs \in [Connections -> Int]
  BY DEF TypeOK
<1> HIDE DEF c
<1>3. /\ refs' \in [Connections -> Int]
      /\ \A d \in Connections \ {c} : refs'[d] = refs[d]
      /\ refs'[c] = IF purpose = "publisher" THEN refs[c] + 1 ELSE refs[c]
  BY <1>1, <1>2
<1> QED
  BY <1>3 DEF c

(* What releaseConnection does: only the state of c can change.            *)
LEMMA ReleaseEffect ==
  ASSUME TypeOK, NEW u \in Users, NEW c \in Connections, releaseConnection(u, c)
  PROVE  /\ refs' \in [Connections -> Int] /\ refs'[c] = refs[c] - 1
         /\ \A d \in Connections \ {c} : refs'[d] = refs[d]
         /\ UNCHANGED <<nextId, at, id>>
         /\ cache' \in Seq(Connections)
         /\ \A k \in 1 .. Len(cache') : \E m \in 1 .. Len(cache) : cache'[k] = cache[m]
         /\ conn' \in [Connections -> ConnStates]
         /\ \A d \in Connections : conn'[d] = conn[d] \/ (conn[d] = "up" /\ conn'[d] = "closing")
         /\ closer' \in [Connections -> SUBSET Users]
<1>1. /\ refs' \in [Connections -> Int] /\ refs'[c] = refs[c] - 1
      /\ \A d \in Connections \ {c} : refs'[d] = refs[d]
      /\ UNCHANGED <<nextId, at, id>>
  BY DEF releaseConnection, TypeOK
<1>2. \/ UNCHANGED <<conn, closer>>
      \/ /\ conn[c] = "up" /\ conn' = [conn EXCEPT ![c] = "closing"]
         /\ closer' = [closer EXCEPT ![c] = {u}]
  BY DEF releaseConnection
<1>3. /\ conn' \in [Connections -> ConnStates]
      /\ \A d \in Connections : conn'[d] = conn[d] \/ (conn[d] = "up" /\ conn'[d] = "closing")
      /\ closer' \in [Connections -> SUBSET Users]
  <2>1. CASE UNCHANGED <<conn, closer>>
    BY <2>1 DEF TypeOK
  <2>2. CASE /\ conn[c] = "up" /\ conn' = [conn EXCEPT ![c] = "closing"]
             /\ closer' = [closer EXCEPT ![c] = {u}]
    <3>1. conn' \in [Connections -> ConnStates]
      BY <2>2 DEF TypeOK, ConnStates
    <3>2. \A d \in Connections : conn'[d] = conn[d] \/ (conn[d] = "up" /\ conn'[d] = "closing")
      BY <2>2 DEF TypeOK
    <3>3. {u} \in SUBSET Users /\ closer \in [Connections -> SUBSET Users]
      BY DEF TypeOK
    <3>4. closer' \in [Connections -> SUBSET Users]
      BY <2>2, <3>3, Zenon
    <3> QED
      BY <3>1, <3>2, <3>4
  <2> QED
    BY <1>2, <2>1, <2>2
<1>4. UNCHANGED cache \/ removeCachedConnection(c)
  BY DEF releaseConnection
<1>5. /\ cache' \in Seq(Connections)
      /\ \A k \in 1 .. Len(cache') : \E m \in 1 .. Len(cache) : cache'[k] = cache[m]
  BY <1>4, RemoveShrinks DEF TypeOK
<1> QED
  BY <1>1, <1>3, <1>5

(* A cache that is looked up holds a connection.                           *)
LEMMA CachedIsConnection ==
  ASSUME TypeOK, Cached
  PROVE  Last(cache) \in Connections /\ Last(cache) = cache[Len(cache)] /\ Len(cache) \in 1 .. Len(cache)
  BY EmptySeq, LenProperties, ElementOfSeq DEF Cached, Last, TypeOK

(* A call of u goes on to its next state.                                  *)
LEMMA StateStep ==
  ASSUME Typed, NEW u \in Users, NEW s \in UserStates \ {"idle"},
         state[u] # "idle", state' = [state EXCEPT ![u] = s], UNCHANGED at
  PROVE  /\ state' \in [Users -> UserStates] /\ at' \in [Users -> Connections \cup {0}]
         /\ Located'
  BY DEF Typed, TypeOK, Located

LEMMA InitTyped == Init => Typed
  BY PoolAssumption, EmptySeq
     DEF Init, Typed, TypeOK, Located, ConnStates, UserStates, Awaiting

LEMMA StepTyped == Typed /\ [Next]_vars => Typed'
<1> SUFFICES ASSUME Typed, [Next]_vars PROVE Typed'
  OBVIOUS
<1> USE DEF Typed
<1> USE ConnectionsAreNumbers
<1>0. CASE UNCHANGED vars
  BY <1>0 DEF vars, pool, TypeOK, Located
<1>1. ASSUME NEW u \in Users, Lookup(u), UNCHANGED <<purpose, serial, resolver>> PROVE Typed'
  <2>1. CASE Cached /\ at' = [at EXCEPT ![u] = Last(cache)] /\ state' = [state EXCEPT ![u] = "chosen"]
             /\ UNCHANGED <<conn, cache, refs, nextId, closer, id, used>>
    <3> DEFINE c == Last(cache)
    <3>1. c \in Connections
      BY <2>1, CachedIsConnection
    <3>2. at' = [at EXCEPT ![u] = c] /\ state' = [state EXCEPT ![u] = "chosen"]
      BY <2>1
    <3> HIDE DEF c
    <3> QED
      BY <1>1, <2>1, <3>1, <3>2 DEF TypeOK, Located, UserStates, Awaiting
  <2>2. ASSUME NEW c \in Connections, conn' = [conn EXCEPT ![c] = "connecting"],
               at' = [at EXCEPT ![u] = c], state' = [state EXCEPT ![u] = "connecting"],
               UNCHANGED <<cache, refs, nextId, closer, id, used>>
        PROVE  Typed'
    BY <2>2, <1>1 DEF TypeOK, Located, ConnStates, UserStates, Awaiting
  <2> QED
    BY <2>1, <2>2, <1>1 DEF Lookup
<1>2. ASSUME NEW u \in Users, Connected(u), UNCHANGED <<purpose, serial, resolver>> PROVE Typed'
  <2>1. /\ at[u] \in Connections /\ state[u] = "connecting"
        /\ state' = [state EXCEPT ![u] = "chosen"]
        /\ conn' = [conn EXCEPT ![at[u]] = "up"] /\ cache' = Append(cache, at[u])
        /\ UNCHANGED <<refs, nextId, closer, at, id, used>>
    BY <1>2 DEF Connected, Located
  <2>2. cache' \in Seq(Connections)
    BY <2>1, AppendProperties DEF TypeOK
  <2>3. state' \in [Users -> UserStates] /\ Located'
    BY <2>1, StateStep DEF UserStates, Awaiting
  <2>4. conn' \in [Connections -> ConnStates]
    BY <2>1 DEF TypeOK, ConnStates
  <2> QED
    BY <1>2, <2>1, <2>2, <2>3, <2>4 DEF TypeOK
<1>12. ASSUME NEW u \in Users, Begin(u), UNCHANGED <<purpose, serial, resolver>> PROVE Typed'
  <2>1. at[u] \in Connections
    BY <1>12 DEF Begin, Located
  <2> QED
    BY <1>12, <2>1, BeginEffect DEF TypeOK
<1>3. ASSUME NEW u \in Users, Declared(u), UNCHANGED <<purpose, serial, resolver>> PROVE Typed'
  <2>1. /\ state[u] = "declaring"
        /\ \E s \in {"querying", "using"} : state' = [state EXCEPT ![u] = s]
        /\ UNCHANGED <<cache, conn, nextId, closer, at, id, used>>
    BY <1>3 DEF Declared
  <2>2. refs' \in [Connections -> Int]
    <3>1. CASE UNCHANGED refs
      BY <3>1 DEF TypeOK
    <3>2. CASE Counted(u)
      BY <3>2, <2>1, CountedEffect DEF Located
    <3> QED
      BY <1>3, <3>1, <3>2 DEF Declared
  <2>3. state' \in [Users -> UserStates] /\ Located'
    BY <2>1, StateStep DEF UserStates, Awaiting
  <2> QED
    BY <1>3, <2>1, <2>2, <2>3 DEF TypeOK
<1>4. ASSUME NEW u \in Users, Queried(u), UNCHANGED <<purpose, serial, resolver>> PROVE Typed'
  <2>1. /\ state[u] = "querying" /\ state' = [state EXCEPT ![u] = "using"]
        /\ UNCHANGED <<cache, conn, nextId, closer, at, id, used>>
    BY <1>4 DEF Queried
  <2>2. refs' \in [Connections -> Int]
    BY <1>4, CountedEffect DEF Queried, Located
  <2>3. state' \in [Users -> UserStates] /\ Located'
    BY <2>1, StateStep DEF UserStates, Awaiting
  <2> QED
    BY <1>4, <2>1, <2>2, <2>3 DEF TypeOK
<1>5. ASSUME NEW u \in Users, Refused(u), UNCHANGED <<purpose, serial, resolver>> PROVE Typed'
  <2>1. /\ state[u] = "declaring"
        /\ \E s \in {"refused", "failed"} : state' = [state EXCEPT ![u] = s]
        /\ UNCHANGED <<cache, refs, nextId, at, id>>
    BY <1>5 DEF Refused
  <2>2. used' \in [Events -> Nat]
    BY <1>5 DEF Refused, Spend, TypeOK, Events
  <2>3. state' \in [Users -> UserStates] /\ Located'
    BY <2>1, StateStep DEF UserStates, Awaiting
  <2>4. conn' \in [Connections -> ConnStates]
    BY <1>5 DEF Refused, TypeOK, ConnStates
  <2>5. closer' \in [Connections -> SUBSET Users]
    <3>1. {u} \in SUBSET Users /\ closer \in [Connections -> SUBSET Users]
      BY DEF TypeOK
    <3>2. closer' = closer \/ \E e \in SUBSET Users : closer' = [closer EXCEPT ![at[u]] = e]
      BY <1>5, <3>1, <2>1 DEF Refused, Located
    <3> QED
      BY <3>1, <3>2, Zenon
  <2> QED
    BY <1>5, <2>1, <2>2, <2>3, <2>4, <2>5 DEF TypeOK
<1>6. ASSUME NEW u \in Users, state[u] # "idle", closeUser(u), UNCHANGED <<purpose, serial, resolver, used>> PROVE Typed'
  <2>1. at[u] \in Connections /\ releaseConnection(u, at[u])
    BY <1>6 DEF closeUser, Located
  <2>2. state' \in [Users -> UserStates]
        /\ \A v \in Users : state'[v] = "idle" <=> state[v] = "idle"
    BY <1>6 DEF closeUser, TypeOK, UserStates, Awaiting
  <2> QED
    BY <1>6, <2>1, <2>2, ReleaseEffect, ZenonT(30) DEF TypeOK, Located
<1>7. ASSUME NEW u \in Users, Close(u), UNCHANGED <<purpose, serial, resolver>> PROVE Typed'
  <2>1. CASE closeUser(u)
    BY <1>6, <1>7, <2>1 DEF Close
  <2>2. CASE state' = [state EXCEPT ![u] = "flushing"] /\ UNCHANGED <<pool, at, id, used>>
    BY <1>7, <2>2 DEF Close, pool, TypeOK, Located, UserStates, Awaiting
  <2> QED
    BY <1>7, <2>1, <2>2 DEF Close
<1>8. ASSUME NEW u \in Users, Flushed(u), UNCHANGED <<purpose, serial, resolver>> PROVE Typed'
  BY <1>6, <1>8 DEF Flushed
<1>9. ASSUME NEW u \in Users, CloseAgain(u), UNCHANGED <<purpose, serial, resolver>> PROVE Typed'
  <2>1. at[u] \in Connections /\ releaseConnection(u, at[u]) /\ UNCHANGED state
    BY <1>9 DEF CloseAgain, Located
  <2>2. used' \in [Events -> Nat]
    BY <1>9 DEF CloseAgain, Spend, TypeOK, Events
  <2> QED
    BY <1>9, <2>1, <2>2, ReleaseEffect DEF TypeOK, Located
<1>10. ASSUME NEW c \in Connections, CloseAnswered(c), UNCHANGED <<purpose, serial, resolver>> PROVE Typed'
  <2>1. cache' \in Seq(Connections)
    BY <1>10, RemoveShrinks DEF CloseAnswered, TypeOK
  <2>2. /\ state' \in [Users -> UserStates]
        /\ \A v \in Users : state'[v] = "idle" <=> state[v] = "idle"
    BY <1>10 DEF CloseAnswered, TypeOK, UserStates, Awaiting
  <2> QED
    BY <1>10, <2>1, <2>2 DEF CloseAnswered, TypeOK, Located, ConnStates
<1>11. ASSUME NEW c \in Connections, Drop(c) \/ SocketCloses(c), UNCHANGED <<purpose, serial, resolver>> PROVE Typed'
  <2>1. used' \in [Events -> Nat]
    BY <1>11 DEF Drop, SocketCloses, Spend, TypeOK, Events
  <2>2. conn' \in [Connections -> ConnStates]
    BY <1>11 DEF Drop, SocketCloses, TypeOK, ConnStates
  <2> QED
    BY <1>11, <2>1, <2>2 DEF Drop, SocketCloses, TypeOK, Located
<1> QED
  BY <1>0, <1>1, <1>2, <1>3, <1>4, <1>5, <1>7, <1>8, <1>9, <1>10, <1>11, <1>12 DEF Next

(* The types of the pool hold for every set of users and every limit.      *)
THEOREM TypeCorrect == Spec => []TypeOK
<1>1. Typed => TypeOK
  BY DEF Typed
<1> QED
  BY InitTyped, StepTyped, <1>1, PTL DEF Spec

-----------------------------------------------------------------------------
(* The kinds of steps.  All but Lookup, Connected and Begin keep every     *)
(* user where it is, with its id, and bring no connection into being.      *)

Born == {"none", "connecting"}
SameStage ==
  \A v \in Users : /\ state'[v] = "connecting" <=> state[v] = "connecting"
                   /\ state'[v] = "chosen" <=> state[v] = "chosen"
Keeps ==
  /\ UNCHANGED <<at, id, nextId>> /\ SameStage
  /\ \A d \in Connections : conn'[d] = conn[d] \/ (conn[d] \notin Born /\ conn'[d] \notin Born)
  /\ \A k \in 1 .. Len(cache') : \E m \in 1 .. Len(cache) : cache'[k] = cache[m]

LEMMA CacheKept ==
  ASSUME cache' = cache, cache \in Seq(Connections)
  PROVE  \A k \in 1 .. Len(cache') : \E m \in 1 .. Len(cache) : cache'[k] = cache[m]
  OBVIOUS

(* What close of u does.                                                   *)
LEMMA CloseUserKeeps ==
  ASSUME Typed, NEW u \in Users, state[u] \in {"using", "flushing"}, closeUser(u)
  PROVE  Keeps
<1>1. at[u] \in Connections /\ releaseConnection(u, at[u])
  BY DEF closeUser, Typed, Located
<1>2. SameStage
  BY DEF closeUser, Typed, TypeOK, SameStage
<1>3. Typed /\ TypeOK
  BY DEF Typed
<1> QED
  BY <1>1, <1>2, <1>3, ReleaseEffect DEF Keeps, Born

LEMMA KeepingSteps ==
  ASSUME Typed, NEW u \in Users,
         Declared(u) \/ Queried(u) \/ Refused(u) \/ Close(u) \/ Flushed(u) \/ CloseAgain(u)
  PROVE  Keeps
<1> USE DEF Typed
<1>0. cache \in Seq(Connections)
  BY DEF TypeOK
<1>1. CASE Declared(u)
  <2>1. UNCHANGED <<at, id, nextId, conn, cache>>
    BY <1>1 DEF Declared
  <2>2. SameStage
    BY <1>1 DEF Declared, TypeOK, SameStage
  <2> QED
    BY <2>1, <2>2, <1>0, CacheKept DEF Keeps
<1>2. CASE Queried(u)
  <2>1. UNCHANGED <<at, id, nextId, conn, cache>>
    BY <1>2 DEF Queried
  <2>2. SameStage
    BY <1>2 DEF Queried, TypeOK, SameStage
  <2> QED
    BY <2>1, <2>2, <1>0, CacheKept DEF Keeps
<1>3. CASE Refused(u)
  <2>1. UNCHANGED <<at, id, nextId, cache>> /\ at[u] \in Connections
    BY <1>3 DEF Refused, Located
  <2>2. SameStage
    BY <1>3 DEF Refused, TypeOK, SameStage
  <2>3. \A d \in Connections : conn'[d] = conn[d] \/ (conn[d] \notin Born /\ conn'[d] \notin Born)
    BY <1>3, <2>1 DEF Refused, TypeOK, Born
  <2> QED
    BY <2>1, <2>2, <2>3, <1>0, CacheKept DEF Keeps
<1>4. CASE Close(u)
  <2>1. CASE closeUser(u)
    BY <1>4, <2>1, CloseUserKeeps DEF Close
  <2>2. CASE state' = [state EXCEPT ![u] = "flushing"] /\ UNCHANGED <<pool, at, id>>
    <3>1. SameStage
      BY <1>4, <2>2 DEF Close, TypeOK, SameStage
    <3>2. UNCHANGED <<at, id, nextId, conn, cache>>
      BY <2>2 DEF pool
    <3> QED
      BY <3>1, <3>2, <1>0, CacheKept DEF Keeps
  <2> QED
    BY <1>4, <2>1, <2>2 DEF Close
<1>5. CASE Flushed(u)
  BY <1>5, CloseUserKeeps DEF Flushed
<1>6. CASE CloseAgain(u)
  <2>1. at[u] \in Connections /\ releaseConnection(u, at[u]) /\ UNCHANGED state
    BY <1>6 DEF CloseAgain, Located
  <2> QED
    BY <2>1, ReleaseEffect DEF Keeps, Born, SameStage
<1> QED
  BY <1>1, <1>2, <1>3, <1>4, <1>5, <1>6

LEMMA KeepingEvents ==
  ASSUME Typed, NEW c \in Connections, CloseAnswered(c) \/ Drop(c) \/ SocketCloses(c)
  PROVE  Keeps
<1> USE DEF Typed
<1>0. cache \in Seq(Connections)
  BY DEF TypeOK
<1>1. UNCHANGED <<at, id, nextId>>
  BY DEF CloseAnswered, Drop, SocketCloses
<1>2. SameStage
  BY DEF CloseAnswered, Drop, SocketCloses, TypeOK, SameStage
<1>3. \A d \in Connections : conn'[d] = conn[d] \/ (conn[d] \notin Born /\ conn'[d] \notin Born)
  BY DEF CloseAnswered, Drop, SocketCloses, TypeOK, Born
<1>4. UNCHANGED cache \/ removeCachedConnection(c)
  BY DEF CloseAnswered, Drop, SocketCloses
<1> QED
  BY <1>0, <1>1, <1>2, <1>3, <1>4, CacheKept, RemoveShrinks DEF Keeps

(* A lookup that has to create its connection, one that finds it, and one  *)
(* that gets the connection it has created.                                *)
Creates(u, c) ==
  /\ state[u] = "idle" /\ conn[c] = "none"
  /\ conn' = [conn EXCEPT ![c] = "connecting"]
  /\ at' = [at EXCEPT ![u] = c]
  /\ state' = [state EXCEPT ![u] = "connecting"]
  /\ UNCHANGED <<refs, nextId, id, cache, closer, used>>
Reuses(u, c) ==
  /\ state[u] = "idle" /\ Cached /\ c = Last(cache)
  /\ at' = [at EXCEPT ![u] = c]
  /\ state' = [state EXCEPT ![u] = "chosen"]
  /\ UNCHANGED <<conn, refs, nextId, id, cache, closer, used>>
Receives(u, c) ==
  /\ state[u] = "connecting" /\ c = at[u]
  /\ conn' = [conn EXCEPT ![c] = "up"] /\ cache' = Append(cache, c)
  /\ state' = [state EXCEPT ![u] = "chosen"]
  /\ UNCHANGED <<refs, nextId, at, id, closer, used>>

LEMMA LookupKinds ==
  ASSUME Typed, NEW u \in Users, Lookup(u) \/ Connected(u)
  PROVE  \E c \in Connections : Creates(u, c) \/ Reuses(u, c) \/ Receives(u, c)
<1> USE DEF Typed
<1>1. CASE Lookup(u)
  <2>1. CASE Cached
    <3>1. Last(cache) \in Connections /\ Reuses(u, Last(cache))
      BY <1>1, <2>1, CachedIsConnection DEF Lookup, Reuses
    <3> QED
      BY <3>1
  <2>2. CASE ~Cached
    BY <1>1, <2>2 DEF Lookup, Creates
  <2> QED
    BY <2>1, <2>2
<1>2. CASE Connected(u)
  <2>1. at[u] \in Connections /\ Receives(u, at[u])
    BY <1>2 DEF Connected, Receives, Located
  <2> QED
    BY <2>1
<1> QED
  BY <1>1, <1>2

-----------------------------------------------------------------------------
(* Unique ids.  Every id given is below the counter of its connection, so  *)
(* that the next one is new.                                               *)

IdsBelow == \A u \in Users : Placed(u) => id[u] < nextId[at[u]]
IdInv == IdsBelow /\ UniqueIds

LEMMA PlacedIsLocated ==
  ASSUME Typed, NEW u \in Users, Placed(u)
  PROVE  at[u] \in Connections /\ id[u] \in Nat /\ nextId[at[u]] \in Nat
  BY DEF Typed, TypeOK, Located, Placed

LEMMA KeepsIds ==
  ASSUME Typed, IdInv, Keeps
  PROVE  IdInv'
<1>1. \A u \in Users : Placed(u)' <=> Placed(u)
  BY DEF Keeps, SameStage, Placed
<1>2. UNCHANGED <<at, id, nextId>>
  BY DEF Keeps
<1> QED
  BY <1>1, <1>2 DEF IdInv, IdsBelow, UniqueIds

LEMMA BeginIds ==
  ASSUME Typed, IdInv, NEW u \in Users, NEW c \in Connections, c = at[u], Begin(u)
  PROVE  IdInv'
<1>1. TypeOK
  BY DEF Typed
<1>2. /\ at' = at /\ at[u] = c /\ id'[u] = nextId[c] /\ nextId'[c] = nextId[c] + 1
      /\ \A v \in Users \ {u} : id'[v] = id[v] /\ state'[v] = state[v]
      /\ \A d \in Connections \ {c} : nextId'[d] = nextId[d]
  BY BeginEffect
<1>3. nextId[c] \in Nat
  BY <1>1 DEF TypeOK
<1>4. \A v \in Users \ {u} : Placed(v)' <=> Placed(v)
  BY <1>2 DEF Placed
<1>5. ASSUME NEW v \in Users, Placed(v)' PROVE id'[v] < nextId'[at'[v]]
  <2>1. CASE v = u
    BY <2>1, <1>2, <1>3
  <2>2. CASE v # u
    <3>1. Placed(v) /\ at'[v] = at[v] /\ id'[v] = id[v]
      BY <2>2, <1>2, <1>4, <1>5
    <3>2. id[v] < nextId[at[v]] /\ at[v] \in Connections /\ id[v] \in Nat
      BY <3>1, PlacedIsLocated DEF IdInv, IdsBelow
    <3> QED
      BY <3>1, <3>2, <1>2, <1>3
  <2> QED
    BY <2>1, <2>2
<1>6. ASSUME NEW v \in Users \ {u}, Placed(v), at[v] = c PROVE id[v] # nextId[c]
  <2>1. id[v] < nextId[c] /\ id[v] \in Nat
    BY <1>6, PlacedIsLocated DEF IdInv, IdsBelow
  <2> QED
    BY <2>1, <1>3
<1>7. ASSUME NEW v \in Users, NEW w \in Users, v # w, Placed(v)', Placed(w)', at'[v] = at'[w]
      PROVE  id'[v] # id'[w]
  <2>1. CASE v = u
    BY <2>1, <1>2, <1>4, <1>6, <1>7
  <2>2. CASE w = u
    BY <2>2, <1>2, <1>4, <1>6, <1>7
  <2>3. CASE v # u /\ w # u
    BY <2>3, <1>2, <1>4, <1>7 DEF IdInv, UniqueIds
  <2> QED
    BY <2>1, <2>2, <2>3
<1>8. IdsBelow'
  BY <1>5 DEF IdsBelow
<1>9. UniqueIds'
  BY <1>7 DEF UniqueIds
<1> QED
  BY <1>8, <1>9 DEF IdInv

LEMMA LookupIds ==
  ASSUME Typed, IdInv, NEW u \in Users, NEW c \in Connections,
         Creates(u, c) \/ Reuses(u, c) \/ Receives(u, c)
  PROVE  IdInv'
<1>1. \A v \in Users \ {u} : at'[v] = at[v] /\ state'[v] = state[v]
  BY DEF Creates, Reuses, Receives, Typed, TypeOK
<1>2. state'[u] \in {"connecting", "chosen"} /\ UNCHANGED <<id, nextId>>
  BY DEF Creates, Reuses, Receives, Typed, TypeOK
<1>3. ASSUME NEW v \in Users, Placed(v)' PROVE Placed(v) /\ at'[v] = at[v] /\ v # u
  BY <1>1, <1>2, <1>3 DEF Placed
<1> QED
  BY <1>2, <1>3 DEF IdInv, IdsBelow, UniqueIds

LEMMA StepIds == Typed /\ IdInv /\ [Next]_vars => IdInv'
<1> SUFFICES ASSUME Typed, IdInv, [Next]_vars PROVE IdInv'
  OBVIOUS
<1>0. CASE UNCHANGED vars
  BY <1>0 DEF vars, pool, IdInv, IdsBelow, UniqueIds, Placed
<1>1. CASE Keeps
  BY <1>1, KeepsIds
<1>2. ASSUME NEW u \in Users, Lookup(u) \/ Connected(u) PROVE IdInv'
  BY <1>2, LookupKinds, LookupIds
<1>3. ASSUME NEW u \in Users, Begin(u) PROVE IdInv'
  <2>1. at[u] \in Connections
    BY <1>3 DEF Begin, Typed, Located
  <2> QED
    BY <1>3, <2>1, BeginIds
<1> QED
  BY <1>0, <1>1, <1>2, <1>3, KeepingSteps, KeepingEvents DEF Next

LEMMA InitIds == Init => IdInv
  BY DEF Init, IdInv, IdsBelow, UniqueIds, Placed

(* No two users of a connection ever get the same id.                      *)
THEOREM IdsUnique == Spec => []UniqueIds
<1>1. Init => Typed /\ IdInv
  BY InitTyped, InitIds
<1>2. Typed /\ IdInv /\ [Next]_vars => (Typed /\ IdInv)'
  BY StepTyped, StepIds
<1>3. Typed /\ IdInv => UniqueIds
  BY DEF IdInv
<1> QED
  BY <1>1, <1>2, <1>3, PTL DEF Spec

-----------------------------------------------------------------------------
(* Where connections come from: one that is being set up belongs to the    *)
(* user that waits for it, and is not in the cache yet.                    *)

Unused == \A c \in Connections : conn[c] = "none" => \A u \in Users : at[u] # c
Fresh ==
  \A u \in Users : state[u] = "connecting" =>
    conn[at[u]] = "connecting" /\ \A v \in Users \ {u} : at[v] # at[u]
CachedUp == \A k \in 1 .. Len(cache) : conn[cache[k]] \notin Born
ConnInv == Unused /\ Fresh /\ CachedUp

LEMMA InitConn == Init => ConnInv
  BY ConnectionsAreNumbers DEF Init, ConnInv, Unused, Fresh, CachedUp

LEMMA CachedConnection ==
  ASSUME Typed, ConnInv, Cached
  PROVE  Last(cache) \in Connections /\ conn[Last(cache)] \notin Born
  BY CachedIsConnection DEF Typed, ConnInv, CachedUp

LEMMA KeepsConn ==
  ASSUME Typed, ConnInv, Keeps
  PROVE  ConnInv'
<1>1. Unused'
  BY DEF ConnInv, Unused, Keeps, Born
<1>2. Fresh'
  BY DEF ConnInv, Fresh, Keeps, SameStage, Born, Typed, Located
<1>3. ASSUME NEW k \in 1 .. Len(cache') PROVE conn'[cache'[k]] \notin Born
  <2>1. PICK m \in 1 .. Len(cache) : cache'[k] = cache[m]
    BY <1>3 DEF Keeps
  <2>2. cache[m] \in Connections /\ conn[cache[m]] \notin Born
    BY <2>1, ElementOfSeq DEF Typed, TypeOK, ConnInv, CachedUp
  <2> QED
    BY <2>1, <2>2 DEF Keeps
<1> QED
  BY <1>1, <1>2, <1>3 DEF ConnInv, CachedUp

LEMMA CreatesConn ==
  ASSUME Typed, ConnInv, NEW u \in Users, NEW c \in Connections, Creates(u, c)
  PROVE  ConnInv'
<1>1. /\ conn'[c] = "connecting" /\ conn[c] = "none"
      /\ \A d \in Connections \ {c} : conn'[d] = conn[d]
      /\ UNCHANGED cache
  BY DEF Creates, Typed, TypeOK
<1>2. /\ at'[u] = c /\ state'[u] = "connecting"
      /\ \A v \in Users \ {u} : at'[v] = at[v] /\ state'[v] = state[v]
  BY DEF Creates, Typed, TypeOK
<1>3. \A v \in Users : at[v] # c
  BY <1>1 DEF ConnInv, Unused
<1>4. Unused'
  BY <1>1, <1>2, <1>3 DEF ConnInv, Unused
<1>5. ASSUME NEW v \in Users, state'[v] = "connecting"
      PROVE  conn'[at'[v]] = "connecting" /\ \A w \in Users \ {v} : at'[w] # at'[v]
  <2>1. CASE v = u
    BY <2>1, <1>1, <1>2, <1>3
  <2>2. CASE v # u
    <3>1. state[v] = "connecting" /\ at'[v] = at[v] /\ at[v] \in Connections \ {c}
      BY <2>2, <1>2, <1>3, <1>5 DEF Typed, Located
    <3> QED
      BY <3>1, <1>1, <1>2, <1>3 DEF ConnInv, Fresh
  <2> QED
    BY <2>1, <2>2
<1>6. ASSUME NEW k \in 1 .. Len(cache) PROVE conn'[cache[k]] \notin Born
  <2>1. cache[k] \in Connections /\ conn[cache[k]] \notin Born
    BY <1>6, ElementOfSeq DEF Typed, TypeOK, ConnInv, CachedUp
  <2> QED
    BY <2>1, <1>1 DEF Born
<1> QED
  BY <1>1, <1>4, <1>5, <1>6 DEF ConnInv, Fresh, CachedUp

LEMMA ReusesConn ==
  ASSUME Typed, ConnInv, NEW u \in Users, NEW c \in Connections, Reuses(u, c)
  PROVE  ConnInv'
<1>1. UNCHANGED <<conn, cache>> /\ conn[c] \notin Born
  BY CachedConnection DEF Reuses
<1>2. /\ at'[u] = c /\ state'[u] # "connecting"
      /\ \A v \in Users \ {u} : at'[v] = at[v] /\ state'[v] = state[v]
  BY DEF Reuses, Typed, TypeOK
<1>3. Unused'
  BY <1>1, <1>2 DEF ConnInv, Unused, Born
<1>4. Fresh'
  BY <1>1, <1>2 DEF ConnInv, Fresh, Born
<1> QED
  BY <1>1, <1>3, <1>4 DEF ConnInv, CachedUp

LEMMA ReceivesConn ==
  ASSUME Typed, ConnInv, NEW u \in Users, NEW c \in Connections, Receives(u, c)
  PROVE  ConnInv'
<1>1. /\ conn'[c] = "up" /\ \A d \in Connections \ {c} : conn'[d] = conn[d]
      /\ cache' = Append(cache, c) /\ state[u] = "connecting" /\ at[u] = c
  BY DEF Receives, Typed, TypeOK
<1>2. /\ at'[u] = c /\ state'[u] # "connecting"
      /\ \A v \in Users \ {u} : at'[v] = at[v] /\ state'[v] = state[v]
  BY DEF Receives, Typed, TypeOK
<1>3. \A v \in Users \ {u} : at[v] # c
  BY <1>1 DEF ConnInv, Fresh
<1>4. Unused'
  BY <1>1, <1>2, <1>3 DEF ConnInv, Unused
<1>5. ASSUME NEW v \in Users, state'[v] = "connecting"
      PROVE  conn'[at'[v]] = "connecting" /\ \A w \in Users \ {v} : at'[w] # at'[v]
  <2>1. v # u /\ state[v] = "connecting" /\ at'[v] = at[v] /\ at[v] \in Connections \ {c}
    BY <1>2, <1>3, <1>5 DEF Typed, Located
  <2> QED
    BY <2>1, <1>1, <1>2 DEF ConnInv, Fresh
<1>6. ASSUME NEW k \in 1 .. Len(cache') PROVE conn'[cache'[k]] \notin Born
  <2>1. /\ Len(cache') = Len(cache) + 1 /\ cache'[Len(cache) + 1] = c
        /\ \A i \in 1 .. Len(cache) : cache'[i] = cache[i]
        /\ Len(cache) \in Nat
    BY <1>1, AppendProperties, LenProperties DEF Typed, TypeOK
  <2>2. CASE k = Len(cache) + 1
    BY <2>1, <2>2, <1>1 DEF Born
  <2>3. CASE k # Len(cache) + 1
    <3>1. k \in 1 .. Len(cache)
      BY <2>1, <2>3, <1>6
    <3>2. cache[k] \in Connections /\ conn[cache[k]] \notin Born
      BY <3>1, ElementOfSeq DEF Typed, TypeOK, ConnInv, CachedUp
    <3> QED
      BY <3>1, <3>2, <2>1, <1>1 DEF Born
  <2> QED
    BY <2>2, <2>3
<1> QED
  BY <1>4, <1>5, <1>6 DEF ConnInv, Fresh, CachedUp

LEMMA BeginConn ==
  ASSUME Typed, ConnInv, NEW u \in Users, Begin(u)
  PROVE  ConnInv'
<1>1. /\ UNCHANGED <<cache, conn, at>> /\ state'[u] # "connecting"
      /\ \A v \in Users \ {u} : state'[v] = state[v]
  BY DEF Begin, Typed, TypeOK
<1> QED
  BY <1>1 DEF ConnInv, Unused, Fresh, CachedUp

LEMMA StepConn == Typed /\ ConnInv /\ [Next]_vars => ConnInv'
<1> SUFFICES ASSUME Typed, ConnInv, [Next]_vars PROVE ConnInv'
  OBVIOUS
<1>0. CASE UNCHANGED vars
  BY <1>0 DEF vars, pool, ConnInv, Unused, Fresh, CachedUp
<1>1. CASE Keeps
  BY <1>1, KeepsConn
<1>2. ASSUME NEW u \in Users, Lookup(u) \/ Connected(u) PROVE ConnInv'
  BY <1>2, LookupKinds, CreatesConn, ReusesConn, ReceivesConn
<1>3. ASSUME NEW u \in Users, Begin(u) PROVE ConnInv'
  BY <1>3, BeginConn
<1> QED
  BY <1>0, <1>1, <1>2, <1>3, KeepingSteps, KeepingEvents DEF Next

-----------------------------------------------------------------------------
(* Exact reference counts.  Some states only publishers are in: a consumer *)
(* is counted before its request is written, a publisher after the answer. *)

Roles ==
  purpose = "consumer" => \A u \in Users : state[u] \notin {"querying", "flushing", "refused"}
CountInv == Roles /\ RefsExact
Exact == \A c \in Connections : refs[c] = Cardinality(UsersOf(c))

LEMMA UsersAreFinite ==
  \A c \in Connections : IsFiniteSet(UsersOf(c)) /\ Cardinality(UsersOf(c)) \in Nat
  BY PoolAssumption, FS_Subset, FS_CardinalityType DEF UsersOf

(* A step of one user, at one connection: the count stays exact if it      *)
(* changes just when the user begins or ends to be counted.                *)
LEMMA Recount ==
  ASSUME Typed, Exact, NEW u \in Users, NEW c \in Connections, UNCHANGED purpose,
         \A v \in Users \ {u} : at'[v] = at[v] /\ state'[v] = state[v],
         at'[u] = c, at[u] = c \/ ~IsCounted(u),
         \A d \in Connections \ {c} : refs'[d] = refs[d],
         \/ (IsCounted(u)' <=> IsCounted(u)) /\ refs'[c] = refs[c]
         \/ ~IsCounted(u) /\ IsCounted(u)' /\ refs'[c] = refs[c] + 1
         \/ IsCounted(u) /\ ~IsCounted(u)' /\ refs'[c] = refs[c] - 1
  PROVE  Exact'
<1>1. \A v \in Users \ {u} : IsCounted(v)' <=> IsCounted(v)
  BY DEF IsCounted
<1>2. ASSUME NEW d \in Connections \ {c} PROVE refs'[d] = Cardinality(UsersOf(d)')
  <2>1. UsersOf(d)' = UsersOf(d)
    BY <1>1, <1>2 DEF UsersOf
  <2> QED
    BY <1>2, <2>1 DEF Exact
<1>3. refs'[c] = Cardinality(UsersOf(c)')
  <2>1. refs[c] = Cardinality(UsersOf(c)) /\ IsFiniteSet(UsersOf(c))
    BY UsersAreFinite DEF Exact
  <2>2. CASE (IsCounted(u)' <=> IsCounted(u)) /\ refs'[c] = refs[c]
    <3>1. UsersOf(c)' = UsersOf(c)
      BY <1>1, <2>2 DEF UsersOf
    <3> QED
      BY <2>1, <2>2, <3>1
  <2>3. CASE ~IsCounted(u) /\ IsCounted(u)' /\ refs'[c] = refs[c] + 1
    <3>1. UsersOf(c)' = UsersOf(c) \cup {u} /\ u \notin UsersOf(c)
      BY <1>1, <2>3 DEF UsersOf
    <3>2. Cardinality(UsersOf(c) \cup {u}) = Cardinality(UsersOf(c)) + 1
      BY <2>1, <3>1, FS_AddElement
    <3> QED
      BY <2>1, <2>3, <3>1, <3>2
  <2>4. CASE IsCounted(u) /\ ~IsCounted(u)' /\ refs'[c] = refs[c] - 1
    <3>1. UsersOf(c)' = UsersOf(c) \ {u} /\ u \in UsersOf(c)
      BY <1>1, <2>4 DEF UsersOf
    <3> QED
      BY <2>1, <2>4, <3>1, FS_RemoveElement
  <2> QED
    BY <2>2, <2>3, <2>4
<1> QED
  BY <1>2, <1>3 DEF Exact

LEMMA SameCount ==
  ASSUME Exact, UNCHANGED <<refs, at>>, \A v \in Users : IsCounted(v)' <=> IsCounted(v)
  PROVE  Exact'
<1>1. ASSUME NEW d \in Connections PROVE refs'[d] = Cardinality(UsersOf(d)')
  <2>1. UsersOf(d)' = UsersOf(d)
    BY DEF UsersOf
  <2> QED
    BY <2>1 DEF Exact
<1> QED
  BY <1>1 DEF Exact

LEMMA LookupCount ==
  ASSUME Typed, CountInv, UNCHANGED purpose,
         NEW u \in Users, NEW c \in Connections,
         Creates(u, c) \/ Reuses(u, c) \/ Receives(u, c)
  PROVE  CountInv'
<1>1. /\ at'[u] = c /\ state'[u] \in {"connecting", "chosen"} /\ state[u] \in {"idle", "connecting"}
      /\ \A v \in Users \ {u} : at'[v] = at[v] /\ state'[v] = state[v]
      /\ UNCHANGED <<refs, used>>
  BY DEF Creates, Reuses, Receives, Typed, TypeOK
<1>2. Roles'
  BY <1>1 DEF CountInv, Roles
<1>3. ~IsCounted(u) /\ ~IsCounted(u)'
  BY <1>1 DEF IsCounted
<1>4. Exact => Exact'
  BY <1>1, <1>3, Recount
<1> QED
  BY <1>1, <1>2, <1>4 DEF CountInv, RefsExact, Exact

LEMMA BeginCount ==
  ASSUME Typed, CountInv, UNCHANGED purpose,
         NEW u \in Users, NEW c \in Connections, c = at[u], Begin(u)
  PROVE  CountInv'
<1>1. /\ at'[u] = c /\ state[u] = "chosen" /\ state'[u] \in {"declaring", "ignored", "failed"}
      /\ \A v \in Users \ {u} : at'[v] = at[v] /\ state'[v] = state[v]
      /\ \A d \in Connections \ {c} : refs'[d] = refs[d]
      /\ refs'[c] = IF purpose = "consumer" THEN refs[c] + 1 ELSE refs[c]
      /\ UNCHANGED used
  BY BeginEffect
<1>2. Roles'
  BY <1>1 DEF CountInv, Roles
<1>3. /\ ~IsCounted(u)
      /\ IsCounted(u)' <=> purpose = "consumer"
  BY <1>1, PoolAssumption DEF IsCounted, Typed, TypeOK
<1>4. Exact => Exact'
  <2>1. CASE purpose = "consumer"
    BY <2>1, <1>1, <1>3, Recount
  <2>2. CASE purpose # "consumer"
    BY <2>2, <1>1, <1>3, Recount
  <2> QED
    BY <2>1, <2>2
<1> QED
  BY <1>1, <1>2, <1>4 DEF CountInv, RefsExact, Exact

(* A user is released once: while it is counted, and then no more.         *)
LEMMA CloseUserCount ==
  ASSUME Typed, CountInv, UNCHANGED <<purpose, used>>, NEW u \in Users,
         state[u] \in {"using", "flushing"}, closeUser(u)
  PROVE  CountInv'
<1> DEFINE c == at[u]
<1>0. c \in Connections /\ releaseConnection(u, c)
  BY DEF closeUser, Typed, Located
<1>1. /\ at' = at /\ state'[u] \in {"closing", "closed"}
      /\ \A v \in Users \ {u} : state'[v] = state[v]
  BY <1>0, ReleaseEffect DEF closeUser, Typed, TypeOK
<1>2. refs'[c] = refs[c] - 1 /\ \A d \in Connections \ {c} : refs'[d] = refs[d]
  BY <1>0, ReleaseEffect DEF Typed
<1>3. Roles'
  BY <1>1 DEF CountInv, Roles
<1>4. IsCounted(u) /\ ~IsCounted(u)'
  BY <1>1, PoolAssumption DEF IsCounted, CountInv, Roles, Typed, TypeOK
<1>5. at[u] = c
  OBVIOUS
<1> HIDE DEF c
<1>6. Exact => Exact'
  BY <1>0, <1>1, <1>2, <1>4, <1>5, Recount
<1> QED
  BY <1>3, <1>6 DEF CountInv, RefsExact, Exact

LEMMA StepCount == Typed /\ CountInv /\ [Next]_vars => CountInv'
<1> SUFFICES ASSUME Typed, CountInv, [Next]_vars PROVE CountInv'
  OBVIOUS
<1> USE DEF Typed
<1>0. CASE UNCHANGED vars
  BY <1>0 DEF vars, pool, CountInv, Roles, RefsExact, UsersOf, IsCounted
<1>1. ASSUME NEW u \in Users, Lookup(u) \/ Connected(u), UNCHANGED purpose PROVE CountInv'
  BY <1>1, LookupKinds, LookupCount
<1>9. ASSUME NEW u \in Users, Begin(u), UNCHANGED purpose PROVE CountInv'
  <2>1. at[u] \in Connections
    BY <1>9 DEF Begin, Located
  <2> QED
    BY <1>9, <2>1, BeginCount
<1>2. ASSUME NEW u \in Users, Declared(u) \/ Queried(u), UNCHANGED purpose PROVE CountInv'
  <2>1. /\ state[u] \in {"declaring", "querying"} /\ at[u] \in Connections
        /\ state'[u] \in {"querying", "using"}
        /\ \A v \in Users \ {u} : state'[v] = state[v]
        /\ UNCHANGED <<at, used>>
    BY <1>2 DEF Declared, Queried, TypeOK, Located
  <2>2. Roles'
    BY <1>2, <2>1 DEF CountInv, Roles, Declared, Queried, TypeOK
  <2>3. CASE purpose = "publisher"
    <3>1. ~IsCounted(u) /\ (IsCounted(u)' <=> state'[u] = "using")
      BY <1>2, <2>1, <2>3 DEF IsCounted
    <3>2. /\ \A d \in Connections \ {at[u]} : refs'[d] = refs[d]
          /\ refs'[at[u]] = IF state'[u] = "using" THEN refs[at[u]] + 1 ELSE refs[at[u]]
      <4>1. CASE Counted(u)
        <5>1. state'[u] = "using"
          BY <1>2, <4>1, <2>1, <2>3 DEF Declared, Queried, Counted, TypeOK
        <5> QED
          BY <4>1, <5>1, <2>1, <2>3, CountedEffect
      <4>2. CASE UNCHANGED refs /\ state'[u] = "querying"
        BY <4>2
      <4> QED
        BY <1>2, <4>1, <4>2 DEF Declared, Queried, TypeOK
    <3>3. Exact => Exact'
      BY <1>2, <2>1, <3>1, <3>2, Recount
    <3> QED
      BY <2>1, <2>2, <3>3 DEF CountInv, RefsExact, Exact
  <2>4. CASE purpose = "consumer"
    <3>1. UNCHANGED refs
      BY <1>2, <2>4 DEF Declared, Queried, Counted
    <3>2. IsCounted(u) /\ IsCounted(u)'
      BY <1>2, <2>1, <2>2, <2>4 DEF IsCounted, CountInv, Roles
    <3>3. Exact => Exact'
      BY <1>2, <2>1, <3>1, <3>2, Recount
    <3> QED
      BY <2>1, <2>2, <3>3 DEF CountInv, RefsExact, Exact
  <2> QED
    BY <2>3, <2>4, PoolAssumption DEF TypeOK
<1>3. ASSUME NEW u \in Users, Refused(u), UNCHANGED purpose PROVE CountInv'
  <2>1. /\ state[u] = "declaring" /\ UNCHANGED <<refs, at>>
        /\ state'[u] = IF purpose = "publisher" THEN "refused" ELSE "failed"
        /\ \A v \in Users \ {u} : state'[v] = state[v]
    BY <1>3 DEF Refused, TypeOK
  <2>2. Roles'
    BY <1>3, <2>1 DEF CountInv, Roles
  <2>3. \A v \in Users : IsCounted(v)' <=> IsCounted(v)
    BY <1>3, <2>1 DEF IsCounted
  <2>4. used'["again"] = used["again"]
    BY <1>3 DEF Refused, Spend, TypeOK, Events
  <2> QED
    BY <2>1, <2>2, <2>3, <2>4, SameCount DEF CountInv, RefsExact, Exact
<1>4. ASSUME NEW u \in Users, Close(u), UNCHANGED purpose PROVE CountInv'
  <2>1. CASE closeUser(u)
    BY <1>4, <2>1, CloseUserCount DEF Close
  <2>2. CASE /\ purpose = "publisher" /\ state' = [state EXCEPT ![u] = "flushing"]
             /\ UNCHANGED <<pool, at, id>>
    <3>1. UNCHANGED <<refs, at, used>> /\ Roles'
      BY <1>4, <2>2 DEF Close, pool, CountInv, Roles
    <3>2. \A v \in Users : IsCounted(v)' <=> IsCounted(v)
      BY <1>4, <2>2 DEF Close, IsCounted, TypeOK
    <3> QED
      BY <3>1, <3>2, SameCount DEF CountInv, RefsExact, Exact
  <2> QED
    BY <1>4, <2>1, <2>2 DEF Close
<1>5. ASSUME NEW u \in Users, Flushed(u), UNCHANGED purpose PROVE CountInv'
  BY <1>5, CloseUserCount DEF Flushed
<1>6. ASSUME NEW u \in Users, CloseAgain(u), UNCHANGED purpose PROVE CountInv'
  <2>1. used'["again"] # 0 /\ UNCHANGED state
    BY <1>6 DEF CloseAgain, Spend, TypeOK, Events
  <2> QED
    BY <1>6, <2>1 DEF CountInv, Roles, RefsExact
<1>7. ASSUME NEW c \in Connections, CloseAnswered(c), UNCHANGED purpose PROVE CountInv'
  <2>1. UNCHANGED <<refs, at, used>>
    BY <1>7 DEF CloseAnswered
  <2>2. \A v \in Users : \/ state'[v] = state[v]
                         \/ state[v] = "closing" /\ state'[v] = "closed"
                         \/ state[v] = "refused" /\ state'[v] = "failed"
    BY <1>7 DEF CloseAnswered, TypeOK
  <2>3. Roles' /\ \A v \in Users : IsCounted(v)' <=> IsCounted(v)
    BY <1>7, <2>2, PoolAssumption DEF CountInv, Roles, IsCounted, TypeOK
  <2> QED
    BY <2>1, <2>3, SameCount DEF CountInv, RefsExact, Exact
<1>8. ASSUME NEW c \in Connections, Drop(c) \/ SocketCloses(c), UNCHANGED purpose PROVE CountInv'
  <2>1. UNCHANGED <<refs, at, state>> /\ used'["again"] = used["again"]
    BY <1>8 DEF Drop, SocketCloses, Spend, TypeOK, Events
  <2>2. Roles' /\ \A v \in Users : IsCounted(v)' <=> IsCounted(v)
    BY <1>8, <2>1 DEF CountInv, Roles, IsCounted
  <2> QED
    BY <2>1, <2>2, SameCount DEF CountInv, RefsExact, Exact
<1> QED
  BY <1>0, <1>1, <1>2, <1>3, <1>4, <1>5, <1>6, <1>7, <1>8, <1>9 DEF Next

LEMMA InitCount == Init => CountInv
<1> SUFFICES ASSUME Init PROVE CountInv
  OBVIOUS
<1>1. ASSUME NEW c \in Connections PROVE UsersOf(c) = {}
  BY <1>1 DEF Init, UsersOf, IsCounted
<1> QED
  BY <1>1, FS_EmptySet DEF Init, CountInv, Roles, RefsExact

(* As long as nobody is closed twice, a connection counts its users.       *)
THEOREM RefsAreExact == Spec => []RefsExact
<1>1. Init => Typed /\ CountInv
  BY InitTyped, InitCount
<1>2. Typed /\ CountInv /\ [Next]_vars => (Typed /\ CountInv)'
  BY StepTyped, StepCount
<1>3. Typed /\ CountInv => RefsExact
  BY DEF CountInv
<1> QED
  BY <1>1, <1>2, <1>3, PTL DEF Spec

-----------------------------------------------------------------------------
(* The limit.  A user is counted some awaits after the lookup that chose   *)
(* its connection; the room the lookup saw is still there if no other call *)
(* is under way.                                                           *)

Alone ==
  serial => \A u, v \in Users : u # v => state[u] \notin Awaiting \/ state[v] \notin Awaiting
Uncounted(u) ==
  state[u] \in {"chosen"} \cup (IF purpose = "publisher" THEN {"declaring", "querying"} ELSE {})
Careful == serial /\ used["again"] = 0
Bounded == \A c \in Connections : refs[c] <= MaxShared
Room == \A u \in Users : Uncounted(u) => refs[at[u]] < MaxShared
LimitInv == Alone /\ (Careful => Bounded /\ Room)
PoolInv == Typed /\ ConnInv /\ CountInv /\ LimitInv

LEMMA StartsAlone ==
  ASSUME MayStart, serial' = serial, NEW u \in Users, \A v \in Users \ {u} : state'[v] = state[v]
  PROVE  Alone'
  BY DEF MayStart, Alone

LEMMA StaysAlone ==
  ASSUME Alone, serial' = serial, \A v \in Users : state'[v] \in Awaiting => state[v] \in Awaiting
  PROVE  Alone'
  BY DEF Alone

LEMMA StepAlone == Typed /\ Alone /\ [Next]_vars => Alone'
<1> SUFFICES ASSUME Typed, Alone, [Next]_vars PROVE Alone'
  OBVIOUS
<1> USE DEF Typed
<1>a. serial' = serial
  BY DEF Next, vars
<1>0. CASE UNCHANGED vars
  BY <1>a, <1>0, StaysAlone DEF vars
<1>1. ASSUME NEW u \in Users, Lookup(u) PROVE Alone'
  <2>1. \A v \in Users \ {u} : state'[v] = state[v]
    <3>1. PICK c \in Connections : Creates(u, c) \/ Reuses(u, c) \/ Receives(u, c)
      BY <1>1, LookupKinds
    <3> QED
      BY <3>1 DEF Creates, Reuses, Receives, TypeOK
  <2> QED
    BY <1>a, <1>1, <2>1, StartsAlone DEF Lookup
<1>2. ASSUME NEW u \in Users, Close(u) PROVE Alone'
  <2>1. \A v \in Users \ {u} : state'[v] = state[v]
    BY <1>2 DEF Close, closeUser, TypeOK
  <2> QED
    BY <1>a, <1>2, <2>1, StartsAlone DEF Close
<1>3. ASSUME NEW u \in Users, Connected(u) \/ Begin(u) PROVE Alone'
  <2>1. state[u] \in {"connecting", "chosen"} /\ \A v \in Users \ {u} : state'[v] = state[v]
    BY <1>3 DEF Connected, Begin, TypeOK
  <2> QED
    BY <1>a, <2>1, StaysAlone DEF Awaiting
<1>4. ASSUME NEW u \in Users, Declared(u) \/ Queried(u) \/ Refused(u) \/ Flushed(u) PROVE Alone'
  <2>1. state[u] \in Awaiting /\ \A v \in Users \ {u} : state'[v] = state[v]
    BY <1>4 DEF Declared, Queried, Refused, Flushed, closeUser, TypeOK, Awaiting
  <2> QED
    BY <1>a, <2>1, StaysAlone
<1>5. ASSUME NEW u \in Users, CloseAgain(u) PROVE Alone'
  BY <1>a, <1>5, StaysAlone DEF CloseAgain
<1>6. ASSUME NEW c \in Connections, CloseAnswered(c) \/ Drop(c) \/ SocketCloses(c) PROVE Alone'
  <2>1. \A v \in Users : state'[v] \in Awaiting => state[v] \in Awaiting
    BY <1>6 DEF CloseAnswered, Drop, SocketCloses, TypeOK, Awaiting
  <2> QED
    BY <1>a, <2>1, StaysAlone
<1> QED
  BY <1>0, <1>1, <1>2, <1>3, <1>4, <1>5, <1>6 DEF Next

(* A step that counts nobody and gives nobody a connection.                *)
LEMMA SameLimit ==
  ASSUME Bounded, Room, UNCHANGED refs,
         \A v \in Users : Uncounted(v)' => Uncounted(v) /\ at'[v] = at[v]
  PROVE  Bounded' /\ Room'
  BY DEF Bounded, Room

(* A lookup that gives its user a connection with room.                    *)
LEMMA GivenLimit ==
  ASSUME Typed, Bounded, Room, UNCHANGED <<purpose, refs>>,
         NEW u \in Users, at'[u] \in Connections, refs[at'[u]] < MaxShared,
         \A v \in Users \ {u} : at'[v] = at[v] /\ state'[v] = state[v]
  PROVE  Bounded' /\ Room'
<1>1. Bounded'
  BY DEF Bounded
<1>2. ASSUME NEW v \in Users, Uncounted(v)' PROVE refs'[at'[v]] < MaxShared
  <2>1. CASE v = u
    BY <2>1
  <2>2. CASE v # u
    <3>1. Uncounted(v) /\ at'[v] = at[v]
      BY <1>2, <2>2 DEF Uncounted
    <3> QED
      BY <3>1 DEF Room
  <2> QED
    BY <2>1, <2>2
<1> QED
  BY <1>1, <1>2 DEF Room

(* A step that counts u, the only user that is on its way.                 *)
LEMMA CountsLimit ==
  ASSUME Typed, Alone, serial, Bounded, Room, UNCHANGED purpose,
         NEW u \in Users, NEW c \in Connections, c = at[u], Uncounted(u), ~Uncounted(u)',
         \A v \in Users \ {u} : state'[v] = state[v],
         refs'[c] = refs[c] + 1, \A d \in Connections \ {c} : refs'[d] = refs[d]
  PROVE  Bounded' /\ Room'
<1>1. refs[c] < MaxShared /\ MaxShared \in Nat /\ refs[c] \in Int
  BY PoolAssumption DEF Room, Typed, TypeOK
<1>2. Bounded'
  BY <1>1 DEF Bounded
<1>3. \A v \in Users : Uncounted(v) => state[v] \in Awaiting
  BY DEF Uncounted, Awaiting
<1>4. \A v \in Users \ {u} : ~Uncounted(v)
  BY <1>3 DEF Alone
<1>5. \A v \in Users : ~Uncounted(v)'
  BY <1>4 DEF Uncounted
<1> QED
  BY <1>2, <1>5 DEF Room

(* Nobody is counted on a connection that is only being set up.            *)
LEMMA FreshIsEmpty ==
  ASSUME Typed, ConnInv, CountInv, used["again"] = 0, NEW u \in Users, state[u] = "connecting"
  PROVE  refs[at[u]] = 0
<1>1. at[u] \in Connections
  BY DEF Typed, Located
<1>2. UsersOf(at[u]) = {}
  BY DEF ConnInv, Fresh, UsersOf, IsCounted
<1> QED
  BY <1>1, <1>2, FS_EmptySet DEF CountInv, RefsExact

LEMMA CloseUserLimit ==
  ASSUME Typed, Bounded, Room, UNCHANGED purpose,
         NEW u \in Users, state[u] \in {"using", "flushing"}, closeUser(u)
  PROVE  Bounded' /\ Room'
<1> DEFINE c == at[u]
<1>0. c \in Connections /\ releaseConnection(u, c)
  BY DEF closeUser, Typed, Located
<1>1. at' = at /\ \A v \in Users : Uncounted(v)' => Uncounted(v)
  BY <1>0, ReleaseEffect DEF closeUser, Typed, TypeOK, Uncounted
<1>2. refs'[c] = refs[c] - 1 /\ \A d \in Connections \ {c} : refs'[d] = refs[d]
  BY <1>0, ReleaseEffect DEF Typed
<1>3. MaxShared \in Nat /\ \A d \in Connections : refs[d] \in Int
  BY PoolAssumption DEF Typed, TypeOK
<1> HIDE DEF c
<1>4. \A d \in Connections : refs'[d] <= refs[d] /\ refs'[d] \in Int
  BY <1>2, <1>3
<1>5. Bounded'
  BY <1>3, <1>4 DEF Bounded
<1>6. ASSUME NEW v \in Users, Uncounted(v)'
      PROVE  refs'[at'[v]] < MaxShared
  <2>1. Uncounted(v) /\ at'[v] = at[v] /\ at[v] \in Connections
    BY <1>1, <1>6 DEF Typed, Located, Uncounted
  <2>2. refs[at[v]] < MaxShared
    BY <1>6, <2>1 DEF Room
  <2> QED
    BY <2>1, <2>2, <1>3, <1>4
<1> QED
  BY <1>5, <1>6 DEF Room

LEMMA StepLimit == PoolInv /\ [Next]_vars => LimitInv'
<1> SUFFICES ASSUME PoolInv, [Next]_vars PROVE LimitInv'
  OBVIOUS
<1> USE DEF Typed
<1>a. Typed /\ ConnInv /\ CountInv /\ LimitInv
  BY DEF PoolInv
<1>b. Alone'
  BY <1>a, StepAlone DEF LimitInv
<1>c. SUFFICES ASSUME Careful' PROVE Bounded' /\ Room'
  BY <1>b DEF LimitInv
<1>d. UNCHANGED <<purpose, serial, resolver>>
  BY DEF Next, vars
<1>e. used["again"] = 0 /\ \A u \in Users : ~CloseAgain(u)
  <2>1. CASE UNCHANGED used
    BY <2>1, <1>a, <1>c DEF Careful, CloseAgain, Spend, TypeOK, Events
  <2>2. ASSUME NEW e \in Events, Spend(e) PROVE used["again"] = 0 /\ e # "again"
    BY <2>2, <1>a, <1>c DEF Careful, Spend, TypeOK, Events
  <2>3. ASSUME NEW u \in Users, CloseAgain(u) PROVE FALSE
    BY <2>2, <2>3 DEF CloseAgain, Events
  <2>4. ASSUME NEW u \in Users, Refused(u) PROVE used["again"] = 0
    BY <2>2, <2>4 DEF Refused, Events
  <2>5. ASSUME NEW c \in Connections, Drop(c) PROVE used["again"] = 0
    BY <2>2, <2>5 DEF Drop, Events
  <2>6. UNCHANGED used \/ (\E u \in Users : Refused(u)) \/ (\E c \in Connections : Drop(c))
    BY <2>3, <1>a, LookupKinds
       DEF Next, vars, Lookup, Connected, Begin, Declared, Queried, Close, Flushed,
           CloseAnswered, SocketCloses
  <2> QED
    BY <2>3, <2>1, <2>4, <2>5, <2>6
<1>f. Careful /\ Bounded /\ Room
  BY <1>a, <1>c, <1>d, <1>e DEF Careful, LimitInv
<1>g. MaxShared \in Nat \ {0} /\ \A d \in Connections : refs[d] \in Int
  BY <1>a, PoolAssumption DEF TypeOK
<1>0. CASE UNCHANGED vars
  BY <1>0, <1>f DEF vars, pool, Bounded, Room, Uncounted
<1>1. ASSUME NEW u \in Users, Lookup(u) \/ Connected(u) PROVE Bounded' /\ Room'
  <2>1. PICK c \in Connections : Creates(u, c) \/ Reuses(u, c) \/ Receives(u, c)
    BY <1>1, <1>a, LookupKinds
  <2>2. /\ at'[u] = c /\ UNCHANGED refs
        /\ \A v \in Users \ {u} : at'[v] = at[v] /\ state'[v] = state[v]
    BY <2>1, <1>a DEF Creates, Reuses, Receives, TypeOK
  <2>3. CASE Creates(u, c)
    <3>1. state'[u] = "connecting"
      BY <2>3, <1>a DEF Creates, TypeOK
    <3>2. \A v \in Users : Uncounted(v)' => Uncounted(v) /\ at'[v] = at[v]
      BY <2>2, <3>1, <1>d DEF Uncounted
    <3> QED
      BY <2>2, <3>2, <1>f, SameLimit
  <2>4. CASE Reuses(u, c)
    <3>1. refs[c] < MaxShared
      BY <2>4 DEF Reuses, Cached
    <3> QED
      BY <2>2, <3>1, <1>a, <1>d, <1>f, GivenLimit
  <2>5. CASE Receives(u, c)
    <3>1. refs[c] < MaxShared
      BY <2>5, <1>a, <1>e, <1>g, FreshIsEmpty DEF Receives
    <3> QED
      BY <2>2, <3>1, <1>a, <1>d, <1>f, GivenLimit
  <2> QED
    BY <2>1, <2>3, <2>4, <2>5
<1>7. ASSUME NEW u \in Users, Begin(u) PROVE Bounded' /\ Room'
  <2> DEFINE c == at[u]
  <2>1. c \in Connections
    BY <1>7, <1>a DEF Begin, Located
  <2>2. /\ state[u] = "chosen" /\ state'[u] \in {"declaring", "ignored", "failed"}
        /\ UNCHANGED at /\ refs' \in [Connections -> Int]
        /\ \A v \in Users \ {u} : state'[v] = state[v]
        /\ \A d \in Connections \ {c} : refs'[d] = refs[d]
        /\ refs'[c] = IF purpose = "consumer" THEN refs[c] + 1 ELSE refs[c]
    BY <1>7, <1>a, <2>1, BeginEffect
  <2>3. CASE purpose = "consumer"
    <3>1. Uncounted(u) /\ ~Uncounted(u)'
      BY <2>2, <2>3, <1>d DEF Uncounted
    <3> QED
      BY <2>1, <2>2, <2>3, <3>1, <1>a, <1>d, <1>f, CountsLimit DEF LimitInv, Careful
  <2>4. CASE purpose # "consumer"
    <3>1. UNCHANGED refs
      <4>1. \A d \in Connections : refs'[d] = refs[d]
        BY <2>2, <2>4
      <4> QED
        BY <4>1, <2>2, <1>a DEF TypeOK
    <3>2. \A v \in Users : Uncounted(v)' => Uncounted(v) /\ at'[v] = at[v]
      BY <2>2, <1>d DEF Uncounted
    <3> QED
      BY <3>1, <3>2, <1>f, SameLimit
  <2> QED
    BY <2>3, <2>4
<1>2. ASSUME NEW u \in Users, Declared(u) \/ Queried(u) PROVE Bounded' /\ Room'
  <2> DEFINE c == at[u]
  <2>1. /\ state[u] \in {"declaring", "querying"} /\ c \in Connections
        /\ state'[u] \in {"querying", "using"}
        /\ \A v \in Users \ {u} : state'[v] = state[v]
        /\ UNCHANGED at
    BY <1>2, <1>a DEF Declared, Queried, TypeOK, Located
  <2>2. CASE UNCHANGED refs
    <3>1. state'[u] = "querying" => purpose = "publisher"
      BY <1>2, <1>a DEF Declared, Queried, TypeOK
    <3>2. \A v \in Users : Uncounted(v)' => Uncounted(v) /\ at'[v] = at[v]
      BY <2>1, <3>1, <1>d DEF Uncounted
    <3> QED
      BY <2>2, <3>2, <1>f, SameLimit
  <2>3. CASE purpose = "publisher" /\ Counted(u) /\ state'[u] = "using"
    <3>1. refs'[c] = refs[c] + 1 /\ \A d \in Connections \ {c} : refs'[d] = refs[d]
      BY <2>1, <2>3, <1>a, CountedEffect
    <3>2. Uncounted(u) /\ ~Uncounted(u)'
      BY <2>1, <2>3, <1>d DEF Uncounted
    <3> QED
      BY <2>1, <3>1, <3>2, <1>a, <1>d, <1>f, CountsLimit DEF LimitInv, Careful
  <2>4. \/ UNCHANGED refs
        \/ purpose = "publisher" /\ Counted(u) /\ state'[u] = "using"
    BY <1>2, <1>a DEF Declared, Queried, Counted, TypeOK
  <2> QED
    BY <2>2, <2>3, <2>4
<1>3. ASSUME NEW u \in Users, Refused(u) PROVE Bounded' /\ Room'
  <2>1. /\ state'[u] \in {"refused", "failed"} /\ UNCHANGED <<refs, at>>
        /\ \A v \in Users \ {u} : state'[v] = state[v]
    BY <1>3, <1>a DEF Refused, TypeOK
  <2>2. \A v \in Users : Uncounted(v)' => Uncounted(v) /\ at'[v] = at[v]
    BY <2>1, <1>d DEF Uncounted
  <2> QED
    BY <2>1, <2>2, <1>f, SameLimit
<1>4. ASSUME NEW u \in Users, Close(u) PROVE Bounded' /\ Room'
  <2>1. CASE closeUser(u)
    BY <1>4, <2>1, <1>a, <1>d, <1>f, CloseUserLimit DEF Close
  <2>2. CASE state' = [state EXCEPT ![u] = "flushing"] /\ UNCHANGED <<pool, at, id>>
    <3>1. /\ state'[u] = "flushing" /\ UNCHANGED <<refs, at>>
          /\ \A v \in Users \ {u} : state'[v] = state[v]
      BY <2>2, <1>a DEF pool, TypeOK
    <3>2. \A v \in Users : Uncounted(v)' => Uncounted(v) /\ at'[v] = at[v]
      BY <3>1, <1>d DEF Uncounted
    <3> QED
      BY <3>1, <3>2, <1>f, SameLimit
  <2> QED
    BY <1>4, <2>1, <2>2 DEF Close
<1>5. ASSUME NEW u \in Users, Flushed(u) PROVE Bounded' /\ Room'
  BY <1>5, <1>a, <1>d, <1>f, CloseUserLimit DEF Flushed
<1>6. ASSUME NEW c \in Connections, CloseAnswered(c) \/ Drop(c) \/ SocketCloses(c)
      PROVE  Bounded' /\ Room'
  <2>1. UNCHANGED <<refs, at>>
    BY <1>6 DEF CloseAnswered, Drop, SocketCloses
  <2>2. \A v \in Users : state'[v] = state[v] \/ state'[v] \in {"closed", "failed"}
    BY <1>6, <1>a DEF CloseAnswered, Drop, SocketCloses, TypeOK
  <2>3. \A v \in Users : Uncounted(v)' => Uncounted(v) /\ at'[v] = at[v]
    BY <2>1, <2>2, <1>d DEF Uncounted
  <2> QED
    BY <2>1, <2>3, <1>f, SameLimit
<1> QED
  BY <1>e, <1>0, <1>1, <1>2, <1>3, <1>4, <1>5, <1>6, <1>7 DEF Next

LEMMA InitLimit == Init => LimitInv
  BY PoolAssumption DEF Init, LimitInv, Alone, Bounded, Room, Uncounted, Awaiting

LEMMA InvLimits == PoolInv => SharedWithinLimit
<1> SUFFICES ASSUME PoolInv, Careful, NEW c \in Connections
             PROVE  Cardinality({u \in Users : at[u] = c /\ state[u] = "using"}) <= MaxShared
  BY DEF SharedWithinLimit, Careful
<1> DEFINE using == {u \in Users : at[u] = c /\ state[u] = "using"}
<1>1. using \subseteq UsersOf(c)
  BY DEF UsersOf, IsCounted
<1>2. IsFiniteSet(UsersOf(c)) /\ refs[c] = Cardinality(UsersOf(c)) /\ refs[c] \in Int
  BY UsersAreFinite DEF PoolInv, CountInv, RefsExact, Careful, Typed, TypeOK
<1>3. refs[c] <= MaxShared /\ MaxShared \in Nat
  BY PoolAssumption DEF PoolInv, LimitInv, Bounded
<1> HIDE DEF using
<1>4. Cardinality(using) <= Cardinality(UsersOf(c)) /\ Cardinality(using) \in Nat
  BY <1>1, <1>2, FS_Subset, FS_CardinalityType
<1> QED
  BY <1>2, <1>3, <1>4 DEF using

(* Calls in turn never give a connection more users than allowed.          *)
THEOREM LimitKept == Spec => []SharedWithinLimit
<1>1. Init => PoolInv
  BY InitTyped, InitConn, InitCount, InitLimit DEF PoolInv
<1>2. PoolInv /\ [Next]_vars => PoolInv'
  BY StepTyped, StepConn, StepCount, StepLimit DEF PoolInv
<1> QED
  BY <1>1, <1>2, InvLimits, PTL DEF Spec

-----------------------------------------------------------------------------
(* Calls made in turn, while nothing fails and nobody is closed twice.     *)
(* Whoever is being served has an open connection; one that is being set   *)
(* up, or is open, or ends, has the user that accounts for it; and but for *)
(* a resolver, the cache forgets a connection before the next call looks,  *)
(* so that the connection a lookup chooses is open.                        *)

Served == {"declaring", "querying", "using", "flushing"}
ServedUp == \A u \in Users : state[u] \in Served => conn[at[u]] = "up"
Awaited ==
  \A c \in Connections :
    conn[c] = "connecting" => \E u \in Users : at[u] = c /\ state[u] = "connecting"
Held ==
  \A c \in Connections : conn[c] = "up" => \E u \in Users : at[u] = c /\ state[u] # "closed"
Ending ==
  \A c \in Connections :
    conn[c] = "closing" => \E u \in Users : closer[c] = {u} /\ at[u] = c /\ state[u] = "closing"
CachedOnce == \A i, j \in 1 .. Len(cache) : cache[i] = cache[j] => i = j
CachedLives == \A k \in 1 .. Len(cache) : conn[cache[k]] \in {"up", "closing"}
ChosenUp == \A u \in Users : state[u] = "chosen" => conn[at[u]] = "up"
OutOfIds == \A u \in Users : state[u] \in {"ignored", "failed"} => id[u] >= IdSpace
Steady ==
  /\ ServedUp /\ Awaited /\ Held /\ Ending
  /\ ~resolver => CachedOnce /\ CachedLives /\ ChosenUp /\ OutOfIds
CalmInv == Calm => Steady
Undoubted == PoolInv /\ Calm /\ Steady

(* What a calm step is not.                                                *)
LEMMA CalmBefore ==
  ASSUME Typed, Calm', [Next]_vars
  PROVE  /\ Calm /\ UNCHANGED <<purpose, serial, resolver, used>>
         /\ \A u \in Users : ~Refused(u) /\ ~CloseAgain(u)
         /\ \A c \in Connections : ~Drop(c)
<1>1. used \in [Events -> Nat] /\ UNCHANGED <<purpose, serial, resolver>>
  BY DEF Typed, TypeOK, Next, vars
<1>2. \A e \in Events : ~Spend(e)
  BY <1>1 DEF Spend, Calm
<1>3. /\ \A u \in Users : ~Refused(u) /\ ~CloseAgain(u)
      /\ \A c \in Connections : ~Drop(c)
  BY <1>2 DEF Refused, CloseAgain, Drop, Events
<1>4. UNCHANGED used
  BY <1>3, LookupKinds
     DEF Next, vars, Lookup, Connected, Begin, Declared, Queried, Close, Flushed,
         CloseAnswered, SocketCloses
<1> QED
  BY <1>1, <1>3, <1>4 DEF Calm

(* What the invariant says of the entries of the cache.                    *)
LEMMA CacheFacts ==
  ASSUME Typed, ConnInv
  PROVE  /\ Len(cache) \in Nat
         /\ \A k \in 1 .. Len(cache) : cache[k] \in Connections /\ conn[cache[k]] \notin Born
  BY LenProperties, ElementOfSeq DEF Typed, TypeOK, ConnInv, CachedUp

LEMMA CreatesSteady ==
  ASSUME Undoubted, UNCHANGED resolver,
         NEW u \in Users, NEW c \in Connections, Creates(u, c)
  PROVE  Steady'
<1>0. Typed /\ ConnInv
  BY DEF Undoubted, PoolInv
<1>1. /\ conn'[c] = "connecting" /\ conn[c] = "none" /\ state[u] = "idle" /\ at[u] = 0
      /\ \A d \in Connections \ {c} : conn'[d] = conn[d]
      /\ UNCHANGED <<cache, id, closer>>
  BY <1>0 DEF Creates, Typed, TypeOK, Located
<1>2. /\ at'[u] = c /\ state'[u] = "connecting"
      /\ \A v \in Users \ {u} : at'[v] = at[v] /\ state'[v] = state[v]
  BY <1>0 DEF Creates, Typed, TypeOK
<1>3. \A v \in Users : at[v] # c
  BY <1>0, <1>1 DEF ConnInv, Unused
<1>4. ServedUp'
  <2> SUFFICES ASSUME NEW v \in Users, state'[v] \in Served PROVE conn'[at'[v]] = "up"
    BY DEF ServedUp
  <2>1. v # u /\ at'[v] = at[v] /\ state'[v] = state[v] /\ at[v] \in Connections \ {c}
    BY <1>0, <1>2, <1>3 DEF Served, Typed, Located
  <2> QED
    BY <1>1, <2>1 DEF Undoubted, Steady, ServedUp
<1>5. Awaited' /\ Held' /\ Ending'
  <2>1. 0 \notin Connections
    BY ConnectionsAreNumbers
  <2>2. ASSUME NEW d \in Connections \ {c}, NEW v \in Users, at[v] = d
        PROVE  at'[v] = d /\ state'[v] = state[v] /\ conn'[d] = conn[d]
    BY <1>1, <1>2, <2>1, <2>2
  <2>3. Awaited'
    BY <1>1, <1>2, <2>2 DEF Undoubted, Steady, Awaited
  <2>4. Held'
    BY <1>1, <1>2, <2>2 DEF Undoubted, Steady, Held
  <2>5. Ending'
    BY <1>1, <1>2, <2>2 DEF Undoubted, Steady, Ending
  <2> QED
    BY <2>3, <2>4, <2>5
<1>6. ~resolver => (CachedOnce /\ CachedLives /\ ChosenUp /\ OutOfIds)'
  <2>1. \A k \in 1 .. Len(cache) : cache[k] \in Connections \ {c}
    BY <1>0, <1>1, CacheFacts DEF Born
  <2>2. ~resolver => (CachedOnce /\ CachedLives)'
    BY <1>1, <2>1 DEF Undoubted, Steady, CachedOnce, CachedLives
  <2>3. ~resolver => OutOfIds'
    BY <1>1, <1>2 DEF Undoubted, Steady, OutOfIds
  <2>4. ~resolver => ChosenUp'
    <3> SUFFICES ASSUME ~resolver, NEW v \in Users, state'[v] = "chosen" PROVE conn'[at'[v]] = "up"
      BY DEF ChosenUp
    <3>1. v # u /\ at'[v] = at[v] /\ state[v] = "chosen" /\ at[v] \in Connections \ {c}
      BY <1>0, <1>2, <1>3 DEF Typed, Located
    <3> QED
      BY <1>1, <3>1 DEF Undoubted, Steady, ChosenUp
  <2> QED
    BY <2>2, <2>3, <2>4
<1> QED
  BY <1>4, <1>5, <1>6 DEF Steady

(* Nothing ends while a call may start.                                    *)
LEMMA NoneEnds ==
  ASSUME Undoubted, MayStart, NEW c \in Connections
  PROVE  conn[c] # "closing"
  BY DEF Undoubted, Calm, MayStart, Steady, Ending, Awaiting

LEMMA ReusesSteady ==
  ASSUME Undoubted, UNCHANGED resolver, MayStart,
         NEW u \in Users, NEW c \in Connections, Reuses(u, c)
  PROVE  Steady'
<1>0. Typed /\ ConnInv
  BY DEF Undoubted, PoolInv
<1>1. UNCHANGED <<conn, cache, closer, id>> /\ state[u] = "idle" /\ at[u] = 0
  BY <1>0 DEF Reuses, Typed, Located
<1>2. /\ at'[u] = c /\ state'[u] = "chosen"
      /\ \A v \in Users \ {u} : at'[v] = at[v] /\ state'[v] = state[v]
  BY <1>0 DEF Reuses, Typed, TypeOK
<1>4. ServedUp'
  BY <1>1, <1>2 DEF Undoubted, Steady, ServedUp, Served
<1>5. Awaited' /\ Held' /\ Ending'
  <2>1. 0 \notin Connections
    BY ConnectionsAreNumbers
  <2>2. ASSUME NEW d \in Connections, NEW v \in Users, at[v] = d
        PROVE  at'[v] = d /\ state'[v] = state[v]
    BY <1>1, <1>2, <2>1, <2>2
  <2>3. Awaited'
    BY <1>1, <2>2 DEF Undoubted, Steady, Awaited
  <2>4. Held'
    BY <1>1, <2>2 DEF Undoubted, Steady, Held
  <2>5. Ending'
    BY <1>1, <2>2 DEF Undoubted, Steady, Ending
  <2> QED
    BY <2>3, <2>4, <2>5
<1>6. ASSUME ~resolver PROVE (CachedOnce /\ CachedLives /\ ChosenUp /\ OutOfIds)'
  <2>1. CachedOnce' /\ CachedLives'
    BY <1>1, <1>6 DEF Undoubted, Steady, CachedOnce, CachedLives
  <2>2. conn[c] = "up"
    <3>1. c = cache[Len(cache)] /\ Len(cache) \in 1 .. Len(cache)
      BY <1>0, CachedIsConnection DEF Reuses, Typed
    <3>2. conn[c] \in {"up", "closing"}
      BY <1>6, <3>1 DEF Undoubted, Steady, CachedLives
    <3> QED
      BY <3>2, NoneEnds
  <2>3. ChosenUp'
    BY <1>1, <1>2, <1>6, <2>2 DEF Undoubted, Steady, ChosenUp
  <2>4. OutOfIds'
    BY <1>1, <1>2, <1>6 DEF Undoubted, Steady, OutOfIds
  <2> QED
    BY <2>1, <2>3, <2>4
<1> QED
  BY <1>4, <1>5, <1>6 DEF Steady

(* A connection that is set up is new to the cache.                        *)
LEMMA ReceivesSteady ==
  ASSUME Undoubted, UNCHANGED resolver,
         NEW u \in Users, NEW c \in Connections, Receives(u, c)
  PROVE  Steady'
<1>0. Typed /\ ConnInv
  BY DEF Undoubted, PoolInv
<1>1. /\ conn'[c] = "up" /\ conn[c] = "connecting" /\ at[u] = c
      /\ \A d \in Connections \ {c} : conn'[d] = conn[d]
      /\ \A v \in Users \ {u} : at[v] # c
      /\ cache' = Append(cache, c) /\ UNCHANGED <<closer, at, id>>
  BY <1>0 DEF Receives, Typed, TypeOK, ConnInv, Fresh
<1>2. state'[u] = "chosen" /\ \A v \in Users \ {u} : state'[v] = state[v]
  BY <1>0 DEF Receives, Typed, TypeOK
<1>3. \A v \in Users \ {u} : state[v] # "idle" => at[v] \in Connections \ {c}
  BY <1>0, <1>1 DEF Typed, Located
<1>4. ServedUp'
  BY <1>1, <1>2, <1>3 DEF Undoubted, Steady, ServedUp, Served
<1>5. ASSUME NEW d \in Connections \ {c}, NEW v \in Users, at[v] = d
      PROVE  v # u /\ at'[v] = d /\ state'[v] = state[v]
  BY <1>1, <1>2, <1>5
<1>6. Awaited'
  BY <1>1, <1>5 DEF Undoubted, Steady, Awaited
<1>7. Held'
  BY <1>1, <1>2, <1>5 DEF Undoubted, Steady, Held
<1>8. Ending'
  BY <1>1, <1>5 DEF Undoubted, Steady, Ending
<1>9. ASSUME ~resolver PROVE (CachedOnce /\ CachedLives /\ ChosenUp /\ OutOfIds)'
  <2>1. /\ Len(cache') = Len(cache) + 1 /\ cache'[Len(cache) + 1] = c
        /\ \A k \in 1 .. Len(cache) : cache'[k] = cache[k]
        /\ Len(cache) \in Nat
    BY <1>0, <1>1, AppendProperties, LenProperties DEF Typed, TypeOK
  <2>2. \A k \in 1 .. Len(cache) : cache[k] \in Connections \ {c}
    BY <1>0, <1>1, CacheFacts DEF Born
  <2>3. \A k \in 1 .. Len(cache') : k = Len(cache) + 1 \/ k \in 1 .. Len(cache)
    BY <2>1
  <2>4. \A i, j \in 1 .. Len(cache) : cache[i] = cache[j] => i = j
    BY <1>9 DEF Undoubted, Steady, CachedOnce
  <2>5. CachedOnce'
    BY <2>1, <2>2, <2>3, <2>4 DEF CachedOnce
  <2>6. \A k \in 1 .. Len(cache) : conn'[cache'[k]] \in {"up", "closing"}
    BY <1>1, <1>9, <2>1, <2>2 DEF Undoubted, Steady, CachedLives
  <2>7. CachedLives'
    BY <1>1, <2>1, <2>3, <2>6 DEF CachedLives
  <2>8. ChosenUp'
    BY <1>1, <1>2, <1>3, <1>9 DEF Undoubted, Steady, ChosenUp
  <2>9. OutOfIds'
    BY <1>1, <1>2, <1>9 DEF Undoubted, Steady, OutOfIds
  <2> QED
    BY <2>5, <2>7, <2>8, <2>9
<1> QED
  BY <1>4, <1>6, <1>7, <1>8, <1>9 DEF Steady

(* The request goes out on the connection that was chosen.                 *)
LEMMA BeginSteady ==
  ASSUME Undoubted, UNCHANGED resolver, NEW u \in Users, Begin(u)
  PROVE  Steady'
<1> DEFINE c == at[u]
<1>0. Typed /\ c \in Connections
  BY DEF Undoubted, PoolInv, Begin, Typed, Located
<1>1. /\ UNCHANGED <<cache, conn, closer, at>> /\ state[u] = "chosen"
      /\ state'[u] \in {"declaring", "ignored", "failed"} /\ id'[u] = nextId[c]
      /\ \A v \in Users \ {u} : state'[v] = state[v] /\ id'[v] = id[v]
  BY <1>0, BeginEffect
<1>2. /\ state'[u] = "declaring" => conn[c] = "up"
      /\ state'[u] = "ignored" => conn[c] = "closing"
      /\ state'[u] = "failed" => nextId[c] >= IdSpace \/ conn[c] \notin {"up", "closing"}
  <2>1. state \in [Users -> UserStates]
    BY <1>0 DEF Typed, TypeOK
  <2> QED
    BY <2>1 DEF Begin
<1>3. ServedUp'
  BY <1>1, <1>2 DEF Undoubted, Steady, ServedUp, Served
<1>4. Awaited' /\ Ending'
  BY <1>1 DEF Undoubted, Steady, Awaited, Ending
<1>5. Held'
  BY <1>1 DEF Undoubted, Steady, Held
<1>6. ~resolver => (CachedOnce /\ CachedLives)'
  BY <1>1 DEF Undoubted, Steady, CachedOnce, CachedLives
<1>7. ~resolver => ChosenUp'
  BY <1>1 DEF Undoubted, Steady, ChosenUp
<1>8. ~resolver => OutOfIds'
  BY <1>1, <1>2 DEF Undoubted, Steady, ChosenUp, OutOfIds
<1> QED
  BY <1>3, <1>4, <1>5, <1>6, <1>7, <1>8 DEF Steady

(* A user that is served goes on.                                          *)
LEMMA GoesOnSteady ==
  ASSUME Undoubted, UNCHANGED <<resolver, closer, conn, cache, at, id>>,
         NEW u \in Users, state[u] \in Served, state'[u] \in Served,
         \A v \in Users \ {u} : state'[v] = state[v]
  PROVE  Steady'
<1>1. ServedUp'
  BY DEF Undoubted, Steady, ServedUp
<1>2. Awaited' /\ Ending'
  BY DEF Undoubted, Steady, Awaited, Ending, Served
<1>3. Held'
  BY DEF Undoubted, Steady, Held, Served
<1>4. ~resolver => (CachedOnce /\ CachedLives)'
  BY DEF Undoubted, Steady, CachedOnce, CachedLives
<1>5. ~resolver => OutOfIds' /\ ChosenUp'
  BY DEF Undoubted, Steady, OutOfIds, ChosenUp, Served
<1> QED
  BY <1>1, <1>2, <1>3, <1>4, <1>5 DEF Steady

(* Whether a release is the last is whether the user is the only one left. *)
LEMMA LastMeansAlone ==
  ASSUME Undoubted, NEW u \in Users, state[u] \in {"using", "flushing"}
  PROVE  /\ at[u] \in Connections /\ conn[at[u]] = "up"
         /\ LastRelease(at[u]) <=> \A v \in Users \ {u} : at[v] = at[u] => ~IsCounted(v)
<1> DEFINE c == at[u]
<1>0. Typed /\ CountInv /\ used["again"] = 0
  BY DEF Undoubted, PoolInv, Calm, Events
<1>1. c \in Connections /\ conn[c] = "up"
  BY <1>0 DEF Typed, Located, Undoubted, Steady, ServedUp, Served
<1>2. u \in UsersOf(c)
  BY <1>0, PoolAssumption DEF UsersOf, IsCounted, CountInv, Roles, Typed, TypeOK
<1>3. refs[c] = Cardinality(UsersOf(c)) /\ IsFiniteSet(UsersOf(c))
  BY <1>0, <1>1, UsersAreFinite DEF CountInv, RefsExact
<1>4. LastRelease(c) <=> refs[c] - 1 <= 0
  BY <1>1 DEF LastRelease, ready
<1>5. (\A v \in Users \ {u} : at[v] = c => ~IsCounted(v)) <=> UsersOf(c) \ {u} = {}
  BY DEF UsersOf
<1> HIDE DEF c
<1>6. /\ Cardinality(UsersOf(c) \ {u}) = refs[c] - 1 /\ IsFiniteSet(UsersOf(c) \ {u})
      /\ Cardinality(UsersOf(c) \ {u}) \in Nat
  BY <1>2, <1>3, FS_RemoveElement, FS_CardinalityType
<1>7. Cardinality(UsersOf(c) \ {u}) = 0 <=> UsersOf(c) \ {u} = {}
  BY <1>6, FS_EmptySet
<1>8. \A n \in Nat : n <= 0 <=> n = 0
  OBVIOUS
<1>9. LastRelease(c) <=> (\A v \in Users \ {u} : at[v] = c => ~IsCounted(v))
  BY <1>4, <1>5, <1>6, <1>7, <1>8
<1> QED
  BY <1>1, <1>9 DEF c

(* The last user to be closed ends the connection and waits; before it,    *)
(* someone is left that holds the connection open.                         *)
LEMMA CloseUserSteady ==
  ASSUME Undoubted, UNCHANGED resolver, NEW u \in Users, state[u] \in {"using", "flushing"},
         closeUser(u), \A v \in Users \ {u} : state[v] \notin Awaiting
  PROVE  Steady'
<1> DEFINE c == at[u]
<1>0. Typed
  BY DEF Undoubted, PoolInv
<1>1. /\ c \in Connections /\ conn[c] = "up"
      /\ LastRelease(c) <=> \A v \in Users \ {u} : at[v] = c => ~IsCounted(v)
  BY LastMeansAlone
<1>2. /\ UNCHANGED <<at, id>> /\ \A v \in Users \ {u} : state'[v] = state[v]
      /\ state'[u] = IF LastRelease(c) THEN "closing" ELSE "closed"
      /\ UNCHANGED cache
      /\ IF LastRelease(c)
           THEN conn' = [conn EXCEPT ![c] = "closing"] /\ closer' = [closer EXCEPT ![c] = {u}]
           ELSE UNCHANGED <<conn, closer>>
  BY <1>0, <1>1 DEF closeUser, releaseConnection, Typed, TypeOK
<1>3. ASSUME NEW v \in Users \ {u}, state[v] \in Served PROVE state[v] = "using" /\ IsCounted(v)
  BY <1>3 DEF Served, Awaiting, IsCounted
<1>7. \A v \in Users \ {u} : state[v] # "chosen"
  BY DEF Awaiting
<1>4. at[u] = c
  OBVIOUS
<1> HIDE DEF c
<1>5. CASE LastRelease(c)
  <2>1. /\ conn'[c] = "closing" /\ \A d \in Connections \ {c} : conn'[d] = conn[d]
        /\ closer'[c] = {u} /\ \A d \in Connections \ {c} : closer'[d] = closer[d]
        /\ state'[u] = "closing"
    BY <1>0, <1>1, <1>2, <1>5 DEF Typed, TypeOK
  <2>2. ServedUp'
    <3> SUFFICES ASSUME NEW v \in Users, state'[v] \in Served PROVE conn'[at[v]] = "up"
      BY <1>2 DEF ServedUp
    <3>1. v # u /\ state[v] \in Served /\ at[v] \in Connections
      BY <1>0, <1>2, <2>1 DEF Served, Typed, Located
    <3>2. at[v] # c
      BY <1>1, <1>3, <1>5, <3>1
    <3> QED
      BY <2>1, <3>1, <3>2 DEF Undoubted, Steady, ServedUp
  <2>3. Awaited' /\ Held'
    BY <1>2, <1>4, <2>1 DEF Undoubted, Steady, Awaited, Held
  <2>4. Ending'
    BY <1>2, <1>4, <2>1 DEF Undoubted, Steady, Ending
  <2>5. ~resolver => CachedOnce' /\ CachedLives'
    <3>1. \A k \in 1 .. Len(cache) : cache[k] \in Connections
      BY <1>0, CacheFacts DEF Undoubted, PoolInv
    <3> QED
      BY <1>2, <2>1, <3>1 DEF Undoubted, Steady, CachedOnce, CachedLives
  <2>6. ~resolver => OutOfIds' /\ ChosenUp'
    BY <1>2, <1>7, <2>1 DEF Undoubted, Steady, OutOfIds, ChosenUp
  <2> QED
    BY <2>2, <2>3, <2>4, <2>5, <2>6 DEF Steady
<1>6. CASE ~LastRelease(c)
  <2>1. state'[u] = "closed" /\ UNCHANGED <<conn, closer>>
    BY <1>2, <1>6
  <2>2. ServedUp' /\ Awaited' /\ Ending'
    BY <1>2, <2>1 DEF Undoubted, Steady, ServedUp, Awaited, Ending, Served
  <2>3. Held'
    <3>1. PICK w \in Users \ {u} : at[w] = c /\ IsCounted(w)
      BY <1>1, <1>6
    <3>2. state'[w] # "closed" /\ at'[w] = c
      BY <1>2, <3>1 DEF IsCounted
    <3> QED
      BY <1>2, <1>4, <2>1, <3>2 DEF Undoubted, Steady, Held
  <2>4. ~resolver => CachedOnce' /\ CachedLives'
    BY <1>2, <2>1 DEF Undoubted, Steady, CachedOnce, CachedLives
  <2>5. ~resolver => OutOfIds' /\ ChosenUp'
    BY <1>2, <1>7, <2>1 DEF Undoubted, Steady, OutOfIds, ChosenUp
  <2> QED
    BY <2>2, <2>3, <2>4, <2>5 DEF Steady
<1> QED
  BY <1>5, <1>6

(* A connection that is removed from the cache is no longer in it.         *)
LEMMA RemovedForGood ==
  ASSUME cache \in Seq(Connections), NEW c \in Connections, ~resolver, CachedOnce,
         removeCachedConnection(c)
  PROVE  /\ CachedOnce'
         /\ \A k \in 1 .. Len(cache') : \E m \in 1 .. Len(cache) : cache'[k] = cache[m] /\ cache[m] # c
<1>0. Len(cache) \in Nat /\ DOMAIN cache = 1 .. Len(cache)
  BY LenProperties
<1>1. CASE c \notin ToSet(cache) /\ UNCHANGED cache
  <2>1. \A k \in 1 .. Len(cache) : cache[k] # c
    BY <1>0, <1>1 DEF ToSet
  <2> QED
    BY <1>1, <2>1 DEF CachedOnce
<1>2. ASSUME NEW i \in DOMAIN cache, cache[i] = c, cache' = RemoveAt(cache, i)
      PROVE  /\ CachedOnce'
             /\ \A k \in 1 .. Len(cache') : \E m \in 1 .. Len(cache) : cache'[k] = cache[m] /\ cache[m] # c
  <2> DEFINE from(k) == IF k < i THEN k ELSE k + 1
  <2>1. /\ Len(cache') = Len(cache) - 1 /\ i \in 1 .. Len(cache)
        /\ \A k \in 1 .. Len(cache') : cache'[k] = cache[from(k)]
    <3>1. i \in 1 .. Len(cache)
      BY <1>0
    <3>2. /\ Len(RemoveAt(cache, i)) = Len(cache) - 1
          /\ \A k \in 1 .. Len(RemoveAt(cache, i)) :
               RemoveAt(cache, i)[k] = cache[IF k < i THEN k ELSE k + 1]
      BY <3>1, RemoveAtElements
    <3> QED
      BY <1>2, <3>1, <3>2
  <2>2. \A k \in 1 .. Len(cache') : from(k) \in 1 .. Len(cache) /\ from(k) # i
    BY <1>0, <2>1
  <2>3. \A j, k \in 1 .. Len(cache') : from(j) = from(k) => j = k
    BY <1>0, <2>1
  <2> HIDE DEF from
  <2>4. CachedOnce'
    BY <2>1, <2>2, <2>3 DEF CachedOnce
  <2>5. \A k \in 1 .. Len(cache') : cache[from(k)] # c
    BY <1>2, <2>1, <2>2 DEF CachedOnce
  <2> QED
    BY <2>1, <2>2, <2>4, <2>5
<1> QED
  BY <1>1, <1>2 DEF removeCachedConnection

LEMMA CloseAnsweredSteady ==
  ASSUME Undoubted, UNCHANGED resolver, NEW c \in Connections, CloseAnswered(c)
  PROVE  Steady'
<1>0. Typed /\ ConnInv
  BY DEF Undoubted, PoolInv
<1>1. /\ conn[c] = "closing" /\ conn'[c] = "half" /\ UNCHANGED <<at, id, closer>>
      /\ \A d \in Connections \ {c} : conn'[d] = conn[d]
  BY <1>0 DEF CloseAnswered, Typed, TypeOK
<1>2. PICK u \in Users : closer[c] = {u} /\ at[u] = c /\ state[u] = "closing"
  BY <1>1 DEF Undoubted, Steady, Ending
<1>3. /\ state'[u] = "closed" /\ \A v \in Users \ {u} : state'[v] = state[v]
      /\ removeCachedConnection(c)
  BY <1>0, <1>2 DEF CloseAnswered, Typed, TypeOK
<1>4. ServedUp'
  <2> SUFFICES ASSUME NEW v \in Users, state'[v] \in Served PROVE conn'[at[v]] = "up"
    BY <1>1 DEF ServedUp
  <2>1. v # u /\ state[v] \in Served /\ at[v] \in Connections
    BY <1>0, <1>3 DEF Served, Typed, Located
  <2> QED
    BY <1>1, <2>1 DEF Undoubted, Steady, ServedUp
<1>5. Awaited' /\ Held' /\ Ending'
  BY <1>1, <1>2, <1>3 DEF Undoubted, Steady, Awaited, Held, Ending
<1>6. ASSUME ~resolver PROVE (CachedOnce /\ CachedLives /\ ChosenUp /\ OutOfIds)'
  <2>1. /\ CachedOnce'
        /\ \A k \in 1 .. Len(cache') : \E m \in 1 .. Len(cache) : cache'[k] = cache[m] /\ cache[m] # c
    BY <1>0, <1>3, <1>6, RemovedForGood DEF Undoubted, Steady, Typed, TypeOK
  <2>2. \A m \in 1 .. Len(cache) : cache[m] \in Connections /\ conn[cache[m]] \in {"up", "closing"}
    BY <1>0, <1>6, CacheFacts DEF Undoubted, Steady, CachedLives
  <2>3. CachedLives'
    BY <1>1, <2>1, <2>2 DEF CachedLives
  <2>4. OutOfIds'
    BY <1>1, <1>3, <1>6 DEF Undoubted, Steady, OutOfIds
  <2>5. ChosenUp'
    BY <1>0, <1>1, <1>3, <1>6 DEF Undoubted, Steady, ChosenUp, Typed, Located
  <2> QED
    BY <2>1, <2>3, <2>4, <2>5
<1> QED
  BY <1>4, <1>5, <1>6 DEF Steady

LEMMA SocketClosesSteady ==
  ASSUME Undoubted, UNCHANGED resolver, NEW c \in Connections, SocketCloses(c)
  PROVE  Steady'
<1>0. Typed /\ ConnInv
  BY DEF Undoubted, PoolInv
<1>1. /\ conn[c] = "half" /\ conn'[c] = "down" /\ UNCHANGED <<at, id, closer, cache, state>>
      /\ \A d \in Connections \ {c} : conn'[d] = conn[d]
  BY <1>0 DEF SocketCloses, Typed, TypeOK
<1>2. ServedUp'
  <2> SUFFICES ASSUME NEW v \in Users, state[v] \in Served PROVE conn'[at[v]] = "up"
    BY <1>1 DEF ServedUp
  <2>1. at[v] \in Connections /\ conn[at[v]] = "up"
    BY <1>0 DEF Served, Typed, Located, Undoubted, Steady, ServedUp
  <2> QED
    BY <1>1, <2>1
<1>3. Awaited' /\ Held' /\ Ending'
  BY <1>1 DEF Undoubted, Steady, Awaited, Held, Ending
<1>4. ASSUME ~resolver PROVE (CachedOnce /\ CachedLives /\ ChosenUp /\ OutOfIds)'
  <2>1. \A m \in 1 .. Len(cache) : cache[m] \in Connections /\ conn[cache[m]] \in {"up", "closing"}
    BY <1>0, <1>4, CacheFacts DEF Undoubted, Steady, CachedLives
  <2>2. CachedOnce' /\ CachedLives' /\ OutOfIds'
    BY <1>1, <1>4, <2>1 DEF Undoubted, Steady, CachedOnce, CachedLives, OutOfIds
  <2>3. ChosenUp'
    BY <1>0, <1>1, <1>4 DEF Undoubted, Steady, ChosenUp, Typed, Located
  <2> QED
    BY <2>2, <2>3
<1> QED
  BY <1>2, <1>3, <1>4 DEF Steady

LEMMA StepCalm == PoolInv /\ CalmInv /\ [Next]_vars => CalmInv'
<1> SUFFICES ASSUME PoolInv, CalmInv, [Next]_vars, Calm' PROVE Steady'
  BY DEF CalmInv
<1>a. Typed /\ LimitInv
  BY DEF PoolInv
<1>b. /\ Calm /\ UNCHANGED <<purpose, serial, resolver, used>>
      /\ \A u \in Users : ~Refused(u) /\ ~CloseAgain(u)
      /\ \A c \in Connections : ~Drop(c)
  BY <1>a, CalmBefore
<1>c. Undoubted
  BY <1>b DEF Undoubted, CalmInv
<1>d. serial
  BY <1>b DEF Calm
<1>0. CASE UNCHANGED vars
  BY <1>0, <1>c
     DEF vars, pool, Undoubted, Steady, ServedUp, Awaited, Held, Ending, CachedOnce,
         CachedLives, ChosenUp, OutOfIds
<1>1. ASSUME NEW u \in Users, Lookup(u) \/ Connected(u) PROVE Steady'
  <2>2. PICK c \in Connections : Creates(u, c) \/ Reuses(u, c) \/ Receives(u, c)
    BY <1>1, <1>a, LookupKinds
  <2>3. ASSUME Reuses(u, c) PROVE MayStart
    BY <1>1, <2>3 DEF Reuses, Lookup, Connected
  <2> QED
    BY <1>b, <1>c, <2>2, <2>3, CreatesSteady, ReusesSteady, ReceivesSteady
<1>2. ASSUME NEW u \in Users, Declared(u) \/ Queried(u) PROVE Steady'
  <2>1. /\ state[u] \in Served /\ state'[u] \in Served
        /\ \A v \in Users \ {u} : state'[v] = state[v]
        /\ UNCHANGED <<closer, conn, cache, at, id>>
    BY <1>2, <1>a DEF Declared, Queried, Served, Typed, TypeOK
  <2> QED
    BY <1>b, <1>c, <2>1, GoesOnSteady
<1>3. ASSUME NEW u \in Users, Close(u) PROVE Steady'
  <2>1. state[u] = "using" /\ \A v \in Users : state[v] \notin Awaiting
    BY <1>3, <1>d DEF Close, MayStart
  <2>2. CASE closeUser(u)
    BY <1>b, <1>c, <2>1, <2>2, CloseUserSteady
  <2>3. CASE state' = [state EXCEPT ![u] = "flushing"] /\ UNCHANGED <<pool, at, id>>
    <3>1. /\ state[u] \in Served /\ state'[u] \in Served
          /\ \A v \in Users \ {u} : state'[v] = state[v]
          /\ UNCHANGED <<closer, conn, cache, at, id>>
      BY <1>a, <2>1, <2>3 DEF pool, Served, Typed, TypeOK
    <3> QED
      BY <1>b, <1>c, <3>1, GoesOnSteady
  <2> QED
    BY <1>3, <2>2, <2>3 DEF Close
<1>4. ASSUME NEW u \in Users, Flushed(u) PROVE Steady'
  <2>1. state[u] = "flushing" /\ \A v \in Users \ {u} : state[v] \notin Awaiting
    BY <1>4, <1>a, <1>d DEF Flushed, LimitInv, Alone, Awaiting
  <2> QED
    BY <1>4, <1>b, <1>c, <2>1, CloseUserSteady DEF Flushed
<1>5. ASSUME NEW c \in Connections, CloseAnswered(c) \/ SocketCloses(c) PROVE Steady'
  BY <1>5, <1>b, <1>c, CloseAnsweredSteady, SocketClosesSteady
<1>6. ASSUME NEW u \in Users, Begin(u) PROVE Steady'
  BY <1>6, <1>b, <1>c, BeginSteady
<1> QED
  BY <1>b, <1>0, <1>1, <1>2, <1>3, <1>4, <1>5, <1>6 DEF Next

LEMMA InitCalm == Init => CalmInv
  BY EmptySeq DEF Init, CalmInv, Steady, ServedUp, Awaited, Held, Ending, CachedOnce, CachedLives,
                  ChosenUp, OutOfIds, Served

LEMMA PoolAlways == Spec => [](PoolInv /\ CalmInv)
<1>1. Init => PoolInv /\ CalmInv
  BY InitTyped, InitConn, InitCount, InitLimit, InitCalm DEF PoolInv
<1>2. PoolInv /\ CalmInv /\ [Next]_vars => (PoolInv /\ CalmInv)'
  BY StepTyped, StepConn, StepCount, StepLimit, StepCalm DEF PoolInv
<1> QED
  BY <1>1, <1>2, PTL DEF Spec

(* Calls in turn: closing users never ends the connection of one in use.   *)
THEOREM StaysOpen == Spec => []InTurnStaysOpen
<1>1. PoolInv /\ CalmInv => InTurnStaysOpen
  BY DEF CalmInv, Steady, ServedUp, Served, InTurnStaysOpen
<1> QED
  BY <1>1, PoolAlways, PTL

(* Calls in turn, and no address resolver: a declaration fails only when   *)
(* its connection has run out of ids.                                      *)
THEOREM DeclarationsSucceed == Spec => []DeclaresSucceed
<1>1. PoolInv /\ CalmInv => DeclaresSucceed
  BY DEF CalmInv, Steady, OutOfIds, DeclaresSucceed
<1> QED
  BY <1>1, PoolAlways, PTL

(* Calls in turn: no connection stays open once its users are closed.      *)
THEOREM NoneAbandoned == Spec => []AbandonedEnds
<1>1. ASSUME PoolInv, CalmInv, Calm, NEW c \in Connections, Abandoned(c)
      PROVE  conn[c] \in {"closing", "half", "down"}
  <2>1. conn[c] \in ConnStates \ {"none"}
    BY <1>1 DEF Abandoned, PoolInv, Typed, TypeOK
  <2>2. conn[c] # "connecting" /\ conn[c] # "up"
    BY <1>1 DEF Abandoned, CalmInv, Steady, Awaited, Held
  <2> QED
    BY <2>1, <2>2 DEF ConnStates
<1>2. PoolInv /\ CalmInv => AbandonedEnds
  BY <1>1 DEF AbandonedEnds
<1> QED
  BY <1>2, PoolAlways, PTL
=============================================================================
